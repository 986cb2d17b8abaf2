---------------------------- MODULE FileIO_proof ----------------------------
(***************************************************************************)
(* Proofs about FileIO, for every volume: any sizes of blocks and clusters,*)
(* any files and contents, any number of errors and losses of power.  The  *)
(* last part proves that files are the sequences of bytes of ByteFile.     *)
(***************************************************************************)
EXTENDS FileIO, Induction, FiniteSetTheorems

\* What an entry of the FAT may hold, and where a walk may be.
Node == Cluster \cup {EMPTY, END_OF_FILE}
Fats == [Cluster -> Node]

\* One link of a walk.
Hop(v) == [d \in Node |-> IF d \in Cluster THEN v[d] ELSE d]

LEMMA ClusterFacts ==
  /\ \A c \in Cluster : c \in Nat /\ c >= 2 /\ c # EMPTY /\ c # END_OF_FILE /\ c # NONE
  /\ EMPTY # END_OF_FILE /\ NONE = EMPTY
  /\ ClusterCount \in Nat \ {0} /\ IsFiniteSet(Cluster) /\ Cardinality(Cluster) = ClusterCount
<1>1. ClusterCount \in Nat \ {0}
  BY SizeAssumption
<1>2. IsFiniteSet(Cluster) /\ Cardinality(Cluster) = ClusterCount
  BY <1>1, FS_Interval DEF Cluster, RESERVED_ENTRIES
<1> QED BY <1>1, <1>2 DEF Cluster, RESERVED_ENTRIES, EMPTY, END_OF_FILE, NONE

LEMMA HopType == ASSUME NEW v \in Fats PROVE Hop(v) \in [Node -> Node]
BY DEF Hop, Fats, Node

-----------------------------------------------------------------------------
(* Walks *)

\* A walk is what its recursive definition says.
LEMMA WalkIs ==
  ASSUME NEW v \in Fats, NEW c \in Node, NEW n \in Nat,
         NEW g \in [0 .. n -> Node], Iterates(g, n, c, Hop(v))
  PROVE  Walk(v, c, n) = g[n]
<1> DEFINE next == [d \in Cluster \cup {EMPTY, END_OF_FILE} |-> IF d \in Cluster THEN v[d] ELSE d]
           Def(w) == [i \in 0 .. n |-> IF i = 0 THEN c ELSE next[w[i - 1]]]
           r == CHOOSE w : w = Def(w)
<1>1. next = Hop(v)
  BY DEF Hop, Node
<1>2. g = Def(g)
  <2> HIDE DEF next
  <2>1. ASSUME NEW i \in 0 .. n PROVE g[i] = Def(g)[i]
    <3>1. CASE i = 0
      BY <3>1 DEF Iterates
    <3>2. CASE i # 0
      <4>1. i \in 1 .. n
        BY <3>2
      <4> QED BY <1>1, <3>2, <4>1 DEF Iterates
    <3> QED BY <3>1, <3>2
  <2> QED BY <2>1
<1>3. r = Def(r)
  <2> HIDE DEF Def
  <2> QED BY <1>2
<1> DEFINE S == {i \in 0 .. n : r[i] = g[i]}
<1> HIDE DEF next, r
<1>4. 0 \in S
  BY <1>3 DEF Iterates
<1>5. ASSUME NEW i \in 1 .. n, i - 1 \in S PROVE i \in S
  <2>1. i \in 0 .. n /\ i # 0
    OBVIOUS
  <2>2. r[i] = next[r[i - 1]]
    BY <1>3, <2>1
  <2>3. g[i] = next[g[i - 1]]
    BY <1>1 DEF Iterates
  <2> QED BY <1>5, <2>1, <2>2, <2>3
<1> HIDE DEF S
<1>6. 0 .. n \subseteq S
  BY <1>4, <1>5, BoundedInduction
<1>7. r[n] = g[n]
  BY <1>6 DEF S
<1>8. Walk(v, c, n) = r[n]
  BY DEF Walk, r, next
<1> QED BY <1>7, <1>8

LEMMA WalkDef ==
  ASSUME NEW v \in Fats, NEW c \in Node
  PROVE  /\ Walk(v, c, 0) = c
         /\ \A n \in Nat : /\ Walk(v, c, n) \in Node
                           /\ Walk(v, c, n + 1) = Hop(v)[Walk(v, c, n)]
<1>1. ASSUME NEW n \in Nat
      PROVE  /\ Walk(v, c, 0) = c
             /\ Walk(v, c, n) \in Node
             /\ Walk(v, c, n + 1) = Hop(v)[Walk(v, c, n)]
  <2>1. PICK g \in [0 .. n + 1 -> Node] : Iterates(g, n + 1, c, Hop(v))
    BY HopType, IteratesExist, n + 1 \in Nat
  <2> DEFINE h == [i \in 0 .. n |-> g[i]]
             z == [i \in 0 .. 0 |-> g[i]]
  <2>2. h \in [0 .. n -> Node] /\ Iterates(h, n, c, Hop(v)) /\ h[n] = g[n]
    <3>1. h \in [0 .. n -> Node] /\ h[n] = g[n] /\ h[0] = g[0]
      OBVIOUS
    <3>2. ASSUME NEW i \in 1 .. n PROVE h[i] = Hop(v)[h[i - 1]]
      <4>1. i \in 0 .. n /\ i - 1 \in 0 .. n /\ i \in 1 .. n + 1
        OBVIOUS
      <4> QED BY <2>1, <4>1 DEF Iterates
    <3> HIDE DEF h
    <3> QED BY <2>1, <3>1, <3>2 DEF Iterates
  <2>3. z \in [0 .. 0 -> Node] /\ Iterates(z, 0, c, Hop(v)) /\ z[0] = c
    BY <2>1 DEF Iterates
  <2> HIDE DEF h, z
  <2>4. Walk(v, c, n) = g[n] /\ Walk(v, c, n + 1) = g[n + 1] /\ Walk(v, c, 0) = c
    BY <2>1, <2>2, <2>3, WalkIs, n + 1 \in Nat
  <2>5. n + 1 \in 1 .. n + 1 /\ (n + 1) - 1 = n
    OBVIOUS
  <2>6. g[n + 1] = Hop(v)[g[n]]
    BY <2>1, <2>5 DEF Iterates
  <2> QED BY <2>4, <2>6
<1> QED BY <1>1

\* Beyond the end of a chain there is nothing.
LEMMA Ahead ==
  ASSUME NEW v \in Fats, NEW c \in Node, NEW n \in Nat
  PROVE  Walk(v, c, n + 1) = IF Walk(v, c, n) \in Cluster THEN v[Walk(v, c, n)] ELSE Walk(v, c, n)
BY WalkDef DEF Hop

\* A walk can be interrupted.
LEMMA WalkOn ==
  ASSUME NEW v \in Fats, NEW c \in Node, NEW m \in Nat, NEW n \in Nat
  PROVE  Walk(v, c, m + n) = Walk(v, Walk(v, c, m), n)
<1> DEFINE d == Walk(v, c, m)
           S == {i \in Nat : Walk(v, c, m + i) = Walk(v, d, i)}
<1>1. d \in Node
  BY WalkDef
<1>2. 0 \in S
  BY <1>1, WalkDef
<1>3. ASSUME NEW i \in Nat, i \in S PROVE i + 1 \in S
  <2>1. m + i \in Nat /\ m + (i + 1) = (m + i) + 1
    OBVIOUS
  <2>2. Walk(v, c, (m + i) + 1) = Hop(v)[Walk(v, c, m + i)] /\ Walk(v, d, i + 1) = Hop(v)[Walk(v, d, i)]
    BY <1>1, <2>1, WalkDef
  <2> HIDE DEF d
  <2> QED BY <1>3, <2>1, <2>2
<1> HIDE DEF S
<1>4. Nat \subseteq S
  BY <1>2, <1>3, SetInduction
<1> QED BY <1>4 DEF S

\* What ended has ended; what has not, had not.
LEMMA Ended ==
  ASSUME NEW v \in Fats, NEW c \in Node, NEW m \in Nat, NEW n \in Nat, m <= n
  PROVE  Walk(v, c, m) \notin Cluster => Walk(v, c, n) = Walk(v, c, m)
<1> SUFFICES ASSUME Walk(v, c, m) \notin Cluster PROVE Walk(v, c, n) = Walk(v, c, m)
  OBVIOUS
<1> DEFINE S == {i \in Nat : Walk(v, c, m + i) = Walk(v, c, m)}
<1>1. 0 \in S
  OBVIOUS
<1>2. ASSUME NEW i \in Nat, i \in S PROVE i + 1 \in S
  <2>1. m + i \in Nat /\ m + (i + 1) = (m + i) + 1
    OBVIOUS
  <2> QED BY <1>2, <2>1, Ahead
<1> HIDE DEF S
<1>3. Nat \subseteq S
  BY <1>1, <1>2, SetInduction
<1>4. n - m \in Nat /\ m + (n - m) = n
  OBVIOUS
<1>5. n - m \in S
  BY <1>3, <1>4
<1> QED BY <1>4, <1>5 DEF S

\* A walk that meets no changed entry goes where it went before.
LEMMA WalkKept ==
  ASSUME NEW v \in Fats, NEW w \in Fats, NEW c \in Node, NEW n \in Nat,
         \A i \in 0 .. n - 1 : Walk(v, c, i) \in Cluster => w[Walk(v, c, i)] = v[Walk(v, c, i)]
  PROVE  Walk(w, c, n) = Walk(v, c, n)
<1> DEFINE S == {i \in 0 .. n : Walk(w, c, i) = Walk(v, c, i)}
<1>1. 0 \in S
  BY WalkDef
<1>2. ASSUME NEW i \in 1 .. n, i - 1 \in S PROVE i \in S
  <2>1. i - 1 \in Nat /\ (i - 1) + 1 = i /\ i - 1 \in 0 .. n - 1 /\ i \in 0 .. n
    OBVIOUS
  <2>2. Walk(w, c, i - 1) = Walk(v, c, i - 1)
    BY <1>2
  <2>3. /\ Walk(w, c, i) = IF Walk(w, c, i - 1) \in Cluster THEN w[Walk(w, c, i - 1)] ELSE Walk(w, c, i - 1)
        /\ Walk(v, c, i) = IF Walk(v, c, i - 1) \in Cluster THEN v[Walk(v, c, i - 1)] ELSE Walk(v, c, i - 1)
    BY <2>1, Ahead
  <2>4. Walk(v, c, i - 1) \in Cluster => w[Walk(v, c, i - 1)] = v[Walk(v, c, i - 1)]
    BY <2>1
  <2>5. Walk(w, c, i) = Walk(v, c, i)
    BY <2>2, <2>3, <2>4
  <2> QED BY <2>1, <2>5
<1> HIDE DEF S
<1>3. 0 .. n \subseteq S
  BY <1>1, <1>2, BoundedInduction
<1>4. n \in S
  BY <1>3
<1> QED BY <1>4 DEF S

-----------------------------------------------------------------------------
(* Sound chains *)

Linked(v) == {a \in Cluster : v[a] \in Cluster}
Injective(v) == \A a, b \in Linked(v) : v[a] = v[b] => a = b
NoDangling(v) == \A a \in Linked(v) : v[v[a]] # EMPTY
Unlinked(v, c) == \A a \in Linked(v) : v[a] # c

\* A cluster is at the end of a link, unless the walk starts there.
LEMMA Behind ==
  ASSUME NEW v \in Fats, NEW c \in Node, NEW n \in Nat \ {0}, Walk(v, c, n) \in Cluster
  PROVE  /\ n - 1 \in Nat /\ Walk(v, c, n - 1) \in Linked(v)
         /\ Walk(v, c, n) = v[Walk(v, c, n - 1)]
<1>1. n - 1 \in Nat /\ (n - 1) + 1 = n
  OBVIOUS
<1> QED BY <1>1, Ahead DEF Linked

\* Walks that start apart, at clusters to which nothing links, never meet.
LEMMA WalksApart ==
  ASSUME NEW v \in Fats, Injective(v), NEW c \in Cluster, NEW d \in Cluster, c # d,
         Unlinked(v, c), Unlinked(v, d), NEW m \in Nat, NEW n \in Nat, Walk(v, c, m) \in Cluster
  PROVE  Walk(v, c, m) # Walk(v, d, n)
<1> DEFINE S == {i \in Nat : \A k \in Nat : Walk(v, c, i) \in Cluster => Walk(v, c, i) # Walk(v, d, k)}
<1>1. c \in Node /\ d \in Node
  BY DEF Node
<1>2. Walk(v, c, 0) = c /\ Walk(v, d, 0) = d
  BY <1>1, WalkDef
<1>3. 0 \in S
  <2>1. ASSUME NEW k \in Nat, c = Walk(v, d, k) PROVE FALSE
    <3>1. k # 0
      BY <1>2, <2>1
    <3>2. Walk(v, d, k - 1) \in Linked(v) /\ c = v[Walk(v, d, k - 1)]
      BY <1>1, <2>1, <3>1, Behind
    <3> QED BY <3>2 DEF Unlinked
  <2> QED BY <1>2, <2>1
<1>4. ASSUME NEW i \in Nat, i \in S PROVE i + 1 \in S
  <2>1. ASSUME NEW k \in Nat, Walk(v, c, i + 1) \in Cluster, Walk(v, c, i + 1) = Walk(v, d, k) PROVE FALSE
    <3>1. Walk(v, c, i) \in Linked(v) /\ Walk(v, c, i + 1) = v[Walk(v, c, i)]
      <4>1. i + 1 \in Nat \ {0} /\ (i + 1) - 1 = i
        OBVIOUS
      <4> QED BY <1>1, <2>1, <4>1, Behind
    <3>2. CASE k = 0
      BY <1>2, <2>1, <3>1, <3>2 DEF Unlinked
    <3>3. CASE k # 0
      <4>1. k - 1 \in Nat /\ Walk(v, d, k - 1) \in Linked(v) /\ Walk(v, d, k) = v[Walk(v, d, k - 1)]
        BY <1>1, <2>1, <3>3, Behind
      <4>2. Walk(v, c, i) = Walk(v, d, k - 1) /\ Walk(v, c, i) \in Cluster
        BY <2>1, <3>1, <4>1 DEF Injective, Linked
      <4> QED BY <1>4, <4>1, <4>2
    <3> QED BY <3>2, <3>3
  <2> QED BY <2>1
<1> HIDE DEF S
<1>5. Nat \subseteq S
  BY <1>3, <1>4, SetInduction
<1> QED BY <1>5 DEF S

\* Nor does such a walk come back to where it was.
LEMMA NoReturn ==
  ASSUME NEW v \in Fats, Injective(v), NEW c \in Cluster, Unlinked(v, c),
         NEW m \in Nat, NEW n \in Nat, m < n, Walk(v, c, n) \in Cluster
  PROVE  Walk(v, c, m) # Walk(v, c, n)
<1> DEFINE S == {i \in Nat : \A k \in Nat : i < k /\ Walk(v, c, k) \in Cluster => Walk(v, c, i) # Walk(v, c, k)}
<1>1. c \in Node
  BY DEF Node
<1>2. 0 \in S
  <2>1. ASSUME NEW k \in Nat, 0 < k, Walk(v, c, k) \in Cluster PROVE Walk(v, c, 0) # Walk(v, c, k)
    <3>1. k \in Nat \ {0} /\ Walk(v, c, 0) = c
      BY <1>1, <2>1, WalkDef
    <3>2. Walk(v, c, k - 1) \in Linked(v) /\ Walk(v, c, k) = v[Walk(v, c, k - 1)]
      BY <1>1, <2>1, <3>1, Behind
    <3> QED BY <3>1, <3>2 DEF Unlinked
  <2> QED BY <2>1
<1>3. ASSUME NEW i \in Nat, i \in S PROVE i + 1 \in S
  <2>1. ASSUME NEW k \in Nat, i + 1 < k, Walk(v, c, k) \in Cluster, Walk(v, c, i + 1) = Walk(v, c, k) PROVE FALSE
    <3>1. i + 1 \in Nat \ {0} /\ (i + 1) - 1 = i /\ k \in Nat \ {0} /\ i < k - 1
      BY <2>1
    <3>2. /\ Walk(v, c, i) \in Linked(v) /\ Walk(v, c, i + 1) = v[Walk(v, c, i)]
          /\ k - 1 \in Nat /\ Walk(v, c, k - 1) \in Linked(v) /\ Walk(v, c, k) = v[Walk(v, c, k - 1)]
      BY <1>1, <2>1, <3>1, Behind
    <3>3. Walk(v, c, i) = Walk(v, c, k - 1) /\ Walk(v, c, k - 1) \in Cluster
      BY <2>1, <3>2 DEF Injective, Linked
    <3> QED BY <1>3, <3>1, <3>2, <3>3
  <2> QED BY <2>1
<1> HIDE DEF S
<1>4. Nat \subseteq S
  BY <1>2, <1>3, SetInduction
<1> QED BY <1>4 DEF S

\* A chain that starts at a cluster to which nothing links has an end.
LEMMA WalkEnds ==
  ASSUME NEW v \in Fats, Injective(v), NEW c \in Cluster, Unlinked(v, c)
  PROVE  Walk(v, c, ClusterCount) \notin Cluster
<1> SUFFICES ASSUME Walk(v, c, ClusterCount) \in Cluster PROVE FALSE
  OBVIOUS
<1> DEFINE I == 0 .. ClusterCount
           g == [i \in I |-> Walk(v, c, i)]
<1>1. c \in Node /\ ClusterCount \in Nat
  BY ClusterFacts DEF Node
<1>2. ASSUME NEW i \in I PROVE Walk(v, c, i) \in Cluster
  BY <1>1, Ended
<1>3. IsFiniteSet(I) /\ Cardinality(I) = ClusterCount + 1
  BY <1>1, FS_Interval
<1>4. g \in [I -> Cluster]
  BY <1>2
<1>5. \E x, y \in I : x # y /\ g[x] = g[y]
  <2>1. Cardinality(Cluster) < Cardinality(I)
    BY <1>3, ClusterFacts
  <2> HIDE DEF g, I
  <2> QED BY <1>3, <1>4, <2>1, ClusterFacts, FS_PigeonHole
<1>6. PICK x \in I, y \in I : x < y /\ Walk(v, c, x) = Walk(v, c, y)
  BY <1>1, <1>5
<1> QED BY <1>1, <1>2, <1>6, NoReturn

\* Its clusters are allocated, if the first of them is.
LEMMA WalkAllocated ==
  ASSUME NEW v \in Fats, NoDangling(v), NEW c \in Cluster, v[c] # EMPTY, NEW n \in Nat
  PROVE  /\ Walk(v, c, n) \in Cluster \cup {END_OF_FILE}
         /\ Walk(v, c, n) \in Cluster => v[Walk(v, c, n)] # EMPTY
<1> DEFINE S == {i \in Nat : \/ Walk(v, c, i) = END_OF_FILE
                             \/ Walk(v, c, i) \in Cluster /\ v[Walk(v, c, i)] # EMPTY}
<1>1. c \in Node
  BY DEF Node
<1>2. 0 \in S
  BY <1>1, WalkDef
<1>3. ASSUME NEW i \in Nat, i \in S PROVE i + 1 \in S
  <2>1. Walk(v, c, i + 1) = IF Walk(v, c, i) \in Cluster THEN v[Walk(v, c, i)] ELSE Walk(v, c, i)
    BY <1>1, Ahead
  <2>2. CASE Walk(v, c, i) = END_OF_FILE
    BY <2>1, <2>2, ClusterFacts
  <2>3. CASE Walk(v, c, i) \in Cluster /\ v[Walk(v, c, i)] # EMPTY
    <3>1. v[Walk(v, c, i)] \in Node
      BY <2>3 DEF Fats
    <3> QED BY <2>1, <2>3, <3>1 DEF NoDangling, Linked, Node
  <2> QED BY <1>3, <2>2, <2>3
<1> HIDE DEF S
<1>4. Nat \subseteq S
  BY <1>2, <1>3, SetInduction
<1>5. n \in S
  BY <1>4
<1> QED BY <1>5, ClusterFacts DEF S

\* The number of clusters of a chain, and the last of them.
Clusters(v, c) == Cardinality({n \in 0 .. ClusterCount - 1 : Walk(v, c, n) # END_OF_FILE})

LEMMA ChainLength ==
  ASSUME NEW v \in Fats, Injective(v), NoDangling(v),
         NEW c \in Cluster, Unlinked(v, c), v[c] # EMPTY
  PROVE  /\ Clusters(v, c) \in 1 .. ClusterCount
         /\ \A n \in Nat : Walk(v, c, n) = END_OF_FILE <=> Clusters(v, c) <= n
         /\ \A n \in Nat : Walk(v, c, n) \in Cluster <=> n < Clusters(v, c)
         /\ v[Walk(v, c, Clusters(v, c) - 1)] = END_OF_FILE
<1> DEFINE S == {n \in Nat : Walk(v, c, n) \notin Cluster}
<1>1. c \in Node /\ ClusterCount \in Nat \ {0}
  BY ClusterFacts DEF Node
<1>2. PICK k \in S : \A m \in S : k <= m
  <2>1. S \subseteq Nat /\ S # {}
    BY <1>1, WalkEnds
  <2> HIDE DEF S
  <2> QED BY <2>1, LeastExists
<1>3. k \in Nat /\ k <= ClusterCount /\ k # 0
  <2>1. ClusterCount \in S /\ 0 \notin S
    BY <1>1, WalkEnds, WalkDef
  <2> QED BY <1>1, <1>2, <2>1
<1>4. \A n \in Nat : Walk(v, c, n) \in Cluster <=> n < k
  <2>1. ASSUME NEW n \in Nat, n < k PROVE Walk(v, c, n) \in Cluster
    BY <1>2, <1>3, <2>1
  <2>2. ASSUME NEW n \in Nat, k <= n PROVE Walk(v, c, n) \notin Cluster
    BY <1>1, <1>2, <1>3, <2>2, Ended
  <2> QED BY <1>3, <2>1, <2>2
<1>5. \A n \in Nat : Walk(v, c, n) = END_OF_FILE <=> k <= n
  BY <1>3, <1>4, WalkAllocated, ClusterFacts
<1>6. Clusters(v, c) = k
  <2>1. {n \in 0 .. ClusterCount - 1 : Walk(v, c, n) # END_OF_FILE} = 0 .. k - 1
    BY <1>1, <1>3, <1>5
  <2>2. Cardinality(0 .. k - 1) = k
    BY <1>3, FS_Interval
  <2> QED BY <2>1, <2>2 DEF Clusters
<1>7. v[Walk(v, c, k - 1)] = END_OF_FILE
  <2>1. k - 1 \in Nat /\ (k - 1) + 1 = k /\ k - 1 < k /\ k <= k
    BY <1>3
  <2>2. Walk(v, c, k - 1) \in Cluster /\ Walk(v, c, k) = END_OF_FILE
    BY <1>3, <1>4, <1>5, <2>1
  <2> QED BY <1>1, <2>1, <2>2, Ahead
<1> QED BY <1>1, <1>3, <1>4, <1>5, <1>6, <1>7

LEMMA LengthIs == ASSUME NEW c PROVE Length(c) = IF c = NONE THEN 0 ELSE Clusters(fat, c)
BY DEF Length, Clusters, Follow

-----------------------------------------------------------------------------
(* What changes a FAT *)

\* A FAT whose chains are sound, where the clusters in "starts" start chains.
SoundFat(v, starts) ==
  /\ v \in Fats /\ Injective(v) /\ NoDangling(v)
  /\ \A c \in starts : c \in Cluster /\ v[c] # EMPTY /\ Unlinked(v, c)

\* Chains that are as long as they were, or longer.
Extends(w, v, c) == \A n \in Nat : Walk(v, c, n) \in Cluster => Walk(w, c, n) = Walk(v, c, n)

\* alloc_cluster marks a free cluster and links it to the end of a chain.
Given(v, prev, c) ==
  [d \in Cluster |-> IF d = c THEN END_OF_FILE ELSE IF d = prev THEN c ELSE v[d]]

LEMMA GivenSound ==
  ASSUME NEW v, NEW starts, SoundFat(v, starts), NEW c \in Cluster, v[c] = EMPTY,
         NEW prev, prev = NONE \/ (prev \in Cluster /\ v[prev] = END_OF_FILE)
  PROVE  /\ SoundFat(Given(v, prev, c), starts)
         /\ prev = NONE => SoundFat(Given(v, prev, c), starts \cup {c})
         /\ \A d \in starts : Extends(Given(v, prev, c), v, d)
<1> DEFINE w == Given(v, prev, c)
<1>1. w \in Fats
  BY DEF Given, SoundFat, Fats, Node
<1>2. \A a \in Cluster : w[a] = IF a = c THEN END_OF_FILE ELSE IF a = prev THEN c ELSE v[a]
  BY DEF Given
<1>3. \A a \in Linked(v) : v[a] # c
  BY DEF SoundFat, NoDangling
<1>4. \A a \in Linked(w) : (a \in Linked(v) /\ w[a] = v[a]) \/ (a = prev /\ w[a] = c)
  BY <1>2, ClusterFacts DEF Linked
<1> HIDE DEF w
<1>5. Injective(w)
  BY <1>3, <1>4 DEF SoundFat, Injective
<1>6. NoDangling(w)
  <2>1. ASSUME NEW a \in Linked(w) PROVE w[w[a]] # EMPTY
    <3>1. CASE a \in Linked(v) /\ w[a] = v[a]
      <4>1. v[a] \in Cluster /\ v[v[a]] # EMPTY
        BY <3>1 DEF SoundFat, NoDangling, Linked
      <4> QED BY <1>2, <3>1, <4>1, ClusterFacts
    <3>2. CASE w[a] = c
      BY <1>2, <3>2, ClusterFacts
    <3> QED BY <1>4, <3>1, <3>2
  <2> QED BY <2>1 DEF NoDangling
<1>7. ASSUME NEW d \in starts PROVE d \in Cluster /\ w[d] # EMPTY /\ Unlinked(w, d)
  <2>1. d \in Cluster /\ v[d] # EMPTY /\ Unlinked(v, d) /\ d # c
    BY DEF SoundFat
  <2>2. w[d] # EMPTY
    BY <1>2, <2>1, ClusterFacts
  <2>3. Unlinked(w, d)
    BY <1>4, <2>1 DEF Unlinked
  <2> QED BY <2>1, <2>2, <2>3
<1>8. prev = NONE => w[c] # EMPTY /\ Unlinked(w, c)
  <2>1. w[c] # EMPTY
    BY <1>2, ClusterFacts
  <2>2. prev = NONE => Unlinked(w, c)
    BY <1>3, <1>4, ClusterFacts DEF Linked, Unlinked
  <2> QED BY <2>1, <2>2
<1>9. ASSUME NEW d \in starts PROVE Extends(w, v, d)
  <2>1. d \in Node /\ v \in Fats
    BY DEF SoundFat, Node
  <2>2. ASSUME NEW n \in Nat, Walk(v, d, n) \in Cluster PROVE Walk(w, d, n) = Walk(v, d, n)
    <3>1. ASSUME NEW i \in 0 .. n - 1, Walk(v, d, i) \in Cluster
          PROVE  w[Walk(v, d, i)] = v[Walk(v, d, i)]
      <4>1. i \in Nat /\ (i + 1) \in Nat /\ i + 1 <= n /\ (i + 1) - 1 = i /\ i + 1 \in Nat \ {0}
        OBVIOUS
      <4>2. Walk(v, d, i + 1) \in Cluster
        BY <2>1, <2>2, <4>1, Ended
      <4>3. v[Walk(v, d, i)] \in Cluster
        BY <2>1, <3>1, <4>1, <4>2, Ahead
      <4> QED BY <1>2, <3>1, <4>3, ClusterFacts
    <3> QED BY <1>1, <2>1, <3>1, WalkKept
  <2> QED BY <2>2 DEF Extends
<1> QED BY <1>1, <1>5, <1>6, <1>7, <1>8, <1>9 DEF SoundFat, w

\* truncate_cluster_chain cuts a chain after its first cluster, and frees some of
\* what follows.
Shortened(v, s, n) ==
  [c \in Cluster |-> IF c = s THEN END_OF_FILE
                     ELSE IF \E i \in 1 .. n : Walk(v, s, i) = c THEN EMPTY
                     ELSE v[c]]

LEMMA ShortenedSound ==
  ASSUME NEW v, NEW starts, SoundFat(v, starts), NEW s \in starts, NEW n \in Int
  PROVE  /\ SoundFat(Shortened(v, s, n), starts)
         /\ \A d \in starts : d # s => Extends(Shortened(v, s, n), v, d)
<1> DEFINE w == Shortened(v, s, n)
           Freed(c) == c # s /\ \E i \in 1 .. n : Walk(v, s, i) = c
<1>1. w \in Fats /\ v \in Fats
  BY DEF Shortened, SoundFat, Fats, Node
<1>2. \A a \in Cluster : w[a] = IF a = s THEN END_OF_FILE ELSE IF Freed(a) THEN EMPTY ELSE v[a]
  BY DEF Shortened
<1>3. ASSUME NEW c \in Cluster, Freed(c)
      PROVE  \E a \in Linked(v) : v[a] = c /\ (a = s \/ Freed(a))
  <2>1. PICK i \in 1 .. n : Walk(v, s, i) = c
    BY <1>3
  <2>2. s \in Node /\ s \in Cluster /\ i \in Nat \ {0}
    BY DEF SoundFat, Node
  <2>3. Walk(v, s, i - 1) \in Linked(v) /\ v[Walk(v, s, i - 1)] = c
    BY <1>1, <1>3, <2>1, <2>2, Behind
  <2>4. CASE i = 1
    <3>1. Walk(v, s, i - 1) = s
      BY <1>1, <2>2, <2>4, WalkDef
    <3> QED BY <2>3, <3>1
  <2>5. CASE i # 1
    <3>1. i - 1 \in 1 .. n
      BY <2>5
    <3> QED BY <2>3, <3>1
  <2> QED BY <2>4, <2>5
<1> HIDE DEF w, Freed
<1>4. \A a \in Linked(w) : a \in Linked(v) /\ w[a] = v[a] /\ a # s /\ ~ Freed(a)
  BY <1>2, ClusterFacts DEF Linked
<1>5. Injective(w)
  BY <1>4 DEF SoundFat, Injective
<1>6. NoDangling(w)
  <2>1. ASSUME NEW a \in Linked(w) PROVE w[w[a]] # EMPTY
    <3>1. a \in Linked(v) /\ w[a] = v[a] /\ a # s /\ ~ Freed(a)
      BY <1>4
    <3>2. v[a] \in Cluster /\ v[v[a]] # EMPTY
      BY <3>1 DEF SoundFat, NoDangling, Linked
    <3>3. ~ Freed(v[a])
      BY <1>3, <3>1, <3>2 DEF SoundFat, Injective
    <3> QED BY <1>2, <3>1, <3>2, <3>3, ClusterFacts
  <2> QED BY <2>1 DEF NoDangling
<1>7. ASSUME NEW d \in starts PROVE d \in Cluster /\ w[d] # EMPTY /\ Unlinked(w, d)
  <2>1. d \in Cluster /\ v[d] # EMPTY /\ Unlinked(v, d)
    BY DEF SoundFat
  <2>2. ~ Freed(d)
    BY <1>3, <2>1 DEF Unlinked
  <2> QED BY <1>2, <1>4, <2>1, <2>2, ClusterFacts DEF Unlinked
<1>8. ASSUME NEW d \in starts, d # s PROVE Extends(w, v, d)
  <2>1. d \in Cluster /\ s \in Cluster /\ Unlinked(v, d) /\ Unlinked(v, s) /\ Injective(v) /\ d \in Node /\ s \in Node
    BY DEF SoundFat, Node
  <2>2. ASSUME NEW i \in Nat, Walk(v, d, i) \in Cluster
        PROVE  w[Walk(v, d, i)] = v[Walk(v, d, i)]
    <3>1. \A j \in Nat : Walk(v, d, i) # Walk(v, s, j)
      BY <1>1, <1>8, <2>1, <2>2, WalksApart
    <3>2. Walk(v, d, i) # s
      BY <1>1, <2>1, <3>1, WalkDef
    <3>3. ~ Freed(Walk(v, d, i))
      BY <3>1 DEF Freed
    <3> QED BY <1>2, <2>2, <3>2, <3>3
  <2>3. ASSUME NEW k \in Nat PROVE Walk(w, d, k) = Walk(v, d, k)
    BY <1>1, <2>1, <2>2, WalkKept
  <2> QED BY <2>3 DEF Extends
<1> QED BY <1>1, <1>5, <1>6, <1>7, <1>8 DEF SoundFat, w

-----------------------------------------------------------------------------
(* The inductive invariant *)

\* All chains are sound, and those of different files start apart.
Starts(f) == {entry[f].cluster, handle[f].cluster} \ {NONE}
AllStarts == UNION {Starts(f) : f \in File}
Chains ==
  /\ SoundFat(fat, AllStarts)
  /\ \A f, g \in File : f # g => Starts(f) \cap Starts(g) = {}

\* The cluster that a handle remembers is one of its chain.
Remembers(v, h) ==
  /\ h.at[2] \in Cluster
  /\ \E k \in Nat : h.at = <<k * BytesPerCluster, Walk(v, h.cluster, k)>>

HandleOK(v, h) ==
  /\ ~ h.open => h = Closed
  /\ h.offset <= h.size
  /\ h.cluster = NONE => h.size = 0 /\ h.at = <<0, NONE>>
  /\ h.cluster # NONE => Remembers(v, h)
Handles == \A f \in File : HandleOK(fat, handle[f])
Entries == \A f \in File : entry[f].cluster = NONE => entry[f].size = 0

\* The chain that starts at c has room for so many bytes.
Covered(v, c, size) == \A i \in 0 .. size - 1 : Walk(v, c, i \div BytesPerCluster) \in Cluster
Covers ==
  \A f \in File \ damaged : /\ Covered(fat, handle[f].cluster, handle[f].size)
                            /\ Covered(fat, entry[f].cluster, entry[f].size)

CacheOK == cache \in [block : Block \cup {NoBlock}, bytes : [1 .. BlockLen -> Byte]]

Writes == {"first", "write", "extended"}
OpType ==
  op \in [pc : Writes \cup {"idle", "read"}, file : File \cup {NoFile}, buffer : Seq(Byte),
          todo : Nat, done : Nat]

\* What is left of a call can be done.
OpOK ==
  /\ OpType /\ op.done <= op.todo
  /\ op.pc # "idle" => op.file \in File /\ handle[op.file].open
  /\ op.pc \in Writes =>
       /\ op.todo <= Len(op.buffer)
       /\ handle[op.file].offset + (op.todo - op.done) <= MaxFileSize
       /\ (op.pc = "first") = (handle[op.file].cluster = NONE)

IInv == TypeOK /\ OpOK /\ CacheOK /\ Chains /\ Handles /\ Entries /\ Covers

-----------------------------------------------------------------------------
(* Arithmetic of clusters and blocks *)

LEMMA Sizes ==
  /\ BlockLen \in Nat \ {0} /\ BlocksPerCluster \in Nat \ {0} /\ MaxFileSize \in Nat
  /\ BytesPerCluster \in Nat \ {0} /\ BytesPerCluster = BlocksPerCluster * BlockLen
<1>1. BlockLen \in Nat \ {0} /\ BlocksPerCluster \in Nat \ {0} /\ MaxFileSize \in Nat
  BY SizeAssumption
<1>2. BlocksPerCluster * BlockLen \in Nat \ {0}
  <2>1. \A a, b \in Nat \ {0} : a * b \in Nat \ {0}
    OBVIOUS
  <2> QED BY <1>1, <2>1
<1> QED BY <1>1, <1>2 DEF BytesPerCluster

LEMMA Quotient ==
  ASSUME NEW x \in Nat, NEW b \in Nat \ {0}
  PROVE  /\ x \div b \in Nat /\ x % b \in 0 .. b - 1
         /\ b * (x \div b) + (x % b) = x
<1>1. x \in Int /\ b \in Int /\ b > 0
  OBVIOUS
<1>2. (x % b) \in Int /\ 0 <= (x % b) /\ (x % b) < b
  BY <1>1, SMTT(20)
<1>3. x \div b \in Int /\ x \div b >= 0
  BY <1>1, x >= 0, SMTT(20)
<1>4. b * (x \div b) + (x % b) = x
  BY <1>1, SMTT(20)
<1> QED BY <1>2, <1>3, <1>4

\* The quotient is the only number with its property.
LEMMA QuotientIs ==
  ASSUME NEW x \in Nat, NEW b \in Nat \ {0}, NEW q \in Nat, NEW r \in 0 .. b - 1, x = b * q + r
  PROVE  x \div b = q /\ x % b = r
<1> DEFINE p == x \div b
           s == x % b
<1>1. p \in Nat /\ s \in 0 .. b - 1 /\ b * p + s = x
  BY Quotient
<1>2. p \in Int /\ q \in Int /\ s \in Int /\ r \in Int /\ b \in Int
  BY <1>1
<1> HIDE DEF p, s
<1>3. CASE p < q
  <2>1. p + 1 <= q
    BY <1>2, <1>3
  <2>2. b * (p + 1) <= b * q
    BY <1>2, <2>1
  <2>3. b * (p + 1) = b * p + b
    BY <1>2
  <2> QED BY <1>1, <1>2, <2>2, <2>3
<1>4. CASE q < p
  <2>1. q + 1 <= p
    BY <1>2, <1>4
  <2>2. b * (q + 1) <= b * p
    BY <1>2, <2>1
  <2>3. b * (q + 1) = b * q + b
    BY <1>2
  <2> QED BY <1>1, <1>2, <2>2, <2>3
<1>5. CASE p = q
  BY <1>1, <1>2, <1>5 DEF p, s
<1> QED BY <1>2, <1>3, <1>4, <1>5

\* The position of a byte: the cluster of the chain, the block of the cluster and
\* the place in the block.
LEMMA Position ==
  ASSUME NEW offset \in Nat, NEW k \in Nat,
         k * BytesPerCluster <= offset, offset < k * BytesPerCluster + BytesPerCluster
  PROVE  LET j == (offset - k * BytesPerCluster) \div BlockLen
             o == offset % BlockLen
         IN  /\ j \in 0 .. BlocksPerCluster - 1 /\ o \in 0 .. BlockLen - 1
             /\ offset = k * BytesPerCluster + j * BlockLen + o
             /\ k * BytesPerCluster + j * BlockLen + BlockLen <= k * BytesPerCluster + BytesPerCluster
             /\ offset \div BytesPerCluster = k
<1> DEFINE B == BytesPerCluster
           L == BlockLen
           P == BlocksPerCluster
           x == k * B
           d == offset - x
           j == d \div L
           s == d % L
<1>1. L \in Nat \ {0} /\ P \in Nat \ {0} /\ B \in Nat \ {0} /\ B = P * L
  BY Sizes
<1>2. x \in Nat
  BY <1>1
<1>3. d \in Nat /\ d < B /\ offset = x + d
  BY <1>1, <1>2
<1>4. j \in Nat /\ s \in 0 .. L - 1 /\ L * j + s = d
  <2> HIDE DEF d, L
  <2> QED BY <1>1, <1>3, Quotient
<1>5. j < P
  <2>1. CASE P <= j
    <3>1. L * P <= L * j
      BY <1>1, <1>4, <2>1
    <3>2. L * P = B
      BY <1>1
    <3>3. L * P \in Int /\ L * j \in Int
      BY <1>1, <1>4
    <3> HIDE DEF d, s, j, B, L, P, x
    <3> QED BY <1>1, <1>3, <1>4, <3>1, <3>2, <3>3
  <2> QED BY <1>1, <1>4, <2>1
<1>6. offset % L = s
  <2> DEFINE q == k * P + j
  <2>1. q \in Nat
    BY <1>1, <1>4
  <2>2. L * q = L * (k * P) + L * j
    BY <1>1, <1>4
  <2>3. L * (k * P) = x
    BY <1>1
  <2>4. L * (k * P) \in Int /\ L * j \in Int /\ L * q \in Int
    BY <1>1, <1>4, <2>1
  <2>5. offset = L * q + s
    <3> HIDE DEF d, s, j, B, L, P, x, q
    <3> QED BY <1>2, <1>3, <1>4, <2>2, <2>3, <2>4
  <2> HIDE DEF d, s, j, B, L, P, x, q
  <2> QED BY <1>1, <1>4, <2>1, <2>5, QuotientIs
<1>7. j * L + L <= B
  <2>1. (j + 1) * L <= P * L
    BY <1>1, <1>4, <1>5
  <2>2. (j + 1) * L = j * L + L
    BY <1>1, <1>4
  <2> QED BY <1>1, <2>1, <2>2
<1>8. j * L = L * j /\ j * L \in Int
  BY <1>1, <1>4
<1>9. offset \div B = k
  <2>1. B * k = x
    BY <1>1
  <2>2. d \in 0 .. B - 1 /\ offset = B * k + d
    <3> HIDE DEF d, B, x
    <3> QED BY <1>1, <1>2, <1>3, <2>1
  <2> HIDE DEF d, B, x
  <2> QED BY <1>1, <2>2, QuotientIs
<1> HIDE DEF d, s, x, j, B, L, P
<1>10. /\ j \in 0 .. P - 1 /\ offset % L \in 0 .. L - 1
       /\ offset = x + j * L + (offset % L)
       /\ x + j * L + L <= x + B
  BY <1>1, <1>2, <1>3, <1>4, <1>5, <1>6, <1>7, <1>8
<1> QED BY <1>9, <1>10 DEF d, x, j, B, L, P

\* Bytes up to an offset in a cluster of the chain have clusters of their own.
LEMMA CoveredUpTo ==
  ASSUME NEW v \in Fats, NEW c \in Node, NEW k \in Nat, Walk(v, c, k) \in Cluster,
         NEW n \in Nat, n <= k * BytesPerCluster + BytesPerCluster
  PROVE  Covered(v, c, n)
<1> SUFFICES ASSUME NEW i \in 0 .. n - 1 PROVE Walk(v, c, i \div BytesPerCluster) \in Cluster
  BY DEF Covered
<1> DEFINE B == BytesPerCluster
           q == i \div B
<1>1. B \in Nat \ {0} /\ i \in Nat
  BY Sizes
<1>2. q \in Nat /\ (i % B) \in 0 .. B - 1 /\ B * q + (i % B) = i
  <2> HIDE DEF B
  <2> QED BY <1>1, Quotient
<1>3. q <= k
  <2>1. CASE k + 1 <= q
    <3>1. B * (k + 1) <= B * q
      BY <1>1, <1>2, <2>1
    <3>2. B * (k + 1) = k * B + B /\ B * q \in Int /\ k * B \in Int
      BY <1>1, <1>2
    <3> HIDE DEF q, B
    <3> QED BY <1>1, <1>2, <3>1, <3>2 DEF B
  <2> QED BY <1>2, <2>1
<1> HIDE DEF q
<1> QED BY <1>2, <1>3, Ended DEF q

LEMMA CoveredLess ==
  ASSUME NEW v, NEW c, NEW n \in Int, NEW m \in Int, m <= n, Covered(v, c, n)
  PROVE  Covered(v, c, m)
BY DEF Covered

\* In other words, the chain has so many clusters.
LEMMA CoveredMeans ==
  ASSUME NEW starts, SoundFat(fat, starts), NEW c \in starts, NEW n \in Nat, Covered(fat, c, n)
  PROVE  n <= Length(c) * BytesPerCluster
<1> DEFINE B == BytesPerCluster
           L == Clusters(fat, c)
<1>1. /\ B \in Nat \ {0} /\ c \in Cluster /\ c # NONE
      /\ fat \in Fats /\ Injective(fat) /\ NoDangling(fat) /\ Unlinked(fat, c) /\ fat[c] # EMPTY
  BY Sizes, ClusterFacts DEF SoundFat
<1>2. L \in Nat /\ Length(c) = L /\ \A k \in Nat : Walk(fat, c, k) \in Cluster <=> k < L
  <2>1. ClusterCount \in Nat
    BY ClusterFacts
  <2> QED BY <1>1, <2>1, ChainLength, LengthIs
<1> HIDE DEF L
<1>3. CASE n = 0
  <2>1. L * B \in Nat
    BY <1>1, <1>2
  <2> QED BY <1>2, <1>3, <2>1
<1>4. CASE n # 0
  <2> DEFINE i == n - 1
             q == i \div B
  <2>1. i \in Nat /\ i \in 0 .. n - 1
    BY <1>4
  <2>2. q \in Nat /\ (i % B) \in 0 .. B - 1 /\ B * q + (i % B) = i
    <3> HIDE DEF B, i
    <3> QED BY <1>1, <2>1, Quotient
  <2>3. Walk(fat, c, q) \in Cluster
    BY <2>1 DEF Covered
  <2>4. q + 1 <= L
    <3> HIDE DEF q
    <3> QED BY <1>2, <2>2, <2>3
  <2>5. B * (q + 1) <= B * L
    BY <1>1, <1>2, <2>2, <2>4
  <2>6. B * (q + 1) = B * q + B /\ B * L = L * B /\ B * q \in Int /\ L * B \in Int
    BY <1>1, <1>2, <2>2
  <2> HIDE DEF q, B
  <2>7. n <= L * B
    BY <1>1, <2>1, <2>2, <2>5, <2>6
  <2> QED BY <1>2, <2>7 DEF B
<1> QED BY <1>3, <1>4

-----------------------------------------------------------------------------
(* What the steps use *)

\* Chains that are extended keep what was said of them.
LEMMA StillCovered ==
  ASSUME NEW v, NEW w, NEW c, NEW n \in Int, Covered(v, c, n), Extends(w, v, c)
  PROVE  Covered(w, c, n)
<1> SUFFICES ASSUME NEW i \in 0 .. n - 1 PROVE Walk(w, c, i \div BytesPerCluster) \in Cluster
  BY DEF Covered
<1>1. BytesPerCluster \in Nat \ {0} /\ i \in Nat
  BY Sizes
<1>2. i \div BytesPerCluster \in Nat
  BY <1>1, Quotient
<1> QED BY <1>2 DEF Covered, Extends

LEMMA StillOK ==
  ASSUME NEW v, NEW w, NEW h, HandleOK(v, h), h.cluster # NONE => Extends(w, v, h.cluster)
  PROVE  HandleOK(w, h)
<1>1. CASE h.cluster # NONE
  <2>1. PICK k \in Nat : h.at = <<k * BytesPerCluster, Walk(v, h.cluster, k)>>
    BY <1>1 DEF HandleOK, Remembers
  <2>2. h.at[2] = Walk(v, h.cluster, k) /\ h.at[2] \in Cluster
    BY <1>1, <2>1 DEF HandleOK, Remembers
  <2>3. Walk(w, h.cluster, k) = Walk(v, h.cluster, k)
    BY <1>1, <2>2 DEF Extends
  <2>4. Remembers(w, h)
    BY <2>1, <2>2, <2>3 DEF Remembers
  <2> QED BY <1>1, <2>4 DEF HandleOK
<1>2. CASE h.cluster = NONE
  BY <1>2 DEF HandleOK
<1> QED BY <1>1, <1>2

LEMMA SameChain == ASSUME NEW v, NEW c PROVE Extends(v, v, c)
BY DEF Extends

HandleRec ==
  [open : BOOLEAN, writable : BOOLEAN, dirty : BOOLEAN,
   cluster : Cluster \cup {NONE}, size : 0 .. MaxFileSize,
   offset : 0 .. MaxFileSize, at : Nat \X (Cluster \cup {NONE})]

\* What the invariant says of one file.
LEMMA FileFacts ==
  ASSUME IInv, NEW f \in File
  PROVE  /\ handle[f] \in HandleRec /\ HandleOK(fat, handle[f])
         /\ entry[f] \in [cluster : Cluster \cup {NONE}, size : 0 .. MaxFileSize]
         /\ entry[f].cluster = NONE => entry[f].size = 0
         /\ Starts(f) \subseteq AllStarts
         /\ handle[f].cluster # NONE => handle[f].cluster \in AllStarts
         /\ entry[f].cluster # NONE => entry[f].cluster \in AllStarts
BY DEF IInv, TypeOK, HandleType, HandleRec, Handles, Entries, Starts, AllStarts

LEMMA StartFacts ==
  ASSUME IInv, NEW c \in AllStarts
  PROVE  /\ c \in Cluster /\ c \in Node /\ c # NONE
         /\ fat \in Fats /\ Injective(fat) /\ NoDangling(fat) /\ Unlinked(fat, c) /\ fat[c] # EMPTY
BY ClusterFacts DEF IInv, Chains, SoundFat, Node

\* find_data_on_disk finds the cluster that holds the offset, or the end.
LEMMA Located ==
  ASSUME IInv, NEW f \in File, handle[f].cluster # NONE
  PROVE  \E k \in Nat :
           /\ Locate(handle[f]).at = <<k * BytesPerCluster, Walk(fat, handle[f].cluster, k)>>
           /\ k * BytesPerCluster <= handle[f].offset
           /\ handle[f].offset < k * BytesPerCluster + BytesPerCluster
           /\ Locate(handle[f]).ended = (Walk(fat, handle[f].cluster, k) = END_OF_FILE)
           /\ ~ Locate(handle[f]).ended => Walk(fat, handle[f].cluster, k) \in Cluster
<1> DEFINE h == handle[f]
           c == h.cluster
           B == BytesPerCluster
           from == IF h.offset < h.at[1] THEN <<0, c>> ELSE h.at
           n == (h.offset - from[1]) \div B
<1>1. /\ h \in HandleRec /\ HandleOK(fat, h) /\ B \in Nat \ {0}
      /\ c \in AllStarts /\ c \in Node /\ c \in Cluster /\ fat \in Fats
      /\ NoDangling(fat) /\ fat[c] # EMPTY
  BY FileFacts, StartFacts, Sizes
<1>2. h.offset \in Nat
  BY <1>1, Sizes DEF HandleRec
<1>3. PICK m \in Nat : from = <<m * B, Walk(fat, c, m)>> /\ m * B <= h.offset
  <2>1. CASE h.offset < h.at[1]
    <3>1. from = <<0 * B, Walk(fat, c, 0)>> /\ 0 * B <= h.offset
      BY <1>1, <1>2, <2>1, WalkDef
    <3> QED BY <3>1
  <2>2. CASE ~ (h.offset < h.at[1])
    <3>1. PICK k \in Nat : h.at = <<k * B, Walk(fat, c, k)>>
      BY <1>1 DEF HandleOK, Remembers
    <3>2. from = <<k * B, Walk(fat, c, k)>> /\ k * B \in Int
      BY <1>1, <2>2, <3>1
    <3>3. k * B <= h.offset
      BY <1>2, <2>2, <3>1, <3>2
    <3> QED BY <3>2, <3>3
  <2> QED BY <2>1, <2>2
<1> DEFINE d == h.offset - m * B
<1>4. d \in Nat /\ m * B \in Nat
  BY <1>1, <1>2, <1>3
<1>5. n = d \div B
  BY <1>3
<1>6. n \in Nat /\ (d % B) \in 0 .. B - 1 /\ B * n + (d % B) = d
  <2>1. d \div B \in Nat /\ (d % B) \in 0 .. B - 1 /\ B * (d \div B) + (d % B) = d
    <3> HIDE DEF d, B
    <3> QED BY <1>1, <1>4, Quotient
  <2> QED BY <1>5, <2>1
<1>7. Follow(from[2], n) = Walk(fat, c, m + n) /\ from[1] = m * B
  <2>1. from[2] = Walk(fat, c, m) /\ from[1] = m * B
    BY <1>3
  <2> HIDE DEF from, n
  <2> QED BY <1>1, <1>6, <2>1, WalkOn DEF Follow
<1>8. /\ Locate(h).at = <<from[1] + n * B, Follow(from[2], n)>>
      /\ Locate(h).ended = (Follow(from[2], n) = END_OF_FILE)
  BY DEF Locate
<1> HIDE DEF from, n
<1>9. m * B + n * B = (m + n) * B /\ m + n \in Nat
  BY <1>1, <1>6
<1>10. (m + n) * B <= h.offset /\ h.offset < (m + n) * B + B
  <2>1. B * n = n * B /\ n * B \in Int /\ (d % B) \in Int
    BY <1>1, <1>6
  <2> HIDE DEF B
  <2> QED BY <1>1, <1>2, <1>4, <1>6, <1>9, <2>1
<1>11. Walk(fat, c, m + n) \in Cluster \cup {END_OF_FILE}
  BY <1>1, <1>9, WalkAllocated
<1> QED BY <1>7, <1>8, <1>9, <1>10, <1>11

-----------------------------------------------------------------------------
(* What the steps keep *)

\* The invariant in three parts: of files, of bytes, and of the call.
FilesOK ==
  /\ fat \in [Cluster -> Cluster \cup {EMPTY, END_OF_FILE}]
  /\ entry \in [File -> [cluster : Cluster \cup {NONE}, size : 0 .. MaxFileSize]]
  /\ handle \in [File -> HandleRec]
  /\ damaged \subseteq File
  /\ Chains /\ Handles /\ Entries /\ Covers
BytesOK == blocks \in [Block -> [1 .. BlockLen -> Byte]] /\ CacheOK

LEMMA Parts == ASSUME FilesOK', BytesOK', OpOK', faults' \in 0 .. MaxFaults PROVE IInv'
BY DEF IInv, TypeOK, HandleType, HandleRec, FilesOK, BytesOK, CacheOK, Handles, HandleOK

\* A step that leaves files alone, or gives a cluster up that none of them has.
LEMMA FilesKept ==
  ASSUME IInv, fat' \in Fats, UNCHANGED <<entry, handle>>,
         damaged \subseteq damaged', damaged' \subseteq File,
         SoundFat(fat', AllStarts), \A c \in AllStarts : Extends(fat', fat, c)
  PROVE  FilesOK'
<1>1. AllStarts' = AllStarts /\ \A f \in File : Starts(f)' = Starts(f)
  BY DEF AllStarts, Starts
<1>2. Chains'
  BY <1>1 DEF Chains, IInv
<1>3. ASSUME NEW f \in File PROVE HandleOK(fat', handle[f])
  BY <1>3, FileFacts, StillOK
<1>4. ASSUME NEW f \in File \ damaged'
      PROVE  /\ Covered(fat', handle[f].cluster, handle[f].size)
             /\ Covered(fat', entry[f].cluster, entry[f].size)
  <2>1. f \in File \ damaged /\ Covered(fat, handle[f].cluster, handle[f].size)
        /\ Covered(fat, entry[f].cluster, entry[f].size)
    BY DEF IInv, Covers
  <2>2. handle[f].size \in Int /\ entry[f].size \in Int
    BY <1>4, FileFacts, Sizes DEF HandleRec
  <2>3. handle[f].cluster = NONE => handle[f].size = 0
    BY <1>4, FileFacts DEF HandleOK
  <2>4. entry[f].cluster = NONE => entry[f].size = 0
    BY <1>4, FileFacts
  <2>5. \A c, n : n = 0 => Covered(fat', c, n)
    BY DEF Covered
  <2>6. Covered(fat', handle[f].cluster, handle[f].size)
    BY <1>4, <2>1, <2>2, <2>3, <2>5, FileFacts, StillCovered
  <2>7. Covered(fat', entry[f].cluster, entry[f].size)
    BY <1>4, <2>1, <2>2, <2>4, <2>5, FileFacts, StillCovered
  <2> QED BY <2>6, <2>7
<1>5. /\ entry \in [File -> [cluster : Cluster \cup {NONE}, size : 0 .. MaxFileSize]]
      /\ handle \in [File -> HandleRec] /\ Entries
  BY DEF IInv, TypeOK, HandleType, HandleRec
<1>6. Handles' /\ Entries' /\ Covers'
  BY <1>3, <1>4, <1>5 DEF Handles, Entries, Covers
<1> QED BY <1>2, <1>5, <1>6 DEF FilesOK, Fats, Node

LEMMA FilesSame ==
  ASSUME IInv, UNCHANGED <<fat, entry, handle>>, damaged \subseteq damaged', damaged' \subseteq File
  PROVE  FilesOK'
<1>1. fat \in Fats /\ SoundFat(fat, AllStarts)
  BY DEF IInv, Chains, SoundFat
<1> QED BY <1>1, FilesKept, SameChain

\* A step that changes one handle and no chain.
LEMMA OneHandle ==
  ASSUME IInv, UNCHANGED <<fat, entry>>, damaged \subseteq damaged', damaged' \subseteq File,
         NEW f \in File, NEW h \in HandleRec, handle' = [handle EXCEPT ![f] = h],
         HandleOK(fat, h), h.cluster \in {handle[f].cluster, entry[f].cluster, NONE},
         f \notin damaged' => Covered(fat, h.cluster, h.size)
  PROVE  FilesOK'
<1>1. /\ entry \in [File -> [cluster : Cluster \cup {NONE}, size : 0 .. MaxFileSize]]
      /\ handle \in [File -> HandleRec] /\ Entries /\ Handles /\ Covers /\ Chains
      /\ fat \in [Cluster -> Cluster \cup {EMPTY, END_OF_FILE}]
  BY DEF IInv, TypeOK, HandleType, HandleRec
<1>2. handle' \in [File -> HandleRec] /\ handle'[f] = h /\ \A g \in File : g # f => handle'[g] = handle[g]
  BY <1>1
<1>3. \A g \in File : Starts(g)' \subseteq Starts(g)
  BY <1>2 DEF Starts
<1>4. AllStarts' \subseteq AllStarts
  BY <1>3 DEF AllStarts
<1>5. Chains'
  <2>1. SoundFat(fat, AllStarts')
    BY <1>1, <1>4 DEF Chains, SoundFat
  <2> QED BY <1>1, <1>3, <2>1 DEF Chains
<1>6. Handles'
  BY <1>1, <1>2 DEF Handles
<1>7. Covers'
  BY <1>1, <1>2 DEF Covers
<1> QED BY <1>1, <1>2, <1>5, <1>6, <1>7 DEF FilesOK, Entries

LEMMA BytesKept ==
  ASSUME IInv, UNCHANGED blocks, cache' \in {cache, Forgotten}
  PROVE  BytesOK'
<1>1. Forgotten \in [block : Block \cup {NoBlock}, bytes : [1 .. BlockLen -> Byte]]
  <2>1. 0 \in Byte
    BY DEF Byte
  <2> QED BY <2>1 DEF Forgotten, Blank
<1> QED BY <1>1 DEF IInv, TypeOK, BytesOK, CacheOK

LEMMA NothingToDo == ASSUME op' = NoOp PROVE OpOK'
<1>1. << >> \in Seq(Byte)
  OBVIOUS
<1> QED BY <1>1 DEF NoOp, OpOK, OpType, Writes

LEMMA Counted ==
  ASSUME IInv, UNCHANGED faults \/ (MayFault /\ faults' = faults + 1)
  PROVE  faults' \in 0 .. MaxFaults
BY SizeAssumption DEF IInv, TypeOK, MayFault

\* The call under way.
LEMMA Calling ==
  ASSUME IInv, op.pc # "idle"
  PROVE  op.file \in File /\ handle[op.file].open /\ OpType /\ op.done <= op.todo
BY DEF IInv, OpOK

-----------------------------------------------------------------------------
(* Opening *)

LEMMA Opened ==
  ASSUME IInv, NEW f \in File, NEW w \in BOOLEAN, NEW o \in {0, entry[f].size},
         handle' = [handle EXCEPT ![f] =
           [open |-> TRUE, writable |-> w, dirty |-> FALSE, cluster |-> entry[f].cluster,
            size |-> entry[f].size, offset |-> o, at |-> <<0, entry[f].cluster>>]],
         UNCHANGED <<fat, entry, damaged>>
  PROVE  FilesOK'
<1> DEFINE h == [open |-> TRUE, writable |-> w, dirty |-> FALSE, cluster |-> entry[f].cluster,
                 size |-> entry[f].size, offset |-> o, at |-> <<0, entry[f].cluster>>]
<1>1. /\ entry[f] \in [cluster : Cluster \cup {NONE}, size : 0 .. MaxFileSize]
      /\ entry[f].cluster = NONE => entry[f].size = 0
      /\ fat \in Fats /\ BytesPerCluster \in Nat \ {0}
      /\ damaged \subseteq File
      /\ f \notin damaged => Covered(fat, entry[f].cluster, entry[f].size)
  BY FileFacts, Sizes DEF IInv, TypeOK, Chains, SoundFat, Covers
<1>2. h \in HandleRec
  BY <1>1, Sizes DEF HandleRec
<1>3. h.cluster # NONE => Remembers(fat, h)
  <2> SUFFICES ASSUME h.cluster # NONE PROVE Remembers(fat, h)
    OBVIOUS
  <2>1. h.cluster \in Cluster /\ h.cluster \in Node
    BY <1>1 DEF Node
  <2>2. h.at = <<0 * BytesPerCluster, Walk(fat, h.cluster, 0)>>
    <3>1. 0 * BytesPerCluster = 0
      BY <1>1
    <3>2. h.at = <<0, h.cluster>>
      OBVIOUS
    <3>3. fat \in Fats
      BY <1>1
    <3> HIDE DEF h
    <3>4. Walk(fat, h.cluster, 0) = h.cluster
      BY <2>1, <3>3, WalkDef
    <3> QED BY <3>1, <3>2, <3>4
  <2>3. h.at[2] \in Cluster
    BY <2>1
  <2> HIDE DEF h
  <2> QED BY <2>2, <2>3 DEF Remembers
<1>4. h.offset <= h.size
  BY <1>1, Sizes
<1>5. HandleOK(fat, h)
  BY <1>1, <1>3, <1>4 DEF HandleOK
<1>6. h.cluster = entry[f].cluster /\ h.size = entry[f].size
  OBVIOUS
<1>7. handle' = [handle EXCEPT ![f] = h]
  OBVIOUS
<1> HIDE DEF h
<1> QED BY <1>1, <1>2, <1>5, <1>6, <1>7, OneHandle

LEMMA OpenStep == ASSUME IInv, NEW f \in File, NEW append \in BOOLEAN, Open(f, append) PROVE IInv'
<1>1. UNCHANGED <<fat, blocks, entry, damaged>> /\ cache' = Forgotten
  BY DEF Open
<1>2. op' = NoOp /\ (UNCHANGED faults \/ (MayFault /\ faults' = faults + 1))
  BY DEF Open, Done, Fault, Fail, Return
<1>3. FilesOK'
  <2>1. CASE UNCHANGED handle
    <3>1. damaged \subseteq File
      BY DEF IInv, TypeOK
    <3> QED BY <1>1, <2>1, <3>1, FilesSame
  <2>2. CASE handle' = [handle EXCEPT ![f] =
             [open |-> TRUE, writable |-> append, dirty |-> FALSE,
              cluster |-> entry[f].cluster, size |-> entry[f].size,
              offset |-> IF append THEN entry[f].size ELSE 0, at |-> <<0, entry[f].cluster>>]]
    <3>1. (IF append THEN entry[f].size ELSE 0) \in {0, entry[f].size}
      OBVIOUS
    <3> QED BY <1>1, <2>2, <3>1, Opened
  <2> QED BY <2>1, <2>2 DEF Open
<1> QED BY <1>1, <1>2, <1>3, BytesKept, NothingToDo, Counted, Parts

\* Cutting a chain leaves those of the others as they are.
LEMMA CutIs ==
  ASSUME IInv, NEW f \in File, NEW n \in Int, entry[f].cluster = NONE => n <= 0
  PROVE  /\ SoundFat(Cut(f, n), AllStarts) /\ Cut(f, n) \in Fats
         /\ \A d \in AllStarts : d # entry[f].cluster => Extends(Cut(f, n), fat, d)
<1>1. SoundFat(fat, AllStarts) /\ fat \in [Cluster -> Node]
  BY DEF IInv, Chains, SoundFat, Fats
<1>2. CASE entry[f].cluster = NONE
  <2>1. \A c \in Cluster : c # NONE
    BY ClusterFacts
  <2>2. 1 .. n = {}
    BY <1>2
  <2>3. Cut(f, n) = fat
    BY <1>1, <1>2, <2>1, <2>2 DEF Cut
  <2> QED BY <1>1, <2>3, SameChain DEF Fats
<1>3. CASE entry[f].cluster # NONE
  <2>1. Cut(f, n) = Shortened(fat, entry[f].cluster, n)
    BY DEF Cut, Shortened, Follow
  <2>2. entry[f].cluster \in AllStarts
    BY <1>3, FileFacts
  <2>3. SoundFat(Cut(f, n), AllStarts) /\ \A d \in AllStarts : d # entry[f].cluster => Extends(Cut(f, n), fat, d)
    BY <1>1, <2>1, <2>2, ShortenedSound
  <2> QED BY <2>3 DEF SoundFat
<1> QED BY <1>2, <1>3

LEMMA TailIs ==
  ASSUME IInv, NEW f \in File
  PROVE  LET tail == Length(entry[f].cluster) - 1
         IN  tail \in Int /\ (entry[f].cluster = NONE => tail <= 0)
<1>1. CASE entry[f].cluster = NONE
  BY <1>1, LengthIs
<1>2. CASE entry[f].cluster # NONE
  <2>1. entry[f].cluster \in AllStarts
    BY <1>2, FileFacts
  <2>2. Clusters(fat, entry[f].cluster) \in 1 .. ClusterCount
    BY <2>1, StartFacts, ChainLength
  <2>3. Clusters(fat, entry[f].cluster) \in Int
    BY <2>2, ClusterFacts
  <2> QED BY <1>2, <2>3, LengthIs
<1> QED BY <1>1, <1>2

\* The chain of a closed file is cut, and the file emptied or damaged.
LEMMA CutFiles ==
  ASSUME IInv, NEW f \in File, ~ handle[f].open,
         NEW n \in Int, entry[f].cluster = NONE => n <= 0, fat' = Cut(f, n),
         \/ UNCHANGED entry /\ f \in damaged'
         \/ entry' = [entry EXCEPT ![f].size = 0],
         handle' \in {handle, Truncated(f)}, damaged \subseteq damaged', damaged' \subseteq File
  PROVE  FilesOK'
<1>1. /\ entry \in [File -> [cluster : Cluster \cup {NONE}, size : 0 .. MaxFileSize]]
      /\ handle \in [File -> HandleRec] /\ Chains /\ Handles /\ Entries /\ Covers
  BY DEF IInv, TypeOK, HandleType, HandleRec
<1>2. /\ SoundFat(fat', AllStarts) /\ fat' \in Fats
      /\ \A d \in AllStarts : d # entry[f].cluster => Extends(fat', fat, d)
  BY CutIs
<1>3. /\ entry' \in [File -> [cluster : Cluster \cup {NONE}, size : 0 .. MaxFileSize]]
      /\ \A g \in File : entry'[g].cluster = entry[g].cluster
      /\ \A g \in File : g # f => entry'[g] = entry[g]
      /\ f \notin damaged' => entry'[f].size = 0
      /\ entry'[f].size \in {0, entry[f].size}
  <2>1. CASE UNCHANGED entry /\ f \in damaged'
    BY <1>1, <2>1
  <2>2. CASE entry' = [entry EXCEPT ![f].size = 0]
    BY <1>1, <2>2, Sizes
  <2> QED BY <2>1, <2>2
<1> DEFINE h == [open |-> TRUE, writable |-> TRUE, dirty |-> FALSE, cluster |-> entry[f].cluster,
                 size |-> 0, offset |-> 0, at |-> <<0, entry[f].cluster>>]
<1>4. h \in HandleRec
  BY <1>1, Sizes DEF HandleRec
<1>5. handle[f] = Closed
  BY <1>1 DEF Handles, HandleOK
<1>6. /\ handle' \in [File -> HandleRec]
      /\ handle'[f] \in {Closed, h}
      /\ \A g \in File : g # f => handle'[g] = handle[g]
  <2>1. handle' = handle \/ handle' = [handle EXCEPT ![f] = h]
    BY DEF Truncated
  <2> HIDE DEF h
  <2> QED BY <1>1, <1>4, <1>5, <2>1
<1>7. \A g \in File : Starts(g)' \subseteq Starts(g)
  <2>1. ASSUME NEW g \in File PROVE handle'[g].cluster \in {NONE, entry[g].cluster, handle[g].cluster}
    BY <1>6 DEF Closed
  <2> QED BY <1>3, <2>1 DEF Starts
<1>8. Chains'
  <2>1. AllStarts' \subseteq AllStarts
    BY <1>7 DEF AllStarts
  <2>2. SoundFat(fat', AllStarts')
    BY <1>2, <2>1 DEF SoundFat
  <2> QED BY <1>1, <1>7, <2>2 DEF Chains
<1>9. ASSUME NEW g \in File, g # f, NEW c \in Starts(g) PROVE Extends(fat', fat, c)
  <2>1. c \in AllStarts
    BY <1>9 DEF AllStarts
  <2>2. c # entry[f].cluster
    BY <1>1, <1>9 DEF Chains, Starts
  <2> QED BY <1>2, <2>1, <2>2
<1>10. Handles'
  <2>1. ASSUME NEW g \in File PROVE HandleOK(fat', handle'[g])
    <3>1. CASE g # f
      <4>1. HandleOK(fat, handle[g]) /\ handle[g].cluster # NONE => handle[g].cluster \in Starts(g)
        BY FileFacts DEF Starts
      <4>2. HandleOK(fat, handle[g])
        BY FileFacts
      <4>3. handle[g].cluster # NONE => Extends(fat', fat, handle[g].cluster)
        BY <1>9, <3>1, <4>1, <4>2
      <4> QED BY <1>6, <3>1, <4>2, <4>3, StillOK
    <3>2. CASE g = f /\ handle'[f] = Closed
      BY <3>2 DEF HandleOK, Closed
    <3>3. CASE g = f /\ handle'[f] = h
      <4>1. h.cluster # NONE => Remembers(fat', h)
        <5> SUFFICES ASSUME h.cluster # NONE PROVE Remembers(fat', h)
          OBVIOUS
        <5>1. h.cluster \in Cluster /\ h.cluster \in Node
          BY <1>1 DEF Node
        <5>2. h.at = <<0 * BytesPerCluster, Walk(fat', h.cluster, 0)>> /\ h.at[2] \in Cluster
          BY <1>2, <5>1, WalkDef, Sizes
        <5> HIDE DEF h
        <5> QED BY <5>2 DEF Remembers
      <4>2. h.offset <= h.size /\ (h.cluster = NONE => h.size = 0 /\ h.at = <<0, NONE>>) /\ h.open
        OBVIOUS
      <4> HIDE DEF h
      <4> QED BY <3>3, <4>1, <4>2 DEF HandleOK
    <3> QED BY <1>6, <3>1, <3>2, <3>3
  <2> QED BY <2>1 DEF Handles
<1>11. Covers'
  <2>1. \A c, s : s = 0 => Covered(fat', c, s)
    BY DEF Covered
  <2>2. ASSUME NEW g \in File, NEW c \in Cluster \cup {NONE}, NEW s \in Int,
               g # f, c = NONE => s = 0, c # NONE => c \in Starts(g), Covered(fat, c, s)
        PROVE  Covered(fat', c, s)
    BY <1>9, <2>1, <2>2, StillCovered
  <2>3. ASSUME NEW g \in File \ damaged'
        PROVE  /\ Covered(fat', handle'[g].cluster, handle'[g].size)
               /\ Covered(fat', entry'[g].cluster, entry'[g].size)
    <3>1. CASE g = f
      <4>1. entry'[f].size = 0 /\ handle'[f].size = 0
        BY <1>3, <1>6, <2>3, <3>1 DEF Closed
      <4> QED BY <2>1, <3>1, <4>1
    <3>2. CASE g # f
      <4>1. g \in File \ damaged
        OBVIOUS
      <4>2. /\ Covered(fat, handle[g].cluster, handle[g].size)
            /\ Covered(fat, entry[g].cluster, entry[g].size)
        BY <1>1, <4>1 DEF Covers
      <4>3. /\ handle[g].cluster \in Cluster \cup {NONE} /\ handle[g].size \in Int
            /\ entry[g].cluster \in Cluster \cup {NONE} /\ entry[g].size \in Int
            /\ handle[g].cluster = NONE => handle[g].size = 0
            /\ entry[g].cluster = NONE => entry[g].size = 0
        BY <4>1, FileFacts, Sizes DEF HandleRec, HandleOK
      <4>4. /\ handle[g].cluster # NONE => handle[g].cluster \in Starts(g)
            /\ entry[g].cluster # NONE => entry[g].cluster \in Starts(g)
        BY DEF Starts
      <4>5. Covered(fat', handle[g].cluster, handle[g].size)
        BY <2>2, <3>2, <4>1, <4>2, <4>3, <4>4
      <4>6. Covered(fat', entry[g].cluster, entry[g].size)
        BY <2>2, <3>2, <4>1, <4>2, <4>3, <4>4
      <4> QED BY <1>3, <1>6, <3>2, <4>5, <4>6
    <3> QED BY <3>1, <3>2
  <2> QED BY <2>3 DEF Covers
<1>12. Entries'
  BY <1>1, <1>3 DEF Entries
<1> QED BY <1>2, <1>3, <1>6, <1>8, <1>10, <1>11, <1>12 DEF FilesOK, Fats, Node

LEMMA OpenTruncateStep == ASSUME IInv, NEW f \in File, OpenTruncate(f) PROVE IInv'
<1>1. damaged \subseteq File
  BY DEF IInv, TypeOK
<1>2. FilesOK'
  BY <1>1, TailIs, CutFiles DEF OpenTruncate, Openable
<1> QED BY <1>2, BytesKept, NothingToDo, Counted, Parts DEF OpenTruncate, Done, Return

LEMMA OpenTruncateFailsStep == ASSUME IInv, NEW f \in File, OpenTruncateFails(f) PROVE IInv'
<1> DEFINE tail == Length(entry[f].cluster) - 1
<1>1. /\ damaged \subseteq File /\ tail \in Int /\ (entry[f].cluster = NONE => tail <= 0)
      /\ ~ handle[f].open /\ UNCHANGED handle
  BY TailIs DEF IInv, TypeOK, OpenTruncateFails, Openable
<1>2. FilesOK'
  <2>1. CASE UNCHANGED <<fat, entry, damaged>>
    BY <1>1, <2>1, FilesSame
  <2>2. CASE /\ tail > 0
             /\ \E n \in 0 .. tail : fat' = Cut(f, n)
             /\ damaged' = damaged \cup {f}
             /\ UNCHANGED entry
    <3>1. PICK n \in 0 .. tail : fat' = Cut(f, n)
      BY <2>2
    <3>2. n \in Int /\ entry[f].cluster # NONE
      BY <1>1, <2>2
    <3> HIDE DEF tail
    <3> QED BY <1>1, <2>2, <3>1, <3>2, CutFiles
  <2>3. CASE /\ fat' = Cut(f, tail)
             /\ entry' = [entry EXCEPT ![f].size = 0]
             /\ damaged' = damaged \cup {f}
    <3> HIDE DEF tail
    <3> QED BY <1>1, <2>3, CutFiles
  <2> QED BY <2>1, <2>2, <2>3 DEF OpenTruncateFails
<1>3. UNCHANGED blocks /\ cache' = Forgotten /\ op' = NoOp /\ MayFault /\ faults' = faults + 1
  BY DEF OpenTruncateFails, Fault, Fail, Return
<1> QED BY <1>2, <1>3, BytesKept, NothingToDo, Counted, Parts

-----------------------------------------------------------------------------
(* Writing *)

\* What callers write are bytes.
LEMMA BufferFacts ==
  ASSUME NEW b \in Buffers
  PROVE  b \in Seq(Byte) /\ Len(b) \in Nat
BY BufferAssumption

\* A handle that is rewound remembers a cluster of its chain.
LEMMA RewoundOK ==
  ASSUME NEW v \in Fats, NEW h \in HandleRec, h.cluster # NONE, h.open, h.offset <= h.size,
         Remembers(v, h) \/ h.at = <<0, NONE>>
  PROVE  /\ HandleOK(v, Rewound(h)) /\ Rewound(h) \in HandleRec
         /\ Rewound(h).cluster = h.cluster /\ Rewound(h).size = h.size
         /\ Rewound(h).offset = h.offset /\ Rewound(h).open
<1>1. h.cluster \in Cluster /\ h.cluster \in Node
  BY DEF HandleRec, Node
<1>2. CASE h.at[2] < h.cluster
  <2> DEFINE r == [h EXCEPT !.at = <<0, h.cluster>>]
  <2>1. Rewound(h) = r
    BY <1>2 DEF Rewound
  <2>2. r \in HandleRec /\ r.cluster = h.cluster /\ r.size = h.size /\ r.offset = h.offset /\ r.open = h.open
        /\ r.at = <<0, h.cluster>>
    BY <1>1 DEF HandleRec
  <2> HIDE DEF r
  <2>3. r.at = <<0 * BytesPerCluster, Walk(v, r.cluster, 0)>> /\ r.at[2] \in Cluster
    BY <1>1, <2>2, WalkDef, Sizes
  <2>4. Remembers(v, r)
    BY <2>3 DEF Remembers
  <2>5. HandleOK(v, r)
    BY <2>2, <2>4 DEF HandleOK
  <2> QED BY <2>1, <2>2, <2>5
<1>3. CASE ~ (h.at[2] < h.cluster)
  <2>1. Rewound(h) = h
    BY <1>3 DEF Rewound
  <2>2. h.at # <<0, NONE>>
    BY <1>1, <1>3, ClusterFacts DEF NONE
  <2> QED BY <2>1, <2>2 DEF HandleOK
<1> QED BY <1>2, <1>3

LEMMA StartWriteStep == ASSUME IInv, NEW f \in File, NEW b \in Buffers, StartWrite(f, b) PROVE IInv'
<1>1. /\ Idle /\ handle[f].open /\ UNCHANGED <<fat, blocks, cache, entry, damaged, faults>>
      /\ damaged \subseteq File /\ fat \in Fats /\ handle \in [File -> HandleRec]
  BY DEF StartWrite, IInv, TypeOK, HandleType, HandleRec, Chains, SoundFat
<1>2. CASE ~ handle[f].writable
  <2>1. op' = NoOp /\ UNCHANGED handle
    BY <1>2 DEF StartWrite, Fail, Return
  <2> QED BY <1>1, <2>1, FilesSame, BytesKept, NothingToDo, Counted, Parts
<1>3. CASE handle[f].writable
  <2> DEFINE h == [handle[f] EXCEPT !.dirty = TRUE]
             n == Smaller(Len(b), MaxFileSize - h.offset)
  <2>1. /\ handle[f] \in HandleRec /\ HandleOK(fat, handle[f])
        /\ f \notin damaged => Covered(fat, handle[f].cluster, handle[f].size)
    BY FileFacts DEF IInv, Covers
  <2>2. /\ h \in HandleRec /\ h.open = handle[f].open /\ h.cluster = handle[f].cluster
        /\ h.size = handle[f].size /\ h.offset = handle[f].offset /\ h.at = handle[f].at
    BY <2>1 DEF HandleRec
  <2>3. \/ h.cluster = NONE /\ op' = [Writing(f, b, h) EXCEPT !.pc = "first"] /\ handle' = [handle EXCEPT ![f] = h]
        \/ h.cluster # NONE /\ op' = Writing(f, b, h) /\ handle' = [handle EXCEPT ![f] = Rewound(h)]
    BY <1>3 DEF StartWrite
  <2>4. n \in Nat /\ n <= Len(b) /\ h.offset + n <= MaxFileSize /\ Len(b) \in Nat /\ h.offset \in Nat
    <3>1. h.offset \in 0 .. MaxFileSize
      BY <2>2 DEF HandleRec
    <3>2. Len(b) \in Nat
      BY BufferFacts
    <3>3. \A x \in 0 .. MaxFileSize, y \in Nat :
            /\ Smaller(y, MaxFileSize - x) \in Nat /\ Smaller(y, MaxFileSize - x) <= y
            /\ x + Smaller(y, MaxFileSize - x) <= MaxFileSize
      BY Sizes DEF Smaller
    <3>4. h.offset \in Nat
      BY <3>1, Sizes
    <3> HIDE DEF h
    <3> QED BY <3>1, <3>2, <3>3, <3>4
  <2>5. /\ Writing(f, b, h) = [pc |-> "write", file |-> f, buffer |-> b, done |-> 0, todo |-> n]
        /\ [Writing(f, b, h) EXCEPT !.pc = "first"] =
             [pc |-> "first", file |-> f, buffer |-> b, done |-> 0, todo |-> n]
    BY DEF Writing
  <2> HIDE DEF h, n
  <2>6. PICK r \in HandleRec : /\ handle' = [handle EXCEPT ![f] = r]
                               /\ HandleOK(fat, r) /\ r.cluster = h.cluster /\ r.size = h.size
                               /\ r.offset = h.offset /\ r.open
    <3>1. CASE h.cluster = NONE
      <4>1. HandleOK(fat, h)
        BY <1>1, <2>1, <2>2, <3>1 DEF HandleOK
      <4> QED BY <1>1, <2>2, <2>3, <3>1, <4>1
    <3>2. CASE h.cluster # NONE
      <4>1. Remembers(fat, h) /\ h.offset <= h.size
        BY <2>1, <2>2, <3>2 DEF HandleOK, Remembers
      <4> QED BY <1>1, <2>2, <2>3, <3>2, <4>1, RewoundOK
    <3> QED BY <3>1, <3>2
  <2>7. FilesOK'
    <3>1. r.cluster \in {handle[f].cluster, entry[f].cluster, NONE}
      BY <2>2, <2>6
    <3>2. f \notin damaged => Covered(fat, r.cluster, r.size)
      BY <2>1, <2>2, <2>6
    <3> QED BY <1>1, <2>6, <3>1, <3>2, OneHandle
  <2>8. handle'[f] = r
    BY <1>1, <2>6
  <2>9. OpOK'
    <3>1. \/ op' = [pc |-> "first", file |-> f, buffer |-> b, done |-> 0, todo |-> n] /\ r.cluster = NONE
          \/ op' = [pc |-> "write", file |-> f, buffer |-> b, done |-> 0, todo |-> n] /\ r.cluster # NONE
      BY <2>3, <2>5, <2>6
    <3>2. b \in Seq(Byte) /\ r.offset + (n - 0) <= MaxFileSize /\ 0 <= n /\ n <= Len(b)
      BY <2>4, <2>6, BufferFacts
    <3> QED BY <2>4, <2>6, <2>8, <3>1, <3>2 DEF OpOK, OpType, Writes
  <2> QED BY <1>1, <2>7, <2>9, BytesKept, Counted, Parts
<1> QED BY <1>2, <1>3

\* What alloc_cluster does, or leaves.
LEMMA AllocIs ==
  ASSUME IInv, NEW c \in FreeClusters, NEW p, p = NONE \/ (p \in Cluster /\ fat[p] = END_OF_FILE)
  PROVE  /\ SoundFat(Alloc(p, c), AllStarts) /\ Alloc(p, c) \in Fats
         /\ p = NONE => SoundFat(Alloc(p, c), AllStarts \cup {c})
         /\ \A d \in AllStarts : Extends(Alloc(p, c), fat, d)
         /\ c \in Cluster
<1>1. SoundFat(fat, AllStarts) /\ c \in Cluster /\ fat[c] = EMPTY
  BY DEF IInv, Chains, FreeClusters
<1>2. Alloc(p, c) = Given(fat, p, c)
  BY DEF Alloc, Given
<1>3. /\ SoundFat(Alloc(p, c), AllStarts)
      /\ p = NONE => SoundFat(Alloc(p, c), AllStarts \cup {c})
      /\ \A d \in AllStarts : Extends(Alloc(p, c), fat, d)
  BY <1>1, <1>2, GivenSound
<1> QED BY <1>1, <1>3 DEF SoundFat

LEMMA Growth ==
  ASSUME IInv, UNCHANGED <<entry, handle, damaged>>,
         NEW p, p = NONE \/ (p \in Cluster /\ fat[p] = END_OF_FILE),
         fat' = fat \/ \E q \in {NONE, p}, c \in FreeClusters : fat' = Alloc(q, c)
  PROVE  FilesOK'
<1>1. damaged \subseteq File
  BY DEF IInv, TypeOK
<1>2. CASE fat' = fat
  BY <1>1, <1>2, FilesSame
<1>3. CASE \E q \in {NONE, p}, c \in FreeClusters : fat' = Alloc(q, c)
  <2>1. PICK q \in {NONE, p}, c \in FreeClusters : fat' = Alloc(q, c)
    BY <1>3
  <2>2. q = NONE \/ (q \in Cluster /\ fat[q] = END_OF_FILE)
    BY <2>1
  <2>3. SoundFat(fat', AllStarts) /\ fat' \in Fats /\ \A d \in AllStarts : Extends(fat', fat, d)
    BY <2>1, <2>2, AllocIs
  <2> QED BY <1>1, <2>3, FilesKept
<1> QED BY <1>2, <1>3

\* A file without clusters gets its first.
LEMMA FirstCluster ==
  ASSUME IInv, NEW f \in File, handle[f].open, handle[f].cluster = NONE, NEW c \in FreeClusters,
         fat' = Alloc(NONE, c), UNCHANGED <<entry, damaged>>,
         handle' = [handle EXCEPT ![f] = Rewound([handle[f] EXCEPT !.cluster = c])]
  PROVE  FilesOK' /\ handle'[f].cluster # NONE /\ handle'[f].open /\ handle'[f].offset = handle[f].offset
<1> DEFINE h == [handle[f] EXCEPT !.cluster = c]
           r == Rewound(h)
<1>1. /\ entry \in [File -> [cluster : Cluster \cup {NONE}, size : 0 .. MaxFileSize]]
      /\ handle \in [File -> HandleRec] /\ Chains /\ Handles /\ Entries /\ Covers /\ damaged \subseteq File
  BY DEF IInv, TypeOK, HandleType, HandleRec
<1>2. /\ SoundFat(fat', AllStarts \cup {c}) /\ fat' \in Fats
      /\ \A d \in AllStarts : Extends(fat', fat, d)
      /\ c \in Cluster /\ c # NONE
  BY AllocIs, ClusterFacts
<1>3. handle[f] \in HandleRec /\ HandleOK(fat, handle[f]) /\ handle[f].size = 0 /\ handle[f].at = <<0, NONE>>
  BY FileFacts DEF HandleOK
<1>4. /\ h \in HandleRec /\ h.cluster = c /\ h.open /\ h.size = 0 /\ h.at = <<0, NONE>>
      /\ h.offset = handle[f].offset /\ h.offset <= h.size
  BY <1>2, <1>3 DEF HandleRec, HandleOK
<1> HIDE DEF h
<1>5. HandleOK(fat', r) /\ r \in HandleRec /\ r.cluster = c /\ r.size = 0 /\ r.offset = handle[f].offset /\ r.open
  BY <1>2, <1>4, RewoundOK
<1>6. handle' = [handle EXCEPT ![f] = r]
  BY DEF h
<1> HIDE DEF r
<1>7. handle' \in [File -> HandleRec] /\ handle'[f] = r /\ \A g \in File : g # f => handle'[g] = handle[g]
  BY <1>1, <1>5, <1>6
<1>8. \A d \in AllStarts : d # c
  BY StartFacts, ClusterFacts DEF FreeClusters
<1>9. \A g \in File : Starts(g)' \subseteq Starts(g) \cup IF g = f THEN {c} ELSE {}
  BY <1>5, <1>7 DEF Starts
<1>10. Chains'
  <2>1. AllStarts' \subseteq AllStarts \cup {c}
    BY <1>9 DEF AllStarts
  <2>2. SoundFat(fat', AllStarts')
    BY <1>2, <2>1 DEF SoundFat
  <2>3. \A g \in File : c \notin Starts(g)
    BY <1>8 DEF AllStarts
  <2> QED BY <1>1, <1>9, <2>2, <2>3 DEF Chains
<1>11. Handles'
  <2>1. ASSUME NEW g \in File, g # f PROVE HandleOK(fat', handle[g])
    BY <1>2, FileFacts, StillOK
  <2> QED BY <1>5, <1>7, <2>1 DEF Handles
<1>12. Covers'
  <2>1. \A d, s : s = 0 => Covered(fat', d, s)
    BY DEF Covered
  <2>2. ASSUME NEW d \in Cluster \cup {NONE}, NEW s \in Int,
               d = NONE => s = 0, d # NONE => d \in AllStarts, Covered(fat, d, s)
        PROVE  Covered(fat', d, s)
    BY <1>2, <2>1, <2>2, StillCovered
  <2>3. ASSUME NEW g \in File \ damaged
        PROVE  /\ Covered(fat', handle'[g].cluster, handle'[g].size)
               /\ Covered(fat', entry[g].cluster, entry[g].size)
    <3>1. /\ handle[g].cluster \in Cluster \cup {NONE} /\ handle[g].size \in Int
          /\ entry[g].cluster \in Cluster \cup {NONE} /\ entry[g].size \in Int
          /\ handle[g].cluster = NONE => handle[g].size = 0
          /\ entry[g].cluster = NONE => entry[g].size = 0
          /\ handle[g].cluster # NONE => handle[g].cluster \in AllStarts
          /\ entry[g].cluster # NONE => entry[g].cluster \in AllStarts
      BY FileFacts, Sizes DEF HandleRec, HandleOK
    <3>2. Covered(fat, handle[g].cluster, handle[g].size) /\ Covered(fat, entry[g].cluster, entry[g].size)
      BY <1>1 DEF Covers
    <3>3. Covered(fat', entry[g].cluster, entry[g].size)
      BY <2>2, <3>1, <3>2
    <3>4. Covered(fat', handle'[g].cluster, handle'[g].size)
      <4>1. CASE g = f
        BY <1>5, <1>7, <2>1, <4>1
      <4>2. CASE g # f
        <5>1. Covered(fat', handle[g].cluster, handle[g].size)
          BY <2>2, <3>1, <3>2
        <5> QED BY <1>7, <4>2, <5>1
      <4> QED BY <4>1, <4>2
    <3> QED BY <3>3, <3>4
  <2> QED BY <2>3 DEF Covers
<1>13. FilesOK'
  BY <1>1, <1>2, <1>7, <1>10, <1>11, <1>12 DEF FilesOK, Fats, Node, Entries
<1> QED BY <1>2, <1>5, <1>7, <1>13

LEMMA AllocFirstStep == ASSUME IInv, AllocFirst PROVE IInv'
<1> DEFINE f == op.file
<1>1. /\ f \in File /\ handle[f].open /\ handle[f].cluster = NONE /\ OpOK /\ op.pc = "first"
      /\ UNCHANGED <<blocks, entry, damaged>> /\ cache' = Forgotten
  <2>1. op.pc = "first" /\ UNCHANGED <<blocks, entry, damaged>> /\ cache' = Forgotten /\ OpOK
    BY DEF AllocFirst, IInv
  <2> QED BY <2>1 DEF OpOK, Writes
<1>2. ASSUME NEW c \in FreeClusters,
             fat' = Alloc(NONE, c),
             handle' = [handle EXCEPT ![f] = Rewound([handle[f] EXCEPT !.cluster = c])],
             op' = [op EXCEPT !.pc = "write"], UNCHANGED <<ret, faults>>
      PROVE  IInv'
  <2>1. FilesOK' /\ handle'[f].cluster # NONE /\ handle'[f].open /\ handle'[f].offset = handle[f].offset
    BY <1>1, <1>2, FirstCluster
  <2>2. OpOK'
    <3>1. /\ op'.pc = "write" /\ op'.file = f /\ op'.todo = op.todo /\ op'.done = op.done /\ op'.buffer = op.buffer
          /\ op' \in [pc : Writes \cup {"idle", "read"}, file : File \cup {NoFile}, buffer : Seq(Byte),
                      todo : Nat, done : Nat]
      BY <1>1, <1>2 DEF OpOK, OpType, Writes
    <3> QED BY <1>1, <2>1, <3>1 DEF OpOK, OpType, Writes
  <2> QED BY <1>1, <1>2, <2>1, <2>2, BytesKept, Counted, Parts
<1>3. ASSUME UNCHANGED handle, op' = NoOp, UNCHANGED faults \/ (MayFault /\ faults' = faults + 1),
             fat' = fat \/ \E c \in FreeClusters : fat' = Alloc(NONE, c)
      PROVE  IInv'
  <2>1. FilesOK'
    BY <1>1, <1>3, Growth
  <2> QED BY <1>1, <1>3, <2>1, BytesKept, NothingToDo, Counted, Parts
<1>4. CASE /\ \A c, d \in FreeClusters : c = d
           /\ fat' = [c \in Cluster |-> IF c \in FreeClusters THEN END_OF_FILE ELSE fat[c]]
           /\ Fail /\ UNCHANGED <<handle, faults>>
  <2>1. fat \in [Cluster -> Node]
    BY DEF IInv, Chains, SoundFat, Fats
  <2>2. CASE FreeClusters = {}
    <3>1. fat' = fat
      BY <1>4, <2>1, <2>2
    <3> QED BY <1>3, <1>4, <3>1 DEF Fail, Return
  <2>3. CASE FreeClusters # {}
    <3>1. PICK c \in FreeClusters : TRUE
      BY <2>3
    <3>2. FreeClusters = {c}
      BY <1>4, <3>1
    <3>3. fat' = Alloc(NONE, c)
      BY <1>4, <3>2, ClusterFacts DEF Alloc
    <3> QED BY <1>3, <1>4, <3>1, <3>3 DEF Fail, Return
  <2> QED BY <2>2, <2>3
<1>5. CASE fat' \in AllocRange(NONE) /\ Fault /\ UNCHANGED handle
  BY <1>3, <1>5 DEF AllocRange, Fault, Fail, Return
<1> QED BY <1>2, <1>4, <1>5 DEF AllocFirst

\* A chain that starts somewhere has an end.
LEMMA LastIs ==
  ASSUME IInv, NEW c0 \in AllStarts
  PROVE  Last(c0) \in Cluster /\ fat[Last(c0)] = END_OF_FILE
<1> DEFINE L == Clusters(fat, c0)
<1>1. /\ L \in 1 .. ClusterCount /\ \A n \in Nat : Walk(fat, c0, n) \in Cluster <=> n < L
      /\ fat[Walk(fat, c0, L - 1)] = END_OF_FILE
  BY StartFacts, ChainLength
<1>2. Length(c0) = L
  BY LengthIs, StartFacts
<1> HIDE DEF L
<1>3. L - 1 \in Nat /\ L - 1 < L
  BY <1>1, ClusterFacts
<1>4. Last(c0) = Walk(fat, c0, L - 1)
  BY <1>2 DEF Last, Follow
<1> QED BY <1>1, <1>3, <1>4

LEMMA ExtendStep == ASSUME IInv, Extend PROVE IInv'
<1> DEFINE f == op.file
           c0 == handle[f].cluster
           last == Last(c0)
<1>1. /\ f \in File /\ handle[f].open /\ c0 # NONE /\ OpOK /\ op.pc = "write"
      /\ UNCHANGED <<blocks, entry, handle, damaged>> /\ cache' = Forgotten
  <2>1. op.pc = "write" /\ UNCHANGED <<blocks, entry, handle, damaged>> /\ cache' = Forgotten /\ OpOK
    BY DEF Extend, IInv
  <2> QED BY <2>1 DEF OpOK, Writes
<1>2. last \in Cluster /\ fat[last] = END_OF_FILE
  BY <1>1, FileFacts, LastIs
<1> HIDE DEF last
<1>3. ASSUME fat' = fat \/ \E q \in {NONE, last}, c \in FreeClusters : fat' = Alloc(q, c) PROVE FilesOK'
  BY <1>1, <1>2, <1>3, Growth
<1>4. ASSUME NEW c \in FreeClusters, fat' = Alloc(last, c),
             op' = [op EXCEPT !.pc = "extended"], UNCHANGED <<ret, faults>>
      PROVE  IInv'
  <2>1. FilesOK'
    BY <1>3, <1>4
  <2>2. OpOK'
    <3>1. /\ op'.pc = "extended" /\ op'.file = f /\ op'.todo = op.todo /\ op'.done = op.done /\ op'.buffer = op.buffer
          /\ op' \in [pc : Writes \cup {"idle", "read"}, file : File \cup {NoFile}, buffer : Seq(Byte),
                      todo : Nat, done : Nat]
      BY <1>1, <1>4 DEF OpOK, OpType, Writes
    <3> QED BY <1>1, <3>1 DEF OpOK, OpType, Writes
  <2> QED BY <1>1, <1>4, <2>1, <2>2, BytesKept, Counted, Parts
<1>5. ASSUME op' = NoOp, UNCHANGED faults \/ (MayFault /\ faults' = faults + 1),
             fat' = fat \/ \E q \in {NONE, last}, c \in FreeClusters : fat' = Alloc(q, c)
      PROVE  IInv'
  BY <1>1, <1>3, <1>5, BytesKept, NothingToDo, Counted, Parts
<1>6. CASE /\ fat' = IF FreeClusters = {} THEN fat
                     ELSE Alloc(last, CHOOSE c \in FreeClusters : TRUE)
           /\ Fail /\ UNCHANGED faults
  BY <1>5, <1>6 DEF Fail, Return
<1>7. CASE fat' \in AllocRange(last) /\ Fault
  BY <1>5, <1>7 DEF AllocRange, Fault, Fail, Return
<1> QED BY <1>4, <1>6, <1>7 DEF Extend, last

LEMMA ExtendedTooLittleStep == ASSUME IInv, ExtendedTooLittle PROVE IInv'
<1>1. /\ UNCHANGED <<fat, blocks, entry, handle, damaged, faults>> /\ cache' = Forgotten /\ op' = NoOp
      /\ damaged \subseteq File
  BY DEF ExtendedTooLittle, Fail, Return, IInv, TypeOK
<1> QED BY <1>1, FilesSame, BytesKept, NothingToDo, Counted, Parts

\* Where find_data_on_disk has found the offset: the block is one of the file's,
\* and all bytes up to its end have clusters.
LEMMA Placed ==
  ASSUME IInv, NEW f \in File, handle[f].cluster # NONE, ~ Locate(handle[f]).ended
  PROVE  LET h == handle[f]
             l == Locate(h)
         IN  /\ BlockAt(h, l) \in Block /\ h.offset % BlockLen \in 0 .. BlockLen - 1
             /\ l.at \in Nat \X (Cluster \cup {NONE})
             /\ l.at[2] \in Cluster
             /\ \E k \in Nat : l.at = <<k * BytesPerCluster, Walk(fat, h.cluster, k)>>
             /\ \A n \in Nat : n <= BlockLen - (h.offset % BlockLen) => Covered(fat, h.cluster, h.offset + n)
<1> DEFINE h == handle[f]
           c == h.cluster
           l == Locate(h)
           o == h.offset % BlockLen
<1>1. PICK k \in Nat :
           /\ l.at = <<k * BytesPerCluster, Walk(fat, c, k)>>
           /\ k * BytesPerCluster <= h.offset
           /\ h.offset < k * BytesPerCluster + BytesPerCluster
           /\ Walk(fat, c, k) \in Cluster
  BY Located
<1>2. h \in HandleRec /\ c \in AllStarts /\ c \in Node /\ fat \in Fats
  BY FileFacts, StartFacts
<1>3. h.offset \in Nat
  BY <1>2, Sizes DEF HandleRec
<1> DEFINE x == k * BytesPerCluster
           j == (h.offset - x) \div BlockLen
<1>4. /\ j \in 0 .. BlocksPerCluster - 1 /\ o \in 0 .. BlockLen - 1
      /\ h.offset = x + j * BlockLen + o
      /\ x + j * BlockLen + BlockLen <= x + BytesPerCluster
  BY <1>1, <1>3, Position
<1>5. BlockAt(h, l) = <<Walk(fat, c, k), j>>
  BY <1>1 DEF BlockAt
<1>6. x \in Nat /\ j * BlockLen \in Int /\ BlockLen \in Nat /\ BytesPerCluster \in Nat
  BY <1>4, Sizes
<1> HIDE DEF j, x, o, h, l
<1>7. ASSUME NEW n \in Nat, n <= BlockLen - o PROVE Covered(fat, c, h.offset + n)
  <2>1. h.offset + n \in Nat /\ h.offset + n <= x + BytesPerCluster
    BY <1>3, <1>4, <1>6, <1>7
  <2> QED BY <1>1, <1>2, <2>1, CoveredUpTo DEF x
<1>8. BlockAt(h, l) \in Block
  BY <1>1, <1>4, <1>5 DEF Block
<1>9. l.at \in Nat \X (Cluster \cup {NONE}) /\ l.at[2] \in Cluster
  BY <1>1, <1>6 DEF x
<1> QED BY <1>1, <1>4, <1>7, <1>8, <1>9 DEF h, l, o

\* The handle goes on by so many bytes of the block.
LEMMA Advances ==
  ASSUME IInv, NEW f \in File, handle[f].cluster # NONE, ~ Locate(handle[f]).ended,
         NEW n \in Nat, n <= BlockLen - (handle[f].offset % BlockLen),
         handle[f].offset + n <= MaxFileSize,
         handle' = [handle EXCEPT ![f] = Advanced(handle[f], Locate(handle[f]), n)],
         UNCHANGED <<fat, entry, damaged>>
  PROVE  /\ FilesOK' /\ handle'[f].offset = handle[f].offset + n
         /\ handle'[f].cluster = handle[f].cluster /\ handle'[f].open = handle[f].open
<1> DEFINE h == handle[f]
           l == Locate(h)
           r == Advanced(h, l, n)
<1>1. /\ l.at \in Nat \X (Cluster \cup {NONE}) /\ l.at[2] \in Cluster
      /\ \E k \in Nat : l.at = <<k * BytesPerCluster, Walk(fat, h.cluster, k)>>
      /\ Covered(fat, h.cluster, h.offset + n)
  BY Placed
<1>2. /\ h \in HandleRec /\ HandleOK(fat, h) /\ damaged \subseteq File /\ handle \in [File -> HandleRec]
      /\ f \notin damaged => Covered(fat, h.cluster, h.size)
  BY FileFacts DEF IInv, Covers, TypeOK, HandleType, HandleRec
<1>3. h.offset \in Nat /\ h.size \in 0 .. MaxFileSize /\ h.offset + n \in 0 .. MaxFileSize /\ h.open
  BY <1>2, Sizes DEF HandleRec, HandleOK, Closed
<1> HIDE DEF l
<1>4. /\ r \in HandleRec /\ r.at = l.at /\ r.offset = h.offset + n /\ r.cluster = h.cluster /\ r.open = h.open
      /\ r.size = IF h.offset + n > h.size THEN h.offset + n ELSE h.size
  BY <1>1, <1>2, <1>3 DEF HandleRec, Advanced
<1>5. handle' = [handle EXCEPT ![f] = r]
  BY DEF l
<1> HIDE DEF r
<1>6. HandleOK(fat, r)
  <2>1. Remembers(fat, r)
    BY <1>1, <1>4 DEF Remembers
  <2>2. r.offset <= r.size
    BY <1>3, <1>4, Sizes
  <2> QED BY <1>3, <1>4, <2>1, <2>2 DEF HandleOK
<1>7. f \notin damaged => Covered(fat, r.cluster, r.size)
  BY <1>1, <1>2, <1>4
<1>8. FilesOK'
  BY <1>2, <1>4, <1>5, <1>6, <1>7, OneHandle
<1>9. handle'[f] = r
  BY <1>2, <1>5
<1> QED BY <1>4, <1>8, <1>9

LEMMA CachedOK ==
  ASSUME IInv, NEW b \in Block, NEW w
  PROVE  Cached(b, w) \in [block : Block \cup {NoBlock}, bytes : [1 .. BlockLen -> Byte]]
<1>1. CacheOK /\ blocks \in [Block -> [1 .. BlockLen -> Byte]]
  BY DEF IInv, TypeOK
<1> QED BY <1>1 DEF CacheOK, Cached

\* What is known when a write has found its place.
LEMMA Writable ==
  ASSUME IInv, Locatable
  PROVE  LET h == handle[op.file]
             n == ToWrite(h)
             b == BlockAt(h, Here)
         IN  /\ op.file \in File /\ h.open /\ h.cluster # NONE /\ ~ Locate(h).ended
             /\ n \in Nat /\ n <= BlockLen - (h.offset % BlockLen) /\ n <= op.todo - op.done
             /\ h.offset + n <= MaxFileSize
             /\ b \in Block /\ NewBytes(h, Here) \in [1 .. BlockLen -> Byte]
<1> DEFINE f == op.file
           h == handle[f]
           n == ToWrite(h)
           o == h.offset % BlockLen
           b == BlockAt(h, Here)
<1>1. /\ OpOK /\ op.pc \in {"write", "extended"} /\ op.done < op.todo /\ ~ Locate(h).ended
      /\ Here = Locate(h)
  BY DEF Locatable, Progress, Here, IInv
<1>2. /\ f \in File /\ h.open /\ h.cluster # NONE /\ op.todo <= Len(op.buffer)
      /\ h.offset + (op.todo - op.done) <= MaxFileSize
      /\ op.buffer \in Seq(Byte) /\ op.todo \in Nat /\ op.done \in Nat
  BY <1>1 DEF OpOK, Writes, OpType
<1>3. b \in Block /\ o \in 0 .. BlockLen - 1
  BY <1>1, <1>2, Placed
<1>4. h.offset \in Nat /\ BlockLen \in Nat /\ MaxFileSize \in Nat
  BY <1>2, FileFacts, Sizes DEF HandleRec
<1>5. n = IF BlockLen - o < op.todo - op.done THEN BlockLen - o ELSE op.todo - op.done
  BY DEF ToWrite, Smaller
<1> HIDE DEF h, o, b
<1>6. n \in Nat /\ n <= BlockLen - o /\ n <= op.todo - op.done /\ h.offset + n <= MaxFileSize
  BY <1>1, <1>2, <1>3, <1>4, <1>5
<1>7. ASSUME NEW old \in [1 .. BlockLen -> Byte] PROVE Patched(old, h) \in [1 .. BlockLen -> Byte]
  <2>1. Patched(old, h) =
          [i \in 1 .. BlockLen |-> IF i \in (o + 1) .. (o + n) THEN op.buffer[op.done + i - o] ELSE old[i]]
    BY DEF Patched, o
  <2>2. ASSUME NEW i \in (o + 1) .. (o + n) PROVE op.buffer[op.done + i - o] \in Byte
    <3>1. op.done + i - o \in 1 .. Len(op.buffer)
      BY <1>2, <1>3, <1>6
    <3> QED BY <1>2, <3>1
  <2> HIDE DEF n
  <2> QED BY <2>1, <2>2
<1>8. NewBytes(h, Here) \in [1 .. BlockLen -> Byte]
  <2>1. Blank \in [1 .. BlockLen -> Byte]
    <3>1. 0 \in Byte
      BY DEF Byte
    <3> QED BY <3>1 DEF Blank
  <2>2. Cached(b, Here.walked).bytes \in [1 .. BlockLen -> Byte]
    BY <1>3, CachedOK
  <2>3. NewBytes(h, Here) = IF n = BlockLen THEN Patched(Blank, h) ELSE Patched(Cached(b, Here.walked).bytes, h)
    BY DEF NewBytes, b
  <2> HIDE DEF n
  <2> QED BY <1>7, <2>1, <2>2, <2>3
<1> QED BY <1>1, <1>2, <1>3, <1>6, <1>8 DEF h, o, b

LEMMA WriteBlockStep == ASSUME IInv, WriteBlock PROVE IInv'
<1> DEFINE f == op.file
           h == handle[f]
           n == ToWrite(h)
           b == BlockAt(h, Here)
           new == NewBytes(h, Here)
<1>1. /\ f \in File /\ h.open /\ h.cluster # NONE /\ ~ Locate(h).ended
      /\ n \in Nat /\ n <= BlockLen - (h.offset % BlockLen) /\ n <= op.todo - op.done
      /\ h.offset + n <= MaxFileSize
      /\ b \in Block /\ new \in [1 .. BlockLen -> Byte]
  BY Writable DEF WriteBlock
<1>2. /\ blocks' = [blocks EXCEPT ![b] = new] /\ cache' = [block |-> b, bytes |-> new]
      /\ handle' = [handle EXCEPT ![f] = Advanced(h, Locate(h), n)]
      /\ op' = [op EXCEPT !.pc = "write", !.done = op.done + n]
      /\ UNCHANGED <<fat, entry, got, ret, damaged, faults>>
  BY DEF WriteBlock, Here
<1>3. /\ OpOK /\ op.pc \in Writes /\ op.pc # "idle" /\ h.offset \in Nat
      /\ blocks \in [Block -> [1 .. BlockLen -> Byte]]
  BY <1>1, FileFacts, Sizes DEF IInv, WriteBlock, Locatable, Writes, HandleRec, TypeOK
<1> HIDE DEF n, b, new
<1>4. /\ FilesOK' /\ handle'[f].offset = h.offset + n /\ handle'[f].cluster = h.cluster /\ handle'[f].open
  BY <1>1, <1>2, Advances
<1>5. BytesOK'
  BY <1>1, <1>2, <1>3 DEF BytesOK, CacheOK
<1>6. OpOK'
  <2>1. /\ op'.pc = "write" /\ op'.file = f /\ op'.todo = op.todo /\ op'.done = op.done + n /\ op'.buffer = op.buffer
        /\ op' \in [pc : Writes \cup {"idle", "read"}, file : File \cup {NoFile}, buffer : Seq(Byte),
                    todo : Nat, done : Nat]
    <3>1. OpType /\ op.done \in Nat
      BY <1>3 DEF OpOK, OpType
    <3>2. op.done + n \in Nat /\ "write" \in Writes
      BY <1>1, <3>1 DEF Writes
    <3> QED BY <1>2, <3>1, <3>2 DEF OpType
  <2>2. op.todo \in Nat /\ op.done \in Nat /\ op.todo <= Len(op.buffer) /\ h.offset + (op.todo - op.done) <= MaxFileSize
    BY <1>3 DEF OpOK, OpType
  <2>3. op.done + n <= op.todo /\ h.offset + n + (op.todo - (op.done + n)) <= MaxFileSize
    BY <1>1, <1>3, <2>2, Sizes
  <2> QED BY <1>1, <1>4, <2>1, <2>2, <2>3 DEF OpOK, OpType, Writes
<1> QED BY <1>2, <1>4, <1>5, <1>6, Counted, Parts

LEMMA WriteBlockFailsStep == ASSUME IInv, WriteBlockFails PROVE IInv'
<1> DEFINE h == handle[op.file]
           b == BlockAt(h, Here)
           new == NewBytes(h, Here)
<1>1. op.file \in File /\ b \in Block /\ new \in [1 .. BlockLen -> Byte]
  BY Writable DEF WriteBlockFails
<1>2. UNCHANGED <<fat, entry, handle>> /\ op' = NoOp /\ MayFault /\ faults' = faults + 1
  BY DEF WriteBlockFails, Fault, Fail, Return
<1>3. \/ cache' = Forgotten /\ UNCHANGED <<blocks, damaged>>
      \/ /\ blocks' \in {blocks, [blocks EXCEPT ![b] = new]}
         /\ cache' = [block |-> b, bytes |-> new]
         /\ damaged' = IF h.offset < h.size THEN damaged \cup {op.file} ELSE damaged
  BY DEF WriteBlockFails
<1>4. damaged \subseteq File /\ blocks \in [Block -> [1 .. BlockLen -> Byte]]
  BY DEF IInv, TypeOK
<1> HIDE DEF b, new, h
<1>5. damaged \subseteq damaged' /\ damaged' \subseteq File
  BY <1>1, <1>3, <1>4
<1>6. FilesOK'
  BY <1>2, <1>5, FilesSame
<1>7. BytesOK'
  <2>1. CASE cache' = Forgotten /\ UNCHANGED <<blocks, damaged>>
    BY <2>1, BytesKept
  <2>2. CASE /\ blocks' \in {blocks, [blocks EXCEPT ![b] = new]}
             /\ cache' = [block |-> b, bytes |-> new]
    BY <1>1, <1>4, <2>2 DEF BytesOK, CacheOK
  <2> QED BY <1>3, <2>1, <2>2
<1> QED BY <1>2, <1>6, <1>7, NothingToDo, Counted, Parts

LEMMA EndWriteStep == ASSUME IInv, EndWrite PROVE IInv'
<1>1. /\ UNCHANGED <<fat, blocks, cache, entry, handle, damaged, faults>> /\ op' = NoOp
      /\ damaged \subseteq File
  BY DEF EndWrite, Done, Return, IInv, TypeOK
<1> QED BY <1>1, FilesSame, BytesKept, NothingToDo, Counted, Parts

-----------------------------------------------------------------------------
(* Reading, seeking, flushing *)

LEMMA StartReadStep == ASSUME IInv, NEW f \in File, NEW size \in ReadSizes, StartRead(f, size) PROVE IInv'
<1>1. /\ UNCHANGED <<fat, blocks, cache, entry, handle, damaged, faults>> /\ handle[f].open
      /\ op' = [pc |-> "read", file |-> f, buffer |-> << >>, todo |-> size, done |-> 0]
      /\ damaged \subseteq File
  BY DEF StartRead, IInv, TypeOK
<1>2. size \in Nat /\ << >> \in Seq(Byte)
  BY SizeAssumption
<1>3. OpOK'
  BY <1>1, <1>2 DEF OpOK, OpType, Writes
<1> QED BY <1>1, <1>3, FilesSame, BytesKept, Counted, Parts

LEMMA ReadBlockStep == ASSUME IInv, ReadBlock PROVE IInv'
<1> DEFINE f == op.file
           h == handle[f]
           o == h.offset % BlockLen
           n == Smaller(Smaller(BlockLen - o, op.todo - op.done), h.size - h.offset)
<1>1. /\ OpOK /\ op.pc = "read" /\ op.done < op.todo /\ h.offset # h.size
      /\ UNCHANGED <<fat, blocks, entry, damaged>> /\ damaged \subseteq File
      /\ handle \in [File -> HandleRec]
  BY DEF ReadBlock, Progress, AtEnd, IInv, TypeOK, HandleType, HandleRec
<1>2. f \in File /\ h.open /\ OpType
  BY <1>1 DEF OpOK
<1>3. h \in HandleRec /\ HandleOK(fat, h)
  BY <1>2, FileFacts
<1>4. /\ h.offset \in Nat /\ h.size \in 0 .. MaxFileSize /\ h.offset < h.size /\ MaxFileSize \in Nat
      /\ h.cluster # NONE
  BY <1>1, <1>3, Sizes DEF HandleRec, HandleOK
<1>5. CASE /\ ~ Here.ended
           /\ cache' = Cached(BlockAt(h, Here), Here.walked)
           /\ handle' = [handle EXCEPT ![f] = Advanced(h, Here, n)]
           /\ op' = [op EXCEPT !.done = @ + n]
           /\ UNCHANGED <<ret, faults>>
  <2>1. Here = Locate(h) /\ ~ Locate(h).ended
    BY <1>5 DEF Here
  <2>2. BlockAt(h, Here) \in Block /\ o \in 0 .. BlockLen - 1
    BY <1>2, <1>4, <2>1, Placed
  <2>3. op.todo \in Nat /\ op.done \in Nat /\ BlockLen \in Nat
    BY <1>2, Sizes DEF OpType
  <2>4. n \in Nat /\ n <= BlockLen - o /\ n <= op.todo - op.done /\ h.offset + n <= MaxFileSize
    <3> HIDE DEF h, o
    <3> QED BY <1>1, <1>4, <2>2, <2>3 DEF Smaller
  <2> HIDE DEF n
  <2>5. FilesOK' /\ handle'[f].open = h.open
    BY <1>1, <1>2, <1>4, <1>5, <2>1, <2>4, Advances
  <2>6. BytesOK'
    <3>1. cache' \in [block : Block \cup {NoBlock}, bytes : [1 .. BlockLen -> Byte]]
      BY <1>5, <2>2, CachedOK
    <3> QED BY <1>1, <3>1 DEF BytesOK, CacheOK, IInv, TypeOK
  <2>7. OpOK'
    <3>1. op.done + n \in Nat /\ op.done + n <= op.todo
      BY <1>1, <2>3, <2>4
    <3>2. /\ op'.pc = "read" /\ op'.file = f /\ op'.todo = op.todo /\ op'.done = op.done + n
          /\ op' \in [pc : Writes \cup {"idle", "read"}, file : File \cup {NoFile}, buffer : Seq(Byte),
                      todo : Nat, done : Nat]
      BY <1>1, <1>2, <1>5, <3>1 DEF OpType
    <3> QED BY <1>2, <2>5, <3>1, <3>2 DEF OpOK, OpType, Writes
  <2> QED BY <1>5, <2>5, <2>6, <2>7, Counted, Parts
<1>6. ASSUME UNCHANGED handle \/ (~ Here.ended /\ handle' = [handle EXCEPT ![f].at = Here.at]) PROVE FilesOK'
  <2>1. CASE UNCHANGED handle
    BY <1>1, <2>1, FilesSame
  <2>2. CASE ~ Here.ended /\ handle' = [handle EXCEPT ![f].at = Here.at]
    <3>1. Here = Locate(h) /\ ~ Locate(h).ended
      BY <2>2 DEF Here
    <3>2. o \in 0 .. BlockLen - 1
      BY <1>2, <1>4, <3>1, Placed
    <3>3. 0 <= BlockLen - o /\ h.offset + 0 <= MaxFileSize
      BY <1>4, <3>2, Sizes
    <3>4. Advanced(h, Here, 0) = [h EXCEPT !.at = Here.at]
      <4>1. h.offset + 0 = h.offset /\ ~ (h.offset > h.size)
        BY <1>4
      <4>2. Advanced(h, Here, 0) = [h EXCEPT !.at = Here.at, !.offset = h.offset, !.size = h.size]
        BY <4>1 DEF Advanced
      <4> HIDE DEF h
      <4> QED BY <1>3, <4>2 DEF HandleRec
    <3>5. handle' = [handle EXCEPT ![f] = Advanced(h, Locate(h), 0)]
      BY <2>2, <3>1, <3>4
    <3> HIDE DEF h
    <3> QED BY <1>1, <1>2, <1>4, <3>1, <3>3, <3>5, Advances DEF h
  <2> QED BY <1>6, <2>1, <2>2
<1>7. CASE /\ Here.ended
           /\ Fail
           /\ cache' = Forgotten
           /\ UNCHANGED <<handle, faults>>
  BY <1>1, <1>6, <1>7, BytesKept, NothingToDo, Counted, Parts DEF Fail, Return
<1>8. CASE /\ Fault
           /\ cache' = Forgotten
           /\ \/ UNCHANGED handle
              \/ ~ Here.ended /\ handle' = [handle EXCEPT ![f].at = Here.at]
  <2>1. FilesOK'
    BY <1>6, <1>8
  <2> QED BY <1>1, <1>8, <2>1, BytesKept, NothingToDo, Counted, Parts DEF Fault, Fail, Return
<1> QED BY <1>5, <1>7, <1>8 DEF ReadBlock

LEMMA EndReadStep == ASSUME IInv, EndRead PROVE IInv'
<1>1. /\ UNCHANGED <<fat, blocks, cache, entry, handle, damaged, faults>> /\ op' = NoOp
      /\ damaged \subseteq File
  BY DEF EndRead, Done, Return, IInv, TypeOK
<1> QED BY <1>1, FilesSame, BytesKept, NothingToDo, Counted, Parts

LEMMA SeekStep == ASSUME IInv, NEW f \in File, NEW offset \in Int, Seek(f, offset) PROVE IInv'
<1>1. /\ UNCHANGED <<fat, blocks, cache, entry, damaged, faults>> /\ op' = NoOp /\ handle[f].open
      /\ damaged \subseteq File
  BY DEF Seek, Done, Fail, Return, IInv, TypeOK
<1>2. FilesOK'
  <2>1. CASE UNCHANGED handle
    BY <1>1, <2>1, FilesSame
  <2>2. CASE offset \in 0 .. handle[f].size /\ handle' = [handle EXCEPT ![f].offset = offset]
    <3> DEFINE h == [handle[f] EXCEPT !.offset = offset]
    <3>1. /\ handle[f] \in HandleRec /\ HandleOK(fat, handle[f])
          /\ f \notin damaged => Covered(fat, handle[f].cluster, handle[f].size)
      BY FileFacts DEF IInv, Covers
    <3>2. offset \in 0 .. MaxFileSize /\ offset <= handle[f].size
      BY <2>2, <3>1, Sizes DEF HandleRec
    <3>3. /\ h \in HandleRec /\ h.open = handle[f].open /\ h.cluster = handle[f].cluster
          /\ h.size = handle[f].size /\ h.offset = offset /\ h.at = handle[f].at
      BY <3>1, <3>2 DEF HandleRec
    <3>4. handle' = [handle EXCEPT ![f] = h]
      BY <2>2
    <3> HIDE DEF h
    <3>5. HandleOK(fat, h)
      <4>1. h.cluster # NONE => Remembers(fat, h)
        BY <3>1, <3>3 DEF HandleOK, Remembers
      <4> QED BY <1>1, <3>1, <3>2, <3>3, <4>1 DEF HandleOK
    <3>6. /\ h.cluster \in {handle[f].cluster, entry[f].cluster, NONE}
          /\ f \notin damaged' => Covered(fat, h.cluster, h.size)
      BY <1>1, <3>1, <3>3
    <3> QED BY <1>1, <3>3, <3>4, <3>5, <3>6, OneHandle
  <2> QED BY <2>1, <2>2 DEF Seek
<1> QED BY <1>1, <1>2, BytesKept, NothingToDo, Counted, Parts

\* Handles close, or their clusters and sizes are written to the entries.
LEMMA Written ==
  ASSUME IInv, UNCHANGED fat, damaged \subseteq damaged', damaged' \subseteq File,
         handle' \in [File -> HandleRec], \A g \in File : handle'[g] \in {handle[g], Closed},
         entry' \in [File -> [cluster : Cluster \cup {NONE}, size : 0 .. MaxFileSize]],
         \A g \in File : entry'[g] \in {entry[g], [cluster |-> handle[g].cluster, size |-> handle[g].size]}
  PROVE  FilesOK'
<1>1. Chains /\ Handles /\ Entries /\ Covers /\ fat \in [Cluster -> Cluster \cup {EMPTY, END_OF_FILE}]
  BY DEF IInv, TypeOK
<1>2. Closed.cluster = NONE /\ Closed.size = 0
  BY DEF Closed
<1>3. ASSUME NEW g \in File
      PROVE  /\ handle'[g].cluster \in {NONE, handle[g].cluster}
             /\ entry'[g].cluster \in {entry[g].cluster, handle[g].cluster}
  BY <1>2
<1>4. \A g \in File : Starts(g)' \subseteq Starts(g)
  BY <1>3 DEF Starts
<1>5. AllStarts' \subseteq AllStarts
  BY <1>4 DEF AllStarts
<1>6. Chains'
  <2>1. SoundFat(fat, AllStarts')
    BY <1>1, <1>5 DEF Chains, SoundFat
  <2> QED BY <1>1, <1>4, <2>1 DEF Chains
<1>7. Handles'
  <2>1. HandleOK(fat, Closed)
    BY DEF HandleOK, Closed
  <2> QED BY <1>1, <2>1 DEF Handles
<1>8. Entries'
  <2>1. \A g \in File : handle[g].cluster = NONE => handle[g].size = 0
    BY <1>1 DEF Handles, HandleOK
  <2> QED BY <1>1, <2>1 DEF Entries
<1>9. Covers'
  <2>1. \A c : Covered(fat, c, 0)
    BY DEF Covered
  <2> QED BY <1>1, <1>2, <2>1 DEF Covers
<1> QED BY <1>1, <1>6, <1>7, <1>8, <1>9 DEF FilesOK

LEMMA FlushStep == ASSUME IInv, NEW f \in File, NEW closing \in BOOLEAN, Flush(f, closing) PROVE IInv'
<1>1. /\ damaged \subseteq File /\ handle \in [File -> HandleRec]
      /\ entry \in [File -> [cluster : Cluster \cup {NONE}, size : 0 .. MaxFileSize]]
  BY DEF IInv, TypeOK, HandleType, HandleRec
<1>2. /\ UNCHANGED <<fat, blocks>> /\ cache' \in {cache, Forgotten} /\ op' = NoOp
      /\ UNCHANGED faults \/ (MayFault /\ faults' = faults + 1)
      /\ entry' \in {entry, Saved(f)}
  BY DEF Flush, Done, Fault, Fail, Return
<1>3. damaged \subseteq damaged' /\ damaged' \subseteq File
  BY <1>1 DEF Flush
<1>4. /\ entry' \in [File -> [cluster : Cluster \cup {NONE}, size : 0 .. MaxFileSize]]
      /\ \A g \in File : entry'[g] \in {entry[g], [cluster |-> handle[g].cluster, size |-> handle[g].size]}
  BY <1>1, <1>2 DEF Saved, HandleRec
<1>5. handle' \in [File -> HandleRec] /\ \A g \in File : handle'[g] \in {handle[g], Closed}
  <2>1. Closed \in HandleRec
    BY Sizes DEF Closed, HandleRec
  <2>2. handle' = handle \/ handle' = [handle EXCEPT ![f] = Closed]
    BY DEF Flush
  <2> QED BY <1>1, <2>1, <2>2
<1>6. FilesOK'
  BY <1>2, <1>3, <1>4, <1>5, Written
<1> QED BY <1>2, <1>6, BytesKept, NothingToDo, Counted, Parts

LEMMA PowerLossStep == ASSUME IInv, PowerLoss PROVE IInv'
<1>1. /\ UNCHANGED <<fat, blocks, entry>> /\ cache' = Forgotten /\ op' = NoOp
      /\ MayFault /\ faults' = faults + 1 /\ damaged \subseteq damaged' /\ damaged' \subseteq File
      /\ handle' = [f \in File |-> Closed]
      /\ entry \in [File -> [cluster : Cluster \cup {NONE}, size : 0 .. MaxFileSize]]
  BY DEF PowerLoss, IInv, TypeOK
<1>2. Closed \in HandleRec
  BY Sizes DEF Closed, HandleRec
<1>3. FilesOK'
  BY <1>1, <1>2, Written
<1> QED BY <1>1, <1>3, BytesKept, NothingToDo, Counted, Parts

-----------------------------------------------------------------------------
(* The volume as it is opened *)

\* Cluster i of the chain of f.
InChain(f, i, c) == f \in File /\ i \in DOMAIN InitialChain[f] /\ InitialChain[f][i] = c

LEMMA InitialFacts ==
  ASSUME NEW f \in File
  PROVE  /\ InitialChain[f] \in Seq(Cluster) /\ InitialContent[f] \in Seq(Byte)
         /\ Len(InitialChain[f]) \in Nat /\ Len(InitialContent[f]) \in Nat
         /\ DOMAIN InitialChain[f] = 1 .. Len(InitialChain[f])
         /\ Len(InitialContent[f]) <= MaxFileSize
         /\ Len(InitialContent[f]) <= Len(InitialChain[f]) * BytesPerCluster
<1>1. /\ InitialChain[f] \in Seq(Cluster) /\ InitialContent[f] \in Seq(Byte)
      /\ Len(InitialContent[f]) <= Smaller(MaxFileSize, Len(InitialChain[f]) * BytesPerCluster)
  BY ContentAssumption
<1>2. Len(InitialChain[f]) \in Nat /\ Len(InitialContent[f]) \in Nat /\ DOMAIN InitialChain[f] = 1 .. Len(InitialChain[f])
  BY <1>1
<1> DEFINE x == Len(InitialChain[f]) * BytesPerCluster
           size == Len(InitialContent[f])
<1>3. x \in Nat
  <2>1. \A a, b \in Nat : a * b \in Nat
    OBVIOUS
  <2> QED BY <1>2, <2>1, Sizes
<1>4. size <= Smaller(MaxFileSize, x) /\ size \in Nat
  BY <1>1, <1>2
<1> HIDE DEF x, size
<1>5. size <= MaxFileSize /\ size <= x
  BY <1>3, <1>4, Sizes DEF Smaller
<1> QED BY <1>1, <1>2, <1>5 DEF x, size

LEMMA OnlyOnce ==
  ASSUME NEW f, NEW g, NEW i, NEW j, NEW c, InChain(f, i, c), InChain(g, j, c)
  PROVE  f = g /\ i = j
BY ContentAssumption DEF InChain

LEMMA InChainFacts ==
  ASSUME NEW f, NEW i, NEW c, InChain(f, i, c)
  PROVE  /\ c \in Cluster /\ i \in Nat \ {0} /\ i <= Len(InitialChain[f]) /\ Len(InitialChain[f]) \in Nat
         /\ i # Len(InitialChain[f]) => InChain(f, i + 1, InitialChain[f][i + 1])
<1>1. /\ InitialChain[f] \in Seq(Cluster) /\ Len(InitialChain[f]) \in Nat
      /\ i \in 1 .. Len(InitialChain[f]) /\ DOMAIN InitialChain[f] = 1 .. Len(InitialChain[f])
  BY InitialFacts DEF InChain
<1>2. c \in Cluster
  BY <1>1 DEF InChain
<1>3. i # Len(InitialChain[f]) => i + 1 \in 1 .. Len(InitialChain[f])
  BY <1>1
<1> QED BY <1>1, <1>2, <1>3 DEF InChain

\* The FAT holds the chains.
LEMMA InitialLinks ==
  ASSUME Init
  PROVE  /\ fat \in Fats
         /\ \A f, i, c : InChain(f, i, c) =>
              fat[c] = IF i = Len(InitialChain[f]) THEN END_OF_FILE ELSE InitialChain[f][i + 1]
         /\ \A c \in Cluster : fat[c] # EMPTY => \E f, i : InChain(f, i, c)
<1>1. fat = [c \in Cluster |->
              IF \E f \in File : \E i \in DOMAIN InitialChain[f] : InitialChain[f][i] = c
              THEN Links(c) ELSE EMPTY]
  BY DEF Init
<1>2. ASSUME NEW f, NEW i, NEW c, InChain(f, i, c)
      PROVE  Links(c) = IF i = Len(InitialChain[f]) THEN END_OF_FILE ELSE InitialChain[f][i + 1]
  <2> DEFINE g == CHOOSE x \in File : \E y \in DOMAIN InitialChain[x] : InitialChain[x][y] = c
             j == CHOOSE y \in DOMAIN InitialChain[g] : InitialChain[g][y] = c
  <2>1. Links(c) = IF j = Len(InitialChain[g]) THEN END_OF_FILE ELSE InitialChain[g][j + 1]
    BY DEF Links
  <2>2. g \in File /\ \E y \in DOMAIN InitialChain[g] : InitialChain[g][y] = c
    <3>1. \E x \in File : \E y \in DOMAIN InitialChain[x] : InitialChain[x][y] = c
      BY <1>2 DEF InChain
    <3> QED BY <3>1
  <2>3. j \in DOMAIN InitialChain[g] /\ InitialChain[g][j] = c
    BY <2>2
  <2> HIDE DEF g, j
  <2>4. InChain(g, j, c)
    BY <2>2, <2>3 DEF InChain
  <2>5. g = f /\ j = i
    BY <1>2, <2>4, OnlyOnce
  <2> QED BY <2>1, <2>5
<1>3. ASSUME NEW f, NEW i, NEW c, InChain(f, i, c)
      PROVE  /\ fat[c] = IF i = Len(InitialChain[f]) THEN END_OF_FILE ELSE InitialChain[f][i + 1]
             /\ fat[c] \in Node
  <2>1. c \in Cluster /\ fat[c] = Links(c)
    BY <1>1, <1>3, InChainFacts DEF InChain
  <2>2. i # Len(InitialChain[f]) => InitialChain[f][i + 1] \in Cluster
    BY <1>3, InChainFacts
  <2> QED BY <1>2, <1>3, <2>1, <2>2 DEF Node
<1>4. \A c \in Cluster : (\E f, i : InChain(f, i, c)) \/ fat[c] = EMPTY
  BY <1>1 DEF InChain
<1>5. fat \in Fats
  <2>1. \A c \in Cluster : fat[c] \in Node
    BY <1>3, <1>4 DEF Node
  <2>2. fat = [c \in Cluster |-> fat[c]]
    BY <1>1
  <2> QED BY <2>1, <2>2 DEF Fats
<1> QED BY <1>3, <1>4, <1>5

LEMMA InitialSound ==
  ASSUME Init
  PROVE  SoundFat(fat, {c \in Cluster : \E f : InChain(f, 1, c)})
<1>1. ASSUME NEW a \in Linked(fat)
      PROVE  \E f, i : InChain(f, i, a) /\ i \in Nat \ {0} /\ InChain(f, i + 1, fat[a])
  <2>1. a \in Cluster /\ fat[a] \in Cluster
    BY DEF Linked
  <2>2. PICK f, i : InChain(f, i, a)
    BY <2>1, InitialLinks, ClusterFacts
  <2>3. fat[a] = IF i = Len(InitialChain[f]) THEN END_OF_FILE ELSE InitialChain[f][i + 1]
    BY <2>2, InitialLinks
  <2> QED BY <2>1, <2>2, <2>3, InChainFacts, ClusterFacts
<1>2. \A f, i, c : InChain(f, i, c) => fat[c] # EMPTY
  BY InitialLinks, InChainFacts, ClusterFacts
<1>3. Injective(fat)
  <2>1. ASSUME NEW a \in Linked(fat), NEW b \in Linked(fat), fat[a] = fat[b] PROVE a = b
    <3>1. PICK f, i : InChain(f, i, a) /\ i \in Nat \ {0} /\ InChain(f, i + 1, fat[a])
      BY <1>1
    <3>2. PICK g, j : InChain(g, j, b) /\ j \in Nat \ {0} /\ InChain(g, j + 1, fat[b])
      BY <1>1
    <3>3. f = g /\ i + 1 = j + 1
      BY <2>1, <3>1, <3>2, OnlyOnce
    <3>4. i = j
      BY <3>1, <3>2, <3>3
    <3> QED BY <3>1, <3>2, <3>3, <3>4 DEF InChain
  <2> QED BY <2>1 DEF Injective
<1>4. NoDangling(fat)
  BY <1>1, <1>2 DEF NoDangling
<1>5. ASSUME NEW c \in Cluster, NEW f, InChain(f, 1, c) PROVE Unlinked(fat, c)
  <2>1. ASSUME NEW a \in Linked(fat), fat[a] = c PROVE FALSE
    <3>1. PICK g, i : InChain(g, i, a) /\ i \in Nat \ {0} /\ InChain(g, i + 1, fat[a])
      BY <1>1
    <3>2. 1 = i + 1
      BY <1>5, <2>1, <3>1, OnlyOnce
    <3> QED BY <3>1, <3>2
  <2> QED BY <2>1 DEF Unlinked
<1> QED BY <1>2, <1>3, <1>4, <1>5, InitialLinks DEF SoundFat

\* Walks follow the chains.
LEMMA InitialWalks ==
  ASSUME Init, NEW f \in File, NEW n \in 0 .. Len(InitialChain[f]) - 1
  PROVE  Walk(fat, InitialChain[f][1], n) = InitialChain[f][n + 1]
<1> DEFINE c == InitialChain[f][1]
           S == {i \in 0 .. n : Walk(fat, c, i) = InitialChain[f][i + 1]}
<1>1. /\ Len(InitialChain[f]) \in Nat /\ n \in Nat /\ fat \in Fats
      /\ \A i \in 0 .. n : InChain(f, i + 1, InitialChain[f][i + 1])
  BY InitialFacts, InitialLinks DEF InChain
<1>2. c \in Node
  <2>1. InChain(f, 1, c)
    BY <1>1
  <2> QED BY <2>1, InChainFacts DEF Node
<1>3. 0 \in S
  BY <1>1, <1>2, WalkDef
<1>4. ASSUME NEW i \in 1 .. n, i - 1 \in S PROVE i \in S
  <2>1. i - 1 \in Nat /\ (i - 1) + 1 = i /\ i \in 0 .. n /\ i - 1 \in 0 .. n
    OBVIOUS
  <2>2. InChain(f, i, InitialChain[f][i]) /\ i # Len(InitialChain[f])
    BY <1>1, <2>1
  <2>3. Walk(fat, c, i - 1) = InitialChain[f][i] /\ InitialChain[f][i] \in Cluster
    BY <1>4, <2>1, <2>2, InChainFacts
  <2>4. Walk(fat, c, i) = fat[InitialChain[f][i]]
    BY <1>1, <1>2, <2>1, <2>3, Ahead
  <2>5. fat[InitialChain[f][i]] = InitialChain[f][i + 1]
    BY <2>2, InitialLinks
  <2> QED BY <2>1, <2>4, <2>5
<1> HIDE DEF S
<1>5. 0 .. n \subseteq S
  BY <1>1, <1>3, <1>4, BoundedInduction
<1>6. n \in S
  BY <1>1, <1>5
<1> QED BY <1>6 DEF S

\* The cluster of a byte of the content is one of the chain.
LEMMA InitialPlace ==
  ASSUME NEW f \in File, NEW i \in 0 .. Len(InitialContent[f]) - 1
  PROVE  i \div BytesPerCluster \in 0 .. Len(InitialChain[f]) - 1
<1> DEFINE B == BytesPerCluster
           L == Len(InitialChain[f])
           q == i \div B
<1>1. B \in Nat \ {0} /\ L \in Nat /\ i \in Nat /\ i < L * B /\ L * B \in Nat
  <2>1. B \in Nat \ {0} /\ L \in Nat /\ Len(InitialContent[f]) \in Nat /\ Len(InitialContent[f]) <= L * B
    BY InitialFacts, Sizes
  <2>2. L * B \in Nat
    BY <2>1
  <2> HIDE DEF L, B
  <2> QED BY <2>1, <2>2
<1> HIDE DEF B, L
<1>2. q \in Nat /\ (i % B) \in 0 .. B - 1 /\ B * q + (i % B) = i
  BY <1>1, Quotient
<1> HIDE DEF q
<1>3. CASE L <= q
  <2>1. B * L <= B * q
    BY <1>1, <1>2, <1>3
  <2>2. B * L = L * B /\ B * q \in Int
    BY <1>1, <1>2
  <2> QED BY <1>1, <1>2, <2>1, <2>2
<1>4. CASE q < L
  BY <1>1, <1>2, <1>4 DEF q, B, L
<1> QED BY <1>1, <1>2, <1>3, <1>4

LEMMA InitialBlocks == ASSUME Init PROVE blocks \in [Block -> [1 .. BlockLen -> Byte]]
<1> DEFINE Has(b, k) == \E f \in File : \E i \in DOMAIN InitialContent[f] :
             /\ InitialChain[f][1 + (i - 1) \div BytesPerCluster] = b[1]
             /\ (i - 1) % BytesPerCluster = b[2] * BlockLen + k - 1
           F(b) == CHOOSE g \in File : \E j \in DOMAIN InitialChain[g] : InitialChain[g][j] = b[1]
           J(b) == CHOOSE i \in DOMAIN InitialChain[F(b)] : InitialChain[F(b)][i] = b[1]
           At(b, k) == InitialContent[F(b)][(J(b) - 1) * BytesPerCluster + b[2] * BlockLen + k]
<1>1. blocks = [b \in Block |-> [k \in 1 .. BlockLen |-> IF Has(b, k) THEN At(b, k) ELSE 0]]
  BY DEF Init
<1>2. ASSUME NEW b \in Block, NEW k \in 1 .. BlockLen, Has(b, k) PROVE At(b, k) \in Byte
  <2>0. PICK f \in File : \E i \in DOMAIN InitialContent[f] :
             /\ InitialChain[f][1 + (i - 1) \div BytesPerCluster] = b[1]
             /\ (i - 1) % BytesPerCluster = b[2] * BlockLen + k - 1
    BY <1>2
  <2>1. PICK i \in DOMAIN InitialContent[f] :
             /\ InitialChain[f][1 + (i - 1) \div BytesPerCluster] = b[1]
             /\ (i - 1) % BytesPerCluster = b[2] * BlockLen + k - 1
    BY <2>0
  <2> DEFINE x == i - 1
             q == x \div BytesPerCluster
  <2>2. x \in 0 .. Len(InitialContent[f]) - 1 /\ x \in Nat /\ i = x + 1 /\ i \in 1 .. Len(InitialContent[f])
    BY InitialFacts
  <2>3. q \in 0 .. Len(InitialChain[f]) - 1 /\ Len(InitialChain[f]) \in Nat
    BY <2>2, InitialPlace, InitialFacts
  <2>4. BytesPerCluster * q + (x % BytesPerCluster) = x /\ BytesPerCluster \in Nat
    <3> HIDE DEF x
    <3> QED BY <2>2, Quotient, Sizes
  <2>5. (x % BytesPerCluster) = b[2] * BlockLen + k - 1
    BY <2>1
  <2>6. InChain(f, q + 1, b[1])
    <3>1. q + 1 \in 1 .. Len(InitialChain[f]) /\ 1 + q = q + 1
      BY <2>3
    <3>2. InitialChain[f][1 + q] = b[1]
      BY <2>1
    <3> HIDE DEF q
    <3> QED BY <3>1, <3>2, InitialFacts DEF InChain
  <2>7. F(b) \in File /\ \E j \in DOMAIN InitialChain[F(b)] : InitialChain[F(b)][j] = b[1]
    <3>1. \E g \in File : \E j \in DOMAIN InitialChain[g] : InitialChain[g][j] = b[1]
      BY <2>6 DEF InChain
    <3> QED BY <3>1
  <2>8. InChain(F(b), J(b), b[1])
    <3>1. J(b) \in DOMAIN InitialChain[F(b)] /\ InitialChain[F(b)][J(b)] = b[1]
      BY <2>7
    <3> QED BY <2>7, <3>1 DEF InChain
  <2> HIDE DEF F, J
  <2>9. F(b) = f /\ J(b) = q + 1
    BY <2>6, <2>8, OnlyOnce
  <2>10. (J(b) - 1) * BytesPerCluster + b[2] * BlockLen + k = i
    <3>1. b[2] \in Int /\ BlockLen \in Int
      BY Sizes DEF Block
    <3>2. b[2] * BlockLen \in Int /\ BytesPerCluster * q \in Int /\ q \in Int
      BY <2>3, <2>4, <3>1
    <3>3. (J(b) - 1) * BytesPerCluster = BytesPerCluster * q
      BY <2>4, <2>9, <3>2
    <3> DEFINE y == BytesPerCluster * q
               z == b[2] * BlockLen
               r == x % BytesPerCluster
    <3>4. /\ y \in Int /\ z \in Int /\ y + r = x /\ r = z + k - 1 /\ i = x + 1 /\ x \in Int /\ k \in Int
          /\ (J(b) - 1) * BytesPerCluster = y
      BY <2>2, <2>4, <2>5, <3>2, <3>3
    <3> HIDE DEF q, x, y, r
    <3>5. r \in Int
      BY <3>4
    <3>6. y + z + k = i
      <4> HIDE DEF z
      <4> QED BY <3>4, <3>5
    <3> QED BY <3>4, <3>6
  <2> QED BY <2>2, <2>9, <2>10, InitialFacts
<1> HIDE DEF Has, At
<1>3. 0 \in Byte
  BY DEF Byte
<1> QED BY <1>1, <1>2, <1>3

LEMMA InitLemma == ASSUME Init PROVE IInv
<1>1. /\ cache = Forgotten /\ handle = [f \in File |-> Closed] /\ op = NoOp /\ damaged = {} /\ faults = 0
      /\ entry = [f \in File |-> [cluster |-> IF InitialChain[f] = << >> THEN NONE ELSE InitialChain[f][1],
                                  size |-> Len(InitialContent[f])]]
  BY DEF Init
<1>2. ASSUME NEW f \in File
      PROVE  /\ handle[f] = Closed
             /\ InitialChain[f] = << >> => entry[f].cluster = NONE /\ entry[f].size = 0
             /\ InitialChain[f] # << >> =>
                  /\ entry[f].cluster = InitialChain[f][1] /\ InChain(f, 1, entry[f].cluster)
                  /\ entry[f].cluster \in Cluster
             /\ entry[f].size = Len(InitialContent[f]) /\ entry[f].size \in 0 .. MaxFileSize
             /\ entry[f] \in [cluster : Cluster \cup {NONE}, size : 0 .. MaxFileSize]
  <2>1. /\ handle[f] = Closed
        /\ entry[f] = [cluster |-> IF InitialChain[f] = << >> THEN NONE ELSE InitialChain[f][1],
                       size |-> Len(InitialContent[f])]
    BY <1>1
  <2>2. Len(InitialContent[f]) \in 0 .. MaxFileSize /\ InitialChain[f] \in Seq(Cluster)
    <3>1. /\ Len(InitialContent[f]) \in Nat /\ Len(InitialContent[f]) <= MaxFileSize
          /\ InitialChain[f] \in Seq(Cluster)
      BY InitialFacts
    <3> QED BY <3>1, Sizes
  <2>3. CASE InitialChain[f] = << >>
    <3>1. Len(InitialContent[f]) = 0
      <4>1. Len(InitialChain[f]) = 0 /\ 0 * BytesPerCluster = 0
        BY <2>3, Sizes
      <4>2. Len(InitialContent[f]) <= 0 /\ Len(InitialContent[f]) \in Nat
        BY <4>1, InitialFacts
      <4> QED BY <4>2
    <3> QED BY <2>1, <2>2, <2>3, <3>1
  <2>4. CASE InitialChain[f] # << >>
    <3>1. 1 \in DOMAIN InitialChain[f] /\ InitialChain[f][1] \in Cluster
      BY <2>2, <2>4
    <3> QED BY <2>1, <2>2, <2>4, <3>1 DEF InChain
  <2> QED BY <2>3, <2>4
<1>3. Closed \in HandleRec /\ Closed.cluster = NONE /\ Closed.size = 0 /\ HandleOK(fat, Closed)
  BY Sizes DEF Closed, HandleRec, HandleOK
<1>4. \A f \in File : Starts(f) \subseteq {c \in Cluster : InChain(f, 1, c)}
  BY <1>2, <1>3 DEF Starts
<1>5. Chains
  <2>1. AllStarts \subseteq {c \in Cluster : \E f : InChain(f, 1, c)}
    BY <1>4 DEF AllStarts
  <2>2. SoundFat(fat, AllStarts)
    BY <2>1, InitialSound DEF SoundFat
  <2>3. \A f, g \in File : f # g => Starts(f) \cap Starts(g) = {}
    BY <1>4, OnlyOnce
  <2> QED BY <2>2, <2>3 DEF Chains
<1>6. Covers
  <2>1. ASSUME NEW f \in File PROVE Covered(fat, entry[f].cluster, entry[f].size)
    <3>1. CASE InitialChain[f] = << >>
      <4>1. \A c : Covered(fat, c, 0)
        BY DEF Covered
      <4> QED BY <1>2, <3>1, <4>1
    <3>2. CASE InitialChain[f] # << >>
      <4>1. ASSUME NEW i \in 0 .. Len(InitialContent[f]) - 1
            PROVE  Walk(fat, InitialChain[f][1], i \div BytesPerCluster) \in Cluster
        <5> DEFINE n == i \div BytesPerCluster
        <5>1. n \in 0 .. Len(InitialChain[f]) - 1
          BY InitialPlace
        <5>2. Walk(fat, InitialChain[f][1], n) = InitialChain[f][n + 1]
          BY <5>1, InitialWalks
        <5> HIDE DEF n
        <5>3. n + 1 \in 1 .. Len(InitialChain[f])
          BY <5>1, InitialFacts
        <5> QED BY <5>2, <5>3, InitialFacts DEF n
      <4> QED BY <1>2, <3>2, <4>1 DEF Covered
    <3> QED BY <3>1, <3>2
  <2>2. \A c : Covered(fat, c, 0)
    BY DEF Covered
  <2> QED BY <1>2, <1>3, <2>1, <2>2 DEF Covers
<1>7. Handles /\ Entries
  BY <1>2, <1>3, ClusterFacts DEF Handles, Entries
<1>8. CacheOK
  <2>1. 0 \in Byte
    BY DEF Byte
  <2> QED BY <1>1, <2>1 DEF CacheOK, Forgotten, Blank
<1>9. OpOK
  <2>1. << >> \in Seq(Byte)
    OBVIOUS
  <2> QED BY <1>1, <2>1 DEF NoOp, OpOK, OpType, Writes
<1>10. TypeOK
  <2>1. entry \in [File -> [cluster : Cluster \cup {NONE}, size : 0 .. MaxFileSize]]
    BY <1>1, <1>2
  <2>2. handle \in [File -> HandleRec] /\ \A f \in File : handle[f].offset <= handle[f].size
    BY <1>1, <1>3 DEF Closed
  <2>3. cache.block \in Block \cup {NoBlock} /\ faults \in 0 .. MaxFaults /\ damaged \subseteq File
    BY <1>1, SizeAssumption DEF Forgotten
  <2>4. fat \in [Cluster -> Cluster \cup {EMPTY, END_OF_FILE}]
    BY InitialLinks DEF Fats, Node
  <2> QED BY <2>1, <2>2, <2>3, <2>4, InitialBlocks DEF TypeOK, HandleType, HandleRec
<1> QED BY <1>5, <1>6, <1>7, <1>8, <1>9, <1>10 DEF IInv

-----------------------------------------------------------------------------
(* Theorems *)

LEMMA StepLemma == ASSUME IInv, [Next]_vars PROVE IInv'
<1>1. CASE Advance
  BY <1>1, AllocFirstStep, ExtendStep, ExtendedTooLittleStep, WriteBlockStep, WriteBlockFailsStep,
     EndWriteStep, ReadBlockStep, EndReadStep DEF Advance
<1>2. CASE Call
  <2>1. PICK f \in File :
          \/ \E append \in BOOLEAN : Open(f, append)
          \/ OpenTruncate(f) \/ OpenTruncateFails(f)
          \/ \E buffer \in Buffers : StartWrite(f, buffer)
          \/ \E size \in ReadSizes : StartRead(f, size)
          \/ \E offset \in -1 .. MaxFileSize + 1 : Seek(f, offset)
          \/ \E closing \in BOOLEAN : Flush(f, closing)
    BY <1>2 DEF Call
  <2>2. \A offset \in -1 .. MaxFileSize + 1 : offset \in Int
    OBVIOUS
  <2> QED BY <2>1, <2>2, OpenStep, OpenTruncateStep, OpenTruncateFailsStep, StartWriteStep, StartReadStep,
             SeekStep, FlushStep
<1>3. CASE PowerLoss
  BY <1>3, PowerLossStep
<1>4. CASE UNCHANGED vars
  <2>1. /\ UNCHANGED <<fat, blocks, cache, entry, handle, op, damaged, faults>> /\ damaged \subseteq File
        /\ OpOK
    BY <1>4 DEF vars, IInv, TypeOK
  <2>2. OpOK'
    BY <2>1 DEF OpOK, OpType
  <2> QED BY <2>1, <2>2, FilesSame, BytesKept, Counted, Parts
<1> QED BY <1>1, <1>2, <1>3, <1>4 DEF Next

\* Nothing a caller, an error of the device or a loss of power does breaks the
\* invariant: chains stay apart and whole, handles stay on them.
THEOREM Invariance == Spec => []IInv
<1>1. Init => IInv
  BY InitLemma
<1>2. IInv /\ [Next]_vars => IInv'
  BY StepLemma
<1> QED BY <1>1, <1>2, PTL DEF Spec

\* The variables of reading and writing keep their types, and no position lies
\* outside its file (read, write, the seeks).
THEOREM TypeCorrect == Spec => []TypeOK
<1>1. IInv => TypeOK
  BY DEF IInv
<1> QED BY <1>1, Invariance, PTL

\* The cluster that a handle remembers is the one at the offset it remembers
\* (find_data_on_disk, and every call that moves an offset or changes a chain).
THEOREM OnItsChain == Spec => []CursorSound
<1>1. IInv => CursorSound
  <2> SUFFICES ASSUME IInv, NEW f \in File, handle[f].cluster # NONE
               PROVE  LET h == handle[f]
                      IN  /\ h.at[1] % BytesPerCluster = 0
                          /\ h.at[2] = Follow(h.cluster, h.at[1] \div BytesPerCluster)
    BY DEF CursorSound
  <2> DEFINE h == handle[f]
             B == BytesPerCluster
  <2>1. PICK k \in Nat : h.at = <<k * B, Walk(fat, h.cluster, k)>>
    BY FileFacts DEF HandleOK, Remembers
  <2> DEFINE x == k * B
  <2>2. B \in Nat \ {0} /\ x \in Nat /\ x = B * k + 0 /\ 0 \in 0 .. B - 1
    BY Sizes
  <2>3. h.at[1] = x /\ h.at[2] = Walk(fat, h.cluster, k)
    BY <2>1
  <2> HIDE DEF x, h
  <2>4. x \div B = k /\ x % B = 0
    <3> HIDE DEF B
    <3> QED BY <2>2, QuotientIs
  <2> QED BY <2>3, <2>4 DEF h, Follow
<1> QED BY <1>1, Invariance, PTL

\* Every byte of a file that no error has damaged has a cluster: what write says
\* it has written is in the chain, whatever interrupted the calls before.
THEOREM RoomForAll == Spec => []ChainCoversSize
<1>1. IInv => ChainCoversSize
  <2> SUFFICES ASSUME IInv, NEW f \in File \ damaged
               PROVE  /\ handle[f].size <= Length(handle[f].cluster) * BytesPerCluster
                      /\ entry[f].size <= Length(entry[f].cluster) * BytesPerCluster
    BY DEF ChainCoversSize
  <2>1. /\ SoundFat(fat, AllStarts)
        /\ Covered(fat, handle[f].cluster, handle[f].size) /\ Covered(fat, entry[f].cluster, entry[f].size)
    BY DEF IInv, Chains, Covers
  <2>2. /\ handle[f].size \in Nat /\ entry[f].size \in Nat
        /\ handle[f].cluster = NONE => handle[f].size = 0
        /\ entry[f].cluster = NONE => entry[f].size = 0
        /\ handle[f].cluster # NONE => handle[f].cluster \in AllStarts
        /\ entry[f].cluster # NONE => entry[f].cluster \in AllStarts
    BY FileFacts, Sizes DEF HandleRec, HandleOK
  <2>3. ASSUME NEW c, NEW n \in Nat, c = NONE => n = 0, c # NONE => c \in AllStarts, Covered(fat, c, n)
        PROVE  n <= Length(c) * BytesPerCluster
    <3>1. CASE c = NONE
      <4>1. Length(c) = 0 /\ 0 * BytesPerCluster = 0 /\ n = 0
        BY <2>3, <3>1, LengthIs, Sizes
      <4> QED BY <4>1
    <3>2. CASE c # NONE
      BY <2>1, <2>3, <3>2, CoveredMeans
    <3> QED BY <3>1, <3>2
  <2> QED BY <2>1, <2>2, <2>3
<1> QED BY <1>1, Invariance, PTL

-----------------------------------------------------------------------------
(* The bytes of a file *)

\* The place of byte i of a file, in the FAT v, and the byte that is there.
Place(v, c, i) == <<Walk(v, c, i \div BytesPerCluster), (i % BytesPerCluster) \div BlockLen>>
ByteAt(bl, v, c, i) == bl[Place(v, c, i)][1 + (i % BlockLen)]
Text(bl, v, c, n) == [i \in 1 .. n |-> ByteAt(bl, v, c, i - 1)]
Zeros(n) == [i \in 1 .. n |-> 0]

LEMMA Spot ==
  ASSUME NEW i \in Nat
  PROVE  LET k == i \div BytesPerCluster
             j == (i % BytesPerCluster) \div BlockLen
         IN  /\ k \in Nat /\ j \in 0 .. BlocksPerCluster - 1 /\ i % BlockLen \in 0 .. BlockLen - 1
             /\ k * BytesPerCluster \in Nat /\ j * BlockLen \in Nat
             /\ k * BytesPerCluster <= i /\ i < k * BytesPerCluster + BytesPerCluster
             /\ j = (i - k * BytesPerCluster) \div BlockLen
             /\ i = k * BytesPerCluster + j * BlockLen + (i % BlockLen)
<1> DEFINE B == BytesPerCluster
           k == i \div B
           x == k * B
<1>1. B \in Nat \ {0} /\ BlockLen \in Nat \ {0} /\ BlocksPerCluster \in Nat
  BY Sizes
<1>2. k \in Nat /\ (i % B) \in 0 .. B - 1 /\ B * k + (i % B) = i
  <2> HIDE DEF B
  <2> QED BY <1>1, Quotient
<1>3. x \in Nat /\ B * k = x
  BY <1>1, <1>2
<1>4. (i % B) = i - x /\ x <= i /\ i < x + B
  <2> HIDE DEF x, B, k
  <2> QED BY <1>1, <1>2, <1>3
<1> DEFINE j == (i - x) \div BlockLen
<1>5. /\ j \in 0 .. BlocksPerCluster - 1 /\ i % BlockLen \in 0 .. BlockLen - 1
      /\ i = x + j * BlockLen + (i % BlockLen)
  <2>1. k * BytesPerCluster <= i /\ i < k * BytesPerCluster + BytesPerCluster
    BY <1>4
  <2> HIDE DEF k
  <2> QED BY <1>2, <2>1, Position
<1>6. j * BlockLen \in Nat
  <2>1. j \in Nat /\ BlockLen \in Nat
    BY <1>1, <1>5
  <2> HIDE DEF j
  <2> QED BY <2>1
<1>7. (i % B) \div BlockLen = j
  BY <1>4
<1> HIDE DEF j, x
<1> QED BY <1>2, <1>3, <1>4, <1>5, <1>6, <1>7 DEF j, x

\* In one block bytes are as far apart as they are in the file.
LEMMA SameSpot ==
  ASSUME NEW i \in Nat, NEW m \in Nat, i \div BytesPerCluster = m \div BytesPerCluster,
         (i % BytesPerCluster) \div BlockLen = (m % BytesPerCluster) \div BlockLen
  PROVE  i - m = (i % BlockLen) - (m % BlockLen)
<1> DEFINE x == (i \div BytesPerCluster) * BytesPerCluster
           y == ((i % BytesPerCluster) \div BlockLen) * BlockLen
           r == i % BlockLen
           s == m % BlockLen
<1>1. x \in Nat /\ y \in Nat /\ r \in 0 .. BlockLen - 1 /\ i = x + y + r
  BY Spot
<1>2. s \in 0 .. BlockLen - 1 /\ m = x + y + s
  BY Spot
<1> HIDE DEF x, y, r, s
<1>3. r \in Int /\ s \in Int
  BY <1>1, <1>2, Sizes
<1>4. i - m = r - s
  BY <1>1, <1>2, <1>3
<1> QED BY <1>4 DEF r, s

LEMMA TextIs ==
  ASSUME NEW n \in Nat, NEW F, F = [i \in 1 .. n |-> F[i]]
  PROVE  SubSeq(F, 1, n) = F /\ Len(F) = n /\ DOMAIN F = 1 .. n
<1> DEFINE S == {F[i] : i \in 1 .. n}
<1>1. \A i \in 1 .. n : F[i] \in S
  OBVIOUS
<1>2. F \in [1 .. n -> S]
  <2> HIDE DEF S
  <2> QED BY <1>1
<1>3. F \in Seq(S)
  <2> HIDE DEF S
  <2> QED BY <1>2
<1>4. Len(F) = n /\ DOMAIN F = 1 .. n
  <2> HIDE DEF S
  <2> QED BY <1>2, <1>3
<1>5. SubSeq(F, 1, n) = F
  <2> HIDE DEF S
  <2> QED BY <1>2, <1>3, <1>4
<1> QED BY <1>4, <1>5

LEMMA BytesAre ==
  ASSUME NEW f, Seen(f).size \in Nat
  PROVE  BytesOf(f) = IF f \in damaged THEN Zeros(Seen(f).size)
                      ELSE Text(blocks, fat, Seen(f).cluster, Seen(f).size)
<1> DEFINE n == Seen(f).size
           byte(i) == blocks[<<Follow(Seen(f).cluster, i \div BytesPerCluster),
                               (i % BytesPerCluster) \div BlockLen>>][1 + (i % BlockLen)]
           F == [i \in 1 .. n |-> IF f \in damaged THEN 0 ELSE byte(i - 1)]
<1>1. F = IF f \in damaged THEN Zeros(n) ELSE Text(blocks, fat, Seen(f).cluster, n)
  BY DEF Zeros, Text, ByteAt, Place, Follow
<1>2. SubSeq(F, 1, n) = F
  <2>1. F = [i \in 1 .. n |-> F[i]]
    OBVIOUS
  <2> HIDE DEF F
  <2> QED BY <2>1, TextIs
<1>3. BytesOf(f) = SubSeq(F, 1, n)
  BY DEF BytesOf
<1> QED BY <1>1, <1>2, <1>3

LEMMA BytesAreThen ==
  ASSUME NEW f, Seen(f)'.size \in Nat
  PROVE  BytesOf(f)' = IF f \in damaged' THEN Zeros(Seen(f)'.size)
                       ELSE Text(blocks', fat', Seen(f)'.cluster, Seen(f)'.size)
<1> DEFINE n == Seen(f)'.size
           byte(i) == blocks'[<<Walk(fat', Seen(f)'.cluster, i \div BytesPerCluster),
                                (i % BytesPerCluster) \div BlockLen>>][1 + (i % BlockLen)]
           F == [i \in 1 .. n |-> IF f \in damaged' THEN 0 ELSE byte(i - 1)]
<1>1. F = IF f \in damaged' THEN Zeros(n) ELSE Text(blocks', fat', Seen(f)'.cluster, n)
  BY DEF Zeros, Text, ByteAt, Place
<1>2. SubSeq(F, 1, n) = F
  <2>1. F = [i \in 1 .. n |-> F[i]]
    OBVIOUS
  <2> HIDE DEF F
  <2> QED BY <2>1, TextIs
<1>3. BytesOf(f)' = SubSeq(F, 1, n)
  BY DEF BytesOf, Follow
<1> QED BY <1>1, <1>2, <1>3

-----------------------------------------------------------------------------
(* What the mapping needs to know *)

\* Nothing is left of a call that has ended.
Quiet ==
  /\ op.pc = "idle" => op = NoOp
  /\ op.pc = "read" => op.buffer = << >>
  /\ op.pc # "read" => got = << >>

\* A file that is not dirty is as its entry says.
Pending ==
  /\ op.pc \in Writes => handle[op.file].dirty
  /\ \A f \in File \ damaged : handle[f].open /\ ~ handle[f].dirty =>
       entry[f] = [cluster |-> handle[f].cluster, size |-> handle[f].size]

\* The cache has the bytes of the files, though not always what lies beyond.
Coherent ==
  \A f \in File \ damaged : \A i \in 0 .. Seen(f).size - 1 :
    cache.block = Place(fat, Seen(f).cluster, i) =>
      cache.bytes[1 + (i % BlockLen)] = ByteAt(blocks, fat, Seen(f).cluster, i)

RInv == Quiet /\ Pending /\ Coherent

LEMMA SeenFacts ==
  ASSUME IInv, NEW f \in File
  PROVE  /\ Seen(f).size \in Nat /\ Seen(f).size <= MaxFileSize
         /\ Seen(f).cluster \in Cluster \cup {NONE}
         /\ Seen(f).cluster = NONE => Seen(f).size = 0
         /\ Seen(f).cluster # NONE => Seen(f).cluster \in AllStarts /\ Seen(f).cluster \in Starts(f)
         /\ f \notin damaged => Covered(fat, Seen(f).cluster, Seen(f).size)
<1>1. f \notin damaged => /\ Covered(fat, handle[f].cluster, handle[f].size)
                          /\ Covered(fat, entry[f].cluster, entry[f].size)
  BY DEF IInv, Covers
<1> QED BY <1>1, FileFacts, Sizes DEF Seen, HandleRec, HandleOK, Starts

LEMMA SeenThen == ASSUME IInv', NEW f \in File PROVE Seen(f)'.size \in Nat
<1>1. handle'[f].size \in 0 .. MaxFileSize /\ entry'[f].size \in 0 .. MaxFileSize
  BY DEF IInv, TypeOK, HandleType
<1> QED BY <1>1, Sizes DEF Seen

\* No cluster is in two places of files.
LEMMA OnePlace ==
  ASSUME IInv, NEW f \in File, NEW g \in File, Seen(f).cluster # NONE, Seen(g).cluster # NONE,
         NEW k \in Nat, NEW m \in Nat, Walk(fat, Seen(f).cluster, k) \in Cluster,
         Walk(fat, Seen(f).cluster, k) = Walk(fat, Seen(g).cluster, m)
  PROVE  f = g /\ k = m
<1> DEFINE c == Seen(f).cluster
           d == Seen(g).cluster
<1>1. /\ c \in AllStarts /\ c \in Starts(f) /\ d \in AllStarts /\ d \in Starts(g)
      /\ \A x, y \in File : x # y => Starts(x) \cap Starts(y) = {}
  BY SeenFacts DEF IInv, Chains
<1>2. /\ c \in Cluster /\ d \in Cluster /\ fat \in Fats /\ Injective(fat)
      /\ Unlinked(fat, c) /\ Unlinked(fat, d)
  BY <1>1, StartFacts
<1> HIDE DEF c, d
<1>3. c = d
  BY <1>2, WalksApart DEF c, d
<1>4. f = g
  BY <1>1, <1>3
<1>5. CASE k < m
  BY <1>2, <1>3, <1>5, NoReturn DEF c, d
<1>6. CASE m < k
  BY <1>2, <1>3, <1>6, NoReturn DEF c, d
<1> QED BY <1>4, <1>5, <1>6

\* The bytes of a file are in its blocks.
LEMMA Places ==
  ASSUME IInv, NEW f \in File \ damaged, NEW i \in 0 .. Seen(f).size - 1
  PROVE  /\ Seen(f).cluster # NONE /\ i \in Nat /\ i \div BytesPerCluster \in Nat
         /\ Walk(fat, Seen(f).cluster, i \div BytesPerCluster) \in Cluster
         /\ Place(fat, Seen(f).cluster, i) \in Block
<1>1. i \in Nat /\ Seen(f).size # 0
  BY SeenFacts
<1>2. /\ i \div BytesPerCluster \in Nat
      /\ (i % BytesPerCluster) \div BlockLen \in 0 .. BlocksPerCluster - 1
  BY <1>1, Spot
<1>3. Walk(fat, Seen(f).cluster, i \div BytesPerCluster) \in Cluster
  BY SeenFacts DEF Covered
<1> QED BY <1>1, <1>2, <1>3, SeenFacts DEF Place, Block

LEMMA TextSame ==
  ASSUME IInv, NEW f \in File \ damaged, NEW w, NEW bl,
         Seen(f).cluster # NONE => Extends(w, fat, Seen(f).cluster),
         \A i \in 0 .. Seen(f).size - 1 :
           bl[Place(fat, Seen(f).cluster, i)][1 + (i % BlockLen)] = ByteAt(blocks, fat, Seen(f).cluster, i)
  PROVE  /\ \A i \in 0 .. Seen(f).size - 1 : /\ Place(w, Seen(f).cluster, i) = Place(fat, Seen(f).cluster, i)
                                             /\ ByteAt(bl, w, Seen(f).cluster, i) = ByteAt(blocks, fat, Seen(f).cluster, i)
         /\ Text(bl, w, Seen(f).cluster, Seen(f).size) = Text(blocks, fat, Seen(f).cluster, Seen(f).size)
<1> DEFINE c == Seen(f).cluster
           n == Seen(f).size
<1>1. ASSUME NEW i \in 0 .. n - 1
      PROVE  Place(w, c, i) = Place(fat, c, i) /\ ByteAt(bl, w, c, i) = ByteAt(blocks, fat, c, i)
  <2>1. c # NONE /\ i \div BytesPerCluster \in Nat /\ Walk(fat, c, i \div BytesPerCluster) \in Cluster
    BY Places
  <2>2. Walk(w, c, i \div BytesPerCluster) = Walk(fat, c, i \div BytesPerCluster)
    BY <2>1 DEF Extends
  <2>3. Place(w, c, i) = Place(fat, c, i)
    BY <2>2 DEF Place
  <2> QED BY <2>3 DEF ByteAt
<1>2. n \in Nat
  BY SeenFacts
<1> HIDE DEF c, n
<1>3. \A i \in 1 .. n : i - 1 \in 0 .. n - 1
  BY <1>2
<1>4. Text(bl, w, c, n) = Text(blocks, fat, c, n)
  BY <1>1, <1>3 DEF Text
<1> QED BY <1>1, <1>4 DEF c, n

\* A file that stays what it is keeps its bytes.
LEMMA FileSame ==
  ASSUME IInv, IInv', NEW f \in File, Seen(f)'.cluster = Seen(f).cluster, Seen(f)'.size = Seen(f).size,
         f \in damaged' <=> f \in damaged,
         f \notin damaged =>
           /\ Seen(f).cluster # NONE => Extends(fat', fat, Seen(f).cluster)
           /\ \A i \in 0 .. Seen(f).size - 1 :
                blocks'[Place(fat, Seen(f).cluster, i)][1 + (i % BlockLen)] = ByteAt(blocks, fat, Seen(f).cluster, i)
  PROVE  BytesOf(f)' = BytesOf(f)
<1>1. Seen(f).size \in Nat /\ Seen(f)'.size \in Nat
  BY SeenFacts, SeenThen
<1>2. CASE f \in damaged
  BY <1>1, <1>2, BytesAre, BytesAreThen
<1>3. CASE f \notin damaged
  <2>1. Text(blocks', fat', Seen(f).cluster, Seen(f).size) = Text(blocks, fat, Seen(f).cluster, Seen(f).size)
    BY <1>3, TextSame
  <2> QED BY <1>1, <1>3, <2>1, BytesAre, BytesAreThen
<1> QED BY <1>2, <1>3

LEMMA FileQuiet ==
  ASSUME IInv, IInv', NEW f \in File, Seen(f)'.cluster = Seen(f).cluster, Seen(f)'.size = Seen(f).size,
         f \in damaged' <=> f \in damaged, UNCHANGED blocks,
         Seen(f).cluster # NONE => Extends(fat', fat, Seen(f).cluster)
  PROVE  BytesOf(f)' = BytesOf(f)
BY FileSame DEF ByteAt

\* What becomes of the cache.
LEMMA CacheGone == ASSUME IInv', cache' = Forgotten PROVE Coherent'
<1> SUFFICES ASSUME NEW f \in File \ damaged', NEW i \in 0 .. Seen(f)'.size - 1
             PROVE  cache'.block # Place(fat', Seen(f)'.cluster, i)
  BY DEF Coherent
<1>1. Covered(fat', Seen(f)'.cluster, Seen(f)'.size)
  BY DEF IInv, Covers, Seen
<1>2. Walk(fat', Seen(f)'.cluster, i \div BytesPerCluster) \in Cluster
  BY <1>1 DEF Covered
<1> QED BY <1>2, ClusterFacts DEF Forgotten, NoBlock, Place

LEMMA CacheKept ==
  ASSUME UNCHANGED <<fat, blocks, cache>>, Coherent,
         \A f \in File \ damaged' : /\ f \notin damaged /\ Seen(f)'.cluster = Seen(f).cluster
                                    /\ Seen(f)'.size = Seen(f).size
  PROVE  Coherent'
BY DEF Coherent

-----------------------------------------------------------------------------
(* The mapping *)

Content == [f \in File |-> BytesOf(f)]
Pos == [f \in File |-> IF handle[f].open THEN handle[f].offset ELSE -1]
CallOf(o) ==
  [kind |-> CASE o.pc = "idle" -> "none" [] o.pc = "read" -> "read" [] OTHER -> "write",
   file |-> o.file,
   rest |-> SubSeq(o.buffer, o.done + 1, Smaller(o.todo, Len(o.buffer))),
   want |-> IF o.pc = "read" THEN o.todo - o.done ELSE 0]
NoCall == [kind |-> "none", file |-> NoFile, rest |-> << >>, want |-> 0]

LEMMA CallIdle == CallOf(NoOp) = NoCall
<1>1. SubSeq(<< >>, 0 + 1, Smaller(0, Len(<< >>))) = << >>
  BY DEF Smaller
<1> QED BY <1>1 DEF CallOf, NoOp, NoCall

LEMMA CallWrite ==
  ASSUME NEW o, o.pc \in Writes, o.todo \in Nat, Len(o.buffer) \in Nat, o.todo <= Len(o.buffer)
  PROVE  CallOf(o) = [kind |-> "write", file |-> o.file, rest |-> SubSeq(o.buffer, o.done + 1, o.todo),
                      want |-> 0]
<1>1. Smaller(o.todo, Len(o.buffer)) = o.todo
  BY DEF Smaller
<1>2. o.pc # "idle" /\ o.pc # "read"
  BY DEF Writes
<1>3. (CASE o.pc = "idle" -> "none" [] o.pc = "read" -> "read" [] OTHER -> "write") = "write"
  BY <1>2, Zenon
<1>4. (IF o.pc = "read" THEN o.todo - o.done ELSE 0) = 0
  BY <1>2
<1> QED BY <1>1, <1>3, <1>4, Zenon DEF CallOf

LEMMA CallRead ==
  ASSUME NEW o, o.pc = "read", o.buffer = << >>, o.todo \in Nat, o.done \in Nat
  PROVE  CallOf(o) = [kind |-> "read", file |-> o.file, rest |-> << >>, want |-> o.todo - o.done]
<1>1. SubSeq(o.buffer, o.done + 1, Smaller(o.todo, Len(o.buffer))) = << >>
  BY DEF Smaller
<1>2. (CASE o.pc = "idle" -> "none" [] o.pc = "read" -> "read" [] OTHER -> "write") = "read"
  BY "read" # "idle", Zenon
<1>3. (IF o.pc = "read" THEN o.todo - o.done ELSE 0) = o.todo - o.done
  OBVIOUS
<1> QED BY <1>1, <1>2, <1>3, Zenon DEF CallOf

\* The call under way, as ByteFile has it.
LEMMA CallNow ==
  ASSUME IInv, RInv
  PROVE  /\ op.pc = "idle" => CallOf(op) = NoCall /\ got = << >>
         /\ op.pc \in Writes =>
              /\ CallOf(op) = [kind |-> "write", file |-> op.file,
                               rest |-> SubSeq(op.buffer, op.done + 1, op.todo), want |-> 0]
              /\ got = << >>
         /\ op.pc = "read" =>
              CallOf(op) = [kind |-> "read", file |-> op.file, rest |-> << >>, want |-> op.todo - op.done]
         /\ CallOf(op).kind = "none" <=> op.pc = "idle"
<1>1. OpOK /\ op.pc \in Writes \cup {"idle", "read"} /\ op.todo \in Nat /\ op.done \in Nat /\ op.buffer \in Seq(Byte)
  BY DEF IInv, OpOK, OpType
<1>2. op.pc = "idle" => CallOf(op) = NoCall /\ got = << >>
  BY CallIdle DEF RInv, Quiet
<1>3. op.pc \in Writes =>
              /\ CallOf(op) = [kind |-> "write", file |-> op.file,
                               rest |-> SubSeq(op.buffer, op.done + 1, op.todo), want |-> 0]
              /\ got = << >>
  <2>1. Len(op.buffer) \in Nat
    BY <1>1
  <2>2. op.pc \in Writes => op.todo <= Len(op.buffer) /\ op.pc # "read"
    BY <1>1 DEF OpOK, Writes
  <2> QED BY <1>1, <2>1, <2>2, CallWrite DEF RInv, Quiet
<1>4. op.pc = "read" =>
        CallOf(op) = [kind |-> "read", file |-> op.file, rest |-> << >>, want |-> op.todo - op.done]
  BY <1>1, CallRead DEF RInv, Quiet
<1> QED BY <1>1, <1>2, <1>3, <1>4 DEF NoCall, Writes

-----------------------------------------------------------------------------
(* Steps of ByteFile *)

LEMMA IsNoEffect ==
  ASSUME CallOf(op).kind = "none", UNCHANGED <<Content, Pos, CallOf(op), got, damaged>>,
         ret' \in {"ok", "error"}
  PROVE  Promise!Next
<1>1. Promise!NoEffect
  BY DEF Promise!NoEffect, Promise!Idle, Content, Pos, CallOf
<1> QED BY <1>1 DEF Promise!Next

LEMMA IsStutter ==
  ASSUME UNCHANGED <<Content, Pos, CallOf(op), got, ret, damaged>>
  PROVE  UNCHANGED Promise!vars
BY DEF Promise!vars, Content, Pos, CallOf

LEMMA IsReturn ==
  ASSUME CallOf(op).kind # "none", CallOf(op)' = NoCall, got' = << >>, UNCHANGED <<Content, Pos, damaged>>,
         \/ ret' = "error"
         \/ ret' = "ok" /\ CallOf(op).kind = "write" /\ CallOf(op).rest = << >>
         \/ ret' = "ok" /\ CallOf(op).kind = "read" /\ CallOf(op).want = 0
         \/ /\ ret' = "ok" /\ CallOf(op).kind = "read"
            /\ Pos[CallOf(op).file] = Len(Content[CallOf(op).file])
  PROVE  Promise!Next
<1>1. Promise!Return
  BY DEF Promise!Return, Promise!Idle, Promise!NoCall, Promise!Finished, NoCall, Content, Pos, CallOf
<1> QED BY <1>1 DEF Promise!Next

LEMMA IsOpen ==
  ASSUME CallOf(op).kind = "none", NEW f \in File, Pos[f] = -1, ret' = "ok",
         Pos' \in {[Pos EXCEPT ![f] = 0], [Pos EXCEPT ![f] = Len(Content[f])]},
         UNCHANGED <<Content, CallOf(op), got, damaged>>
  PROVE  Promise!Next
<1>1. Promise!Open(f)
  BY DEF Promise!Open, Promise!Idle, Promise!Closed, Content, Pos, CallOf
<1> QED BY <1>1 DEF Promise!Next

LEMMA IsOpenTruncate ==
  ASSUME CallOf(op).kind = "none", NEW f \in File, Pos[f] = -1, ret' = "ok",
         Pos' = [Pos EXCEPT ![f] = 0], Content' = [Content EXCEPT ![f] = << >>],
         UNCHANGED <<CallOf(op), got, damaged>>
  PROVE  Promise!Next
<1>1. Promise!OpenTruncate(f)
  BY DEF Promise!OpenTruncate, Promise!Idle, Promise!Closed, Content, Pos, CallOf
<1> QED BY <1>1 DEF Promise!Next

LEMMA IsClose ==
  ASSUME CallOf(op).kind = "none", NEW f \in File, Pos[f] # -1, ret' \in {"ok", "error"},
         Pos' = [Pos EXCEPT ![f] = -1], UNCHANGED <<Content, CallOf(op), got, damaged>>
  PROVE  Promise!Next
<1>1. Promise!Close(f)
  BY DEF Promise!Close, Promise!Idle, Promise!Closed, Content, Pos, CallOf
<1> QED BY <1>1 DEF Promise!Next

LEMMA IsSeek ==
  ASSUME CallOf(op).kind = "none", NEW f \in File, Pos[f] # -1, ret' = "ok",
         NEW p \in 0 .. Len(Content[f]), Pos' = [Pos EXCEPT ![f] = p],
         UNCHANGED <<Content, CallOf(op), got, damaged>>
  PROVE  Promise!Next
<1>1. Promise!Seek(f)
  BY DEF Promise!Seek, Promise!Idle, Promise!Closed, Content, Pos, CallOf
<1> QED BY <1>1 DEF Promise!Next

LEMMA IsStartWrite ==
  ASSUME CallOf(op).kind = "none", NEW f \in File, Pos[f] # -1, ret' = "none", NEW buffer \in Buffers,
         CallOf(op)' = [kind |-> "write", file |-> f, want |-> 0,
                        rest |-> SubSeq(buffer, 1, Smaller(Len(buffer), MaxFileSize - Pos[f]))],
         UNCHANGED <<Content, Pos, got, damaged>>
  PROVE  Promise!Next
<1>1. Promise!StartWrite(f, buffer)
  BY DEF Promise!StartWrite, Promise!Idle, Promise!Closed, Promise!Smaller, Smaller, Content, Pos, CallOf
<1> QED BY <1>1 DEF Promise!Next

LEMMA IsWriteSome ==
  ASSUME CallOf(op).kind = "write", NEW n \in 1 .. Len(CallOf(op).rest),
         Content' = [Content EXCEPT ![CallOf(op).file] =
                       Promise!Overlay(@, Pos[CallOf(op).file], SubSeq(CallOf(op).rest, 1, n))],
         Pos' = [Pos EXCEPT ![CallOf(op).file] = @ + n],
         CallOf(op)' = [CallOf(op) EXCEPT !.rest = SubSeq(@, n + 1, Len(@))],
         UNCHANGED <<got, ret, damaged>>
  PROVE  Promise!Next
<1>1. Promise!WriteSome
  BY DEF Promise!WriteSome, Content, Pos, CallOf
<1> QED BY <1>1 DEF Promise!Next

LEMMA IsStartRead ==
  ASSUME CallOf(op).kind = "none", NEW f \in File, Pos[f] # -1, got' = << >>, ret' = "none",
         NEW size \in ReadSizes,
         CallOf(op)' = [kind |-> "read", file |-> f, rest |-> << >>, want |-> size],
         UNCHANGED <<Content, Pos, damaged>>
  PROVE  Promise!Next
<1>1. Promise!StartRead(f, size)
  BY DEF Promise!StartRead, Promise!Idle, Promise!Closed, Content, Pos, CallOf
<1> QED BY <1>1 DEF Promise!Next

LEMMA IsReadSome ==
  ASSUME CallOf(op).kind = "read",
         NEW n \in 1 .. Smaller(CallOf(op).want, Len(Content[CallOf(op).file]) - Pos[CallOf(op).file]),
         got' = got \o SubSeq(Content[CallOf(op).file], Pos[CallOf(op).file] + 1, Pos[CallOf(op).file] + n),
         Pos' = [Pos EXCEPT ![CallOf(op).file] = @ + n],
         CallOf(op)' = [CallOf(op) EXCEPT !.want = @ - n],
         UNCHANGED <<Content, ret, damaged>>
  PROVE  Promise!Next
<1>1. Promise!ReadSome
  BY DEF Promise!ReadSome, Promise!Smaller, Smaller, Content, Pos, CallOf
<1> QED BY <1>1 DEF Promise!Next

LEMMA IsDamage ==
  ASSUME NEW f \in File, ret' = "error", damaged' = damaged \cup {f}, CallOf(op)' = NoCall, UNCHANGED got,
         CallOf(op).kind = "none" \/ CallOf(op).file = f,
         \A g \in File \ damaged : g # f => Content'[g] = Content[g] /\ Pos'[g] = Pos[g]
  PROVE  Promise!Next
<1>1. Promise!Damage
  BY DEF Promise!Damage, Promise!Idle, Promise!Intact, Promise!NoCall, NoCall, Content, Pos, CallOf
<1> QED BY <1>1 DEF Promise!Next

LEMMA IsDisturb ==
  ASSUME damaged # {}, UNCHANGED damaged,
         CallOf(op).kind = "none" \/ CallOf(op).file \in damaged,
         CallOf(op)'.kind = "none" \/ CallOf(op)'.file \in damaged,
         \A g \in File \ damaged : Content'[g] = Content[g] /\ Pos'[g] = Pos[g]
  PROVE  Promise!Next
<1>1. Promise!Disturb
  BY DEF Promise!Disturb, Promise!Idle, Promise!Intact, Content, Pos, CallOf
<1> QED BY <1>1 DEF Promise!Next

LEMMA IsCrash ==
  ASSUME ret' = "none", got' = << >>, CallOf(op)' = NoCall,
         NEW lost \in SUBSET {f \in File : Pos[f] # -1}, damaged' = damaged \cup lost,
         \A g \in File : Pos'[g] = -1, \A g \in File \ damaged' : Content'[g] = Content[g]
  PROVE  Promise!Next
<1>1. Promise!Crash
  BY DEF Promise!Crash, Promise!Closed, Promise!NoCall, NoCall, Content, Pos, CallOf
<1> QED BY <1>1 DEF Promise!Next

-----------------------------------------------------------------------------
(* Steps that change no bytes *)

\* The step is one that ByteFile allows, and the mapping stays what it is.
Refines == RInv' /\ (Promise!Next \/ UNCHANGED Promise!vars)

\* Handles that differ in the cluster remembered only.
SameHandles ==
  \A f \in File : /\ handle'[f].open = handle[f].open /\ handle'[f].dirty = handle[f].dirty
                  /\ handle'[f].cluster = handle[f].cluster /\ handle'[f].size = handle[f].size
                  /\ handle'[f].offset = handle[f].offset

LEMMA AllSame ==
  ASSUME IInv, IInv', UNCHANGED <<blocks, damaged>>, \A d \in AllStarts : Extends(fat', fat, d),
         \A f \in File : Seen(f)'.cluster = Seen(f).cluster /\ Seen(f)'.size = Seen(f).size
  PROVE  Content' = Content
<1>1. ASSUME NEW f \in File PROVE BytesOf(f)' = BytesOf(f)
  BY <1>1, FileQuiet, SeenFacts
<1> QED BY <1>1 DEF Content

LEMMA SameSeen ==
  ASSUME SameHandles, UNCHANGED entry
  PROVE  /\ \A f \in File : Seen(f)'.cluster = Seen(f).cluster /\ Seen(f)'.size = Seen(f).size
         /\ Pos' = Pos
BY DEF SameHandles, Seen, Pos

LEMMA Untouched == ASSUME UNCHANGED handle PROVE SameHandles
BY DEF SameHandles

LEMMA NothingLeft ==
  ASSUME op' = NoOp, got' = << >>
  PROVE  Quiet' /\ CallOf(op)' = NoCall
<1>1. CallOf(op') = NoCall
  BY CallIdle
<1> QED BY <1>1 DEF Quiet, NoOp, CallOf

LEMMA SamePending ==
  ASSUME RInv, SameHandles, UNCHANGED entry, damaged \subseteq damaged', op' = NoOp
  PROVE  Pending'
BY DEF RInv, SameHandles, Pending, NoOp, Writes

LEMMA SameCache ==
  ASSUME IInv', RInv, SameHandles, UNCHANGED <<fat, blocks, entry>>, damaged \subseteq damaged',
         cache' \in {cache, Forgotten}
  PROVE  Coherent'
<1>1. CASE cache' = cache
  BY <1>1, CacheKept, SameSeen DEF RInv
<1>2. CASE cache' = Forgotten
  BY <1>2, CacheGone
<1> QED BY <1>1, <1>2

\* A call that returns at once and has done nothing.
LEMMA NoEffectRefines ==
  ASSUME IInv, IInv', RInv, Idle, UNCHANGED <<fat, blocks, entry, handle, damaged>>,
         op' = NoOp, got' = << >>, ret' \in {"ok", "error"}, cache' \in {cache, Forgotten}
  PROVE  Refines
<1>1. SameHandles /\ Quiet' /\ CallOf(op)' = NoCall
  BY Untouched, NothingLeft
<1>2. Pending' /\ Coherent'
  BY <1>1, SamePending, SameCache
<1>3. Content' = Content /\ Pos' = Pos
  BY <1>1, AllSame, SameSeen, SameChain
<1>4. CallOf(op) = NoCall /\ got = << >>
  BY CallNow DEF Idle
<1>5. Promise!Next
  BY <1>1, <1>3, <1>4, IsNoEffect DEF NoCall
<1> QED BY <1>1, <1>2, <1>5 DEF Refines, RInv

\* A call that returns an error after a part of what it was asked for.
LEMMA FailsRefines ==
  ASSUME IInv, IInv', RInv, ~ Idle, UNCHANGED <<blocks, entry, damaged>>, SameHandles,
         \A d \in AllStarts : Extends(fat', fat, d),
         op' = NoOp, got' = << >>, ret' = "error", cache' = Forgotten
  PROVE  Refines
<1>1. Quiet' /\ CallOf(op)' = NoCall /\ Pending' /\ Coherent'
  BY NothingLeft, SamePending, CacheGone
<1>2. Content' = Content /\ Pos' = Pos
  BY AllSame, SameSeen
<1>3. CallOf(op).kind # "none"
  BY CallNow DEF Idle
<1>4. Promise!Next
  BY <1>1, <1>2, <1>3, IsReturn
<1> QED BY <1>1, <1>4 DEF Refines, RInv

LEMMA PosIs ==
  ASSUME NEW f \in File
  PROVE  Pos[f] = IF handle[f].open THEN handle[f].offset ELSE -1
BY DEF Pos

\* The number of bytes, whether or not they are damaged.
LEMMA HasLength == ASSUME IInv, NEW f \in File PROVE Len(Content[f]) = Seen(f).size
<1>1. Seen(f).size \in Nat
  BY SeenFacts
<1> DEFINE n == Seen(f).size
           F == Text(blocks, fat, Seen(f).cluster, n)
<1>2. Len(Zeros(n)) = n
  <2>1. Zeros(n) = [i \in 1 .. n |-> Zeros(n)[i]]
    BY DEF Zeros
  <2> QED BY <1>1, <2>1, TextIs
<1>3. Len(F) = n
  <2>1. F = [i \in 1 .. n |-> F[i]]
    BY DEF Text
  <2> HIDE DEF F
  <2> QED BY <1>1, <2>1, TextIs
<1> QED BY <1>1, <1>2, <1>3, BytesAre DEF Content

LEMMA OpenRefines ==
  ASSUME IInv, IInv', RInv, NEW f \in File, NEW append \in BOOLEAN, Open(f, append)
  PROVE  Refines
<1>1. /\ UNCHANGED <<fat, blocks, entry, damaged>> /\ cache' = Forgotten /\ Idle /\ ~ handle[f].open
      /\ op' = NoOp /\ got' = << >>
  BY DEF Open, Openable, Done, Fault, Fail, Return
<1>2. CASE UNCHANGED handle /\ ret' = "error"
  BY <1>1, <1>2, NoEffectRefines
<1>3. CASE /\ handle' = [handle EXCEPT ![f] =
             [open |-> TRUE, writable |-> append, dirty |-> FALSE,
              cluster |-> entry[f].cluster, size |-> entry[f].size,
              offset |-> IF append THEN entry[f].size ELSE 0, at |-> <<0, entry[f].cluster>>]]
           /\ ret' = "ok"
  <2>1. /\ handle \in [File -> HandleRec]
        /\ entry[f] \in [cluster : Cluster \cup {NONE}, size : 0 .. MaxFileSize]
    BY FileFacts DEF IInv, TypeOK, HandleType, HandleRec
  <2>2. /\ handle'[f].open /\ ~ handle'[f].dirty /\ handle'[f].cluster = entry[f].cluster
        /\ handle'[f].size = entry[f].size /\ handle'[f].offset \in {0, entry[f].size}
        /\ \A g \in File : g # f => handle'[g] = handle[g]
    BY <1>3, <2>1
  <2>3. \A g \in File : Seen(g)'.cluster = Seen(g).cluster /\ Seen(g)'.size = Seen(g).size
    BY <1>1, <2>2 DEF Seen
  <2>4. Content' = Content
    BY <1>1, <2>3, AllSame, SameChain
  <2>5. Pos' \in {[Pos EXCEPT ![f] = 0], [Pos EXCEPT ![f] = Len(Content[f])]} /\ Pos[f] = -1
    <3>1. Len(Content[f]) = entry[f].size
      BY <1>1, HasLength DEF Seen
    <3>2. \/ handle'[f].offset = 0 /\ Pos' = [Pos EXCEPT ![f] = 0]
          \/ handle'[f].offset = entry[f].size /\ Pos' = [Pos EXCEPT ![f] = entry[f].size]
      BY <2>2 DEF Pos
    <3> QED BY <1>1, <3>1, <3>2, PosIs
  <2>6. Quiet' /\ CallOf(op)' = NoCall /\ CallOf(op) = NoCall /\ got = << >>
    BY <1>1, NothingLeft, CallNow DEF Idle
  <2>7. Promise!Next
    BY <1>1, <1>3, <2>4, <2>5, <2>6, IsOpen DEF NoCall
  <2>8. Pending'
    <3>1. entry[f] = [cluster |-> entry[f].cluster, size |-> entry[f].size]
      BY <2>1
    <3> QED BY <1>1, <2>2, <3>1 DEF RInv, Pending, NoOp, Writes
  <2> QED BY <1>1, <2>6, <2>7, <2>8, CacheGone DEF Refines, RInv
<1> QED BY <1>2, <1>3 DEF Open, Done, Fault, Fail, Return

LEMMA OpenTruncateRefines ==
  ASSUME IInv, IInv', RInv, NEW f \in File, OpenTruncate(f)
  PROVE  Refines
<1>1. /\ UNCHANGED <<blocks, damaged>> /\ cache' = Forgotten /\ Idle /\ ~ handle[f].open
      /\ op' = NoOp /\ got' = << >> /\ ret' = "ok"
      /\ fat' = Cut(f, Length(entry[f].cluster) - 1)
      /\ entry' = [entry EXCEPT ![f].size = 0]
      /\ handle' = [handle EXCEPT ![f] =
           [open |-> TRUE, writable |-> TRUE, dirty |-> FALSE, cluster |-> entry[f].cluster,
            size |-> 0, offset |-> 0, at |-> <<0, entry[f].cluster>>]]
  BY DEF OpenTruncate, Openable, Done, Return, Truncated
<1>2. /\ handle \in [File -> HandleRec]
      /\ entry \in [File -> [cluster : Cluster \cup {NONE}, size : 0 .. MaxFileSize]]
  BY DEF IInv, TypeOK, HandleType, HandleRec
<1>3. /\ handle'[f].open /\ ~ handle'[f].dirty /\ handle'[f].cluster = entry[f].cluster
      /\ handle'[f].size = 0 /\ handle'[f].offset = 0
      /\ \A g \in File : g # f => handle'[g] = handle[g] /\ entry'[g] = entry[g]
      /\ entry'[f] = [cluster |-> entry[f].cluster, size |-> 0]
  BY <1>1, <1>2
<1>4. Seen(f)'.size = 0
  BY <1>3 DEF Seen
<1>5. ASSUME NEW g \in File, g # f PROVE BytesOf(g)' = BytesOf(g)
  <2>1. Seen(g)'.cluster = Seen(g).cluster /\ Seen(g)'.size = Seen(g).size
    BY <1>3, <1>5 DEF Seen
  <2>2. Seen(g).cluster # NONE => Extends(fat', fat, Seen(g).cluster)
    <3>1. \A d \in AllStarts : d # entry[f].cluster => Extends(fat', fat, d)
      BY <1>1, TailIs, CutIs
    <3>2. Seen(g).cluster # NONE => Seen(g).cluster \in AllStarts /\ Seen(g).cluster # entry[f].cluster
      <4>1. Seen(g).cluster # NONE => Seen(g).cluster \in AllStarts /\ Seen(g).cluster \in Starts(g)
        BY SeenFacts
      <4>2. Starts(f) \cap Starts(g) = {}
        BY <1>5 DEF IInv, Chains
      <4> QED BY <4>1, <4>2 DEF Starts
    <3> QED BY <3>1, <3>2
  <2> QED BY <1>1, <2>1, <2>2, FileQuiet
<1>6. Content' = [Content EXCEPT ![f] = << >>]
  <2>1. BytesOf(f)' = << >>
    <3>1. \A b, v, c : Text(b, v, c, 0) = << >>
      BY DEF Text
    <3>2. Zeros(0) = << >>
      BY DEF Zeros
    <3> QED BY <1>4, <3>1, <3>2, BytesAreThen
  <2> QED BY <1>5, <2>1 DEF Content
<1>7. Pos' = [Pos EXCEPT ![f] = 0] /\ Pos[f] = -1
  <2>1. Pos[f] = -1
    BY <1>1, PosIs
  <2>2. handle'[f].open /\ handle'[f].offset = 0 /\ \A g \in File : g # f => handle'[g] = handle[g]
    BY <1>3
  <2>3. Pos' = [Pos EXCEPT ![f] = 0]
    BY <2>2 DEF Pos
  <2> QED BY <2>1, <2>3
<1>8. Quiet' /\ CallOf(op)' = NoCall /\ CallOf(op) = NoCall /\ got = << >>
  BY <1>1, NothingLeft, CallNow DEF Idle
<1>9. Promise!Next
  <2>1. UNCHANGED <<CallOf(op), got, damaged>> /\ ret' = "ok" /\ CallOf(op).kind = "none"
    BY <1>1, <1>8 DEF NoCall
  <2> QED BY <1>6, <1>7, <2>1, IsOpenTruncate
<1>10. Pending'
  <2>1. op'.pc \notin Writes
    BY <1>1 DEF NoOp, Writes
  <2>2. entry'[f] = [cluster |-> handle'[f].cluster, size |-> handle'[f].size]
    BY <1>3
  <2>3. ASSUME NEW g \in File \ damaged, g # f, handle'[g].open /\ ~ handle'[g].dirty
        PROVE  entry'[g] = [cluster |-> handle'[g].cluster, size |-> handle'[g].size]
    <3>1. handle'[g] = handle[g] /\ entry'[g] = entry[g]
      BY <1>3, <2>3
    <3> QED BY <2>3, <3>1 DEF RInv, Pending
  <2>4. damaged' = damaged
    BY <1>1
  <2> QED BY <2>1, <2>2, <2>3, <2>4 DEF Pending
<1> QED BY <1>1, <1>8, <1>9, <1>10, CacheGone DEF Refines, RInv

LEMMA Empty ==
  /\ \A f : Seen(f).size = 0 => BytesOf(f) = << >>
  /\ \A f : Seen(f)'.size = 0 => BytesOf(f)' = << >>
<1>1. \A b, v, c : Text(b, v, c, 0) = << >>
  BY DEF Text
<1>2. Zeros(0) = << >>
  BY DEF Zeros
<1> QED BY <1>1, <1>2, BytesAre, BytesAreThen

LEMMA OpenTruncateFailsRefines ==
  ASSUME IInv, IInv', RInv, NEW f \in File, OpenTruncateFails(f)
  PROVE  Refines
<1> DEFINE tail == Length(entry[f].cluster) - 1
<1>1. /\ UNCHANGED <<blocks, handle>> /\ cache' = Forgotten /\ Idle /\ ~ handle[f].open
      /\ op' = NoOp /\ got' = << >> /\ ret' = "error"
  BY DEF OpenTruncateFails, Openable, Fault, Fail, Return
<1>2. CASE UNCHANGED <<fat, entry, damaged>>
  BY <1>1, <1>2, NoEffectRefines
<1>3. CASE /\ \E n \in Int : (entry[f].cluster = NONE => n <= 0) /\ fat' = Cut(f, n)
           /\ entry' \in {entry, [entry EXCEPT ![f].size = 0]}
           /\ damaged' = damaged \cup {f}
  <2>1. entry \in [File -> [cluster : Cluster \cup {NONE}, size : 0 .. MaxFileSize]]
    BY DEF IInv, TypeOK
  <2>2. \A g \in File : g # f => entry'[g] = entry[g]
    BY <1>3, <2>1
  <2>3. ASSUME NEW g \in File \ damaged, g # f PROVE BytesOf(g)' = BytesOf(g)
    <3>1. Seen(g)'.cluster = Seen(g).cluster /\ Seen(g)'.size = Seen(g).size
      BY <1>1, <2>2, <2>3 DEF Seen
    <3>2. Seen(g).cluster # NONE => Extends(fat', fat, Seen(g).cluster)
      <4>1. \A d \in AllStarts : d # entry[f].cluster => Extends(fat', fat, d)
        BY <1>3, CutIs
      <4>2. Seen(g).cluster # NONE => Seen(g).cluster \in AllStarts /\ Seen(g).cluster # entry[f].cluster
        <5>1. Seen(g).cluster # NONE => Seen(g).cluster \in AllStarts /\ Seen(g).cluster \in Starts(g)
          BY SeenFacts
        <5>2. Starts(f) \cap Starts(g) = {}
          BY <2>3 DEF IInv, Chains
        <5> QED BY <5>1, <5>2 DEF Starts
      <4> QED BY <4>1, <4>2
    <3>3. g \in damaged' <=> g \in damaged
      BY <1>3, <2>3
    <3> QED BY <1>1, <3>1, <3>2, <3>3, FileQuiet
  <2>4. \A g \in File \ damaged : g # f => Content'[g] = Content[g] /\ Pos'[g] = Pos[g]
    BY <1>1, <2>3 DEF Content, Pos
  <2>5. Quiet' /\ CallOf(op)' = NoCall /\ CallOf(op) = NoCall /\ got = << >>
    BY <1>1, NothingLeft, CallNow DEF Idle
  <2>6. Promise!Next
    <3>1. UNCHANGED got /\ CallOf(op).kind = "none"
      BY <1>1, <2>5 DEF NoCall
    <3> QED BY <1>1, <1>3, <2>4, <2>5, <3>1, IsDamage
  <2>7. Pending'
    BY <1>1, <1>3, <2>2 DEF RInv, Pending, NoOp, Writes
  <2> QED BY <1>1, <2>5, <2>6, <2>7, CacheGone DEF Refines, RInv
<1>4. CASE /\ tail > 0
           /\ \E n \in 0 .. tail : fat' = Cut(f, n)
           /\ damaged' = damaged \cup {f}
           /\ UNCHANGED entry
  <2>1. tail \in Int /\ (entry[f].cluster = NONE => tail <= 0)
    BY TailIs
  <2>2. PICK n \in 0 .. tail : fat' = Cut(f, n)
    BY <1>4
  <2> HIDE DEF tail
  <2>3. n \in Int /\ entry[f].cluster # NONE
    BY <1>4, <2>1
  <2> QED BY <1>3, <1>4, <2>2, <2>3
<1>5. CASE /\ fat' = Cut(f, tail)
           /\ entry' = [entry EXCEPT ![f].size = 0]
           /\ damaged' = damaged \cup {f}
  <2>1. tail \in Int /\ (entry[f].cluster = NONE => tail <= 0)
    BY TailIs
  <2> HIDE DEF tail
  <2> QED BY <1>3, <1>5, <2>1
<1> QED BY <1>2, <1>4, <1>5 DEF OpenTruncateFails

LEMMA RewoundIs ==
  ASSUME NEW h \in HandleRec
  PROVE  /\ Rewound(h).open = h.open /\ Rewound(h).dirty = h.dirty /\ Rewound(h).cluster = h.cluster
         /\ Rewound(h).size = h.size /\ Rewound(h).offset = h.offset
BY DEF Rewound, HandleRec

LEMMA StartWriteRefines ==
  ASSUME IInv, IInv', RInv, NEW f \in File, NEW b \in Buffers, StartWrite(f, b)
  PROVE  Refines
<1>1. /\ Idle /\ handle[f].open /\ UNCHANGED <<fat, blocks, cache, entry, got, damaged, faults>>
      /\ handle \in [File -> HandleRec] /\ CallOf(op) = NoCall /\ got = << >>
  BY CallNow DEF StartWrite, IInv, TypeOK, HandleType, HandleRec, Idle
<1>2. CASE ~ handle[f].writable
  <2>1. op' = NoOp /\ UNCHANGED handle /\ ret' = "error" /\ got' = << >>
    BY <1>2 DEF StartWrite, Fail, Return
  <2> QED BY <1>1, <2>1, NoEffectRefines
<1>3. CASE handle[f].writable
  <2> DEFINE h == [handle[f] EXCEPT !.dirty = TRUE]
             n == Smaller(Len(b), MaxFileSize - handle[f].offset)
  <2>1. /\ h \in HandleRec /\ h.open = handle[f].open /\ h.cluster = handle[f].cluster /\ h.dirty
        /\ h.size = handle[f].size /\ h.offset = handle[f].offset
    BY <1>1 DEF HandleRec
  <2>2. /\ ret' = "none"
        /\ \/ op' = [Writing(f, b, h) EXCEPT !.pc = "first"] /\ handle' = [handle EXCEPT ![f] = h]
           \/ op' = Writing(f, b, h) /\ handle' = [handle EXCEPT ![f] = Rewound(h)]
    BY <1>3 DEF StartWrite
  <2>3. PICK pc \in {"first", "write"} :
          op' = [pc |-> pc, file |-> f, buffer |-> b, done |-> 0, todo |-> n]
    BY <2>1, <2>2 DEF Writing
  <2> HIDE DEF h
  <2>4. PICK r : /\ handle' = [handle EXCEPT ![f] = r]
                 /\ r.open = h.open /\ r.dirty = h.dirty /\ r.cluster = h.cluster /\ r.size = h.size
                 /\ r.offset = h.offset
    BY <2>1, <2>2, RewoundIs
  <2>5. /\ handle'[f].open = handle[f].open /\ handle'[f].dirty /\ handle'[f].cluster = handle[f].cluster
        /\ handle'[f].size = handle[f].size /\ handle'[f].offset = handle[f].offset
        /\ \A g \in File : g # f => handle'[g] = handle[g]
    BY <1>1, <2>1, <2>4
  <2>6. /\ \A g \in File : Seen(g)'.cluster = Seen(g).cluster /\ Seen(g)'.size = Seen(g).size
        /\ Pos' = Pos
    BY <1>1, <2>5 DEF Seen, Pos
  <2>7. Content' = Content
    BY <1>1, <2>6, AllSame, SameChain
  <2>8. /\ n \in Nat /\ n <= Len(b) /\ Len(b) \in Nat
        /\ Pos[f] = handle[f].offset /\ handle[f].offset \in Nat
    <3>1. handle[f].offset \in 0 .. MaxFileSize /\ MaxFileSize \in Nat /\ Len(b) \in Nat
      BY <1>1, Sizes, BufferFacts DEF HandleRec
    <3>2. n \in Nat /\ n <= Len(b)
      BY <3>1 DEF Smaller
    <3> QED BY <1>1, <3>1, <3>2, PosIs
  <2> HIDE DEF n
  <2>9. CallOf(op') = [kind |-> "write", file |-> f, rest |-> SubSeq(b, 1, n), want |-> 0]
    <3>1. /\ op'.pc \in Writes /\ op'.todo = n /\ op'.buffer = b /\ op'.done + 1 = 1 /\ op'.file = f
      BY <2>3 DEF Writes
    <3>2. CallOf(op') = [kind |-> "write", file |-> op'.file, rest |-> SubSeq(op'.buffer, op'.done + 1, op'.todo),
                         want |-> 0]
      BY <2>8, <3>1, CallWrite
    <3> QED BY <3>1, <3>2
  <2>10. Promise!Next
    <3>1. CallOf(op)' = [kind |-> "write", file |-> f, want |-> 0,
                        rest |-> SubSeq(b, 1, Smaller(Len(b), MaxFileSize - Pos[f]))]
      BY <2>8, <2>9 DEF n, CallOf
    <3>2. Pos[f] # -1
      BY <2>8
    <3> QED BY <1>1, <2>2, <2>6, <2>7, <3>1, <3>2, IsStartWrite DEF NoCall
  <2>11. Quiet' /\ Pending'
    <3>1. op'.pc \in {"first", "write"} /\ op'.file = f
      BY <2>3
    <3> QED BY <1>1, <2>5, <3>1 DEF Quiet, Pending, RInv
  <2>12. Coherent'
    BY <1>1, <2>6, CacheKept DEF RInv
  <2> QED BY <2>10, <2>11, <2>12 DEF Refines, RInv
<1> QED BY <1>2, <1>3

LEMMA Grows ==
  ASSUME IInv, NEW p, p = NONE \/ (p \in Cluster /\ fat[p] = END_OF_FILE),
         fat' = fat \/ \E q \in {NONE, p}, c \in FreeClusters : fat' = Alloc(q, c)
  PROVE  \A d \in AllStarts : Extends(fat', fat, d)
<1>1. CASE fat' = fat
  BY <1>1, SameChain
<1>2. CASE \E q \in {NONE, p}, c \in FreeClusters : fat' = Alloc(q, c)
  <2>1. PICK q \in {NONE, p}, c \in FreeClusters : fat' = Alloc(q, c)
    BY <1>2
  <2>2. q = NONE \/ (q \in Cluster /\ fat[q] = END_OF_FILE)
    BY <2>1
  <2> QED BY <2>1, <2>2, AllocIs
<1> QED BY <1>1, <1>2

LEMMA AllocFirstRefines == ASSUME IInv, IInv', RInv, AllocFirst PROVE Refines
<1> DEFINE f == op.file
<1>1. /\ op.pc = "first" /\ op.pc \in Writes /\ ~ Idle /\ UNCHANGED <<blocks, entry, damaged>> /\ cache' = Forgotten
      /\ f \in File /\ handle[f].open /\ handle[f].cluster = NONE /\ handle[f].dirty
      /\ handle \in [File -> HandleRec] /\ OpOK
  <2>1. op.pc = "first" /\ op.pc \in Writes /\ UNCHANGED <<blocks, entry, damaged>> /\ cache' = Forgotten /\ OpOK
    BY DEF AllocFirst, IInv, Writes
  <2> QED BY <2>1 DEF OpOK, Writes, Idle, RInv, Pending, IInv, TypeOK, HandleType, HandleRec
<1>2. ASSUME UNCHANGED handle, fat' = fat \/ \E q \in {NONE, NONE}, c \in FreeClusters : fat' = Alloc(q, c),
             op' = NoOp, got' = << >>, ret' = "error"
      PROVE  Refines
  BY <1>1, <1>2, Grows, FailsRefines, Untouched
<1>3. ASSUME NEW c \in FreeClusters, fat' = Alloc(NONE, c),
             handle' = [handle EXCEPT ![f] = Rewound([handle[f] EXCEPT !.cluster = c])],
             op' = [op EXCEPT !.pc = "write"], UNCHANGED <<got, ret>>
      PROVE  Refines
  <2> DEFINE h == [handle[f] EXCEPT !.cluster = c]
  <2>1. c \in Cluster /\ \A d \in AllStarts : Extends(fat', fat, d)
    BY <1>3, AllocIs
  <2>2. /\ h \in HandleRec /\ h.open = handle[f].open /\ h.dirty = handle[f].dirty /\ h.size = handle[f].size
        /\ h.offset = handle[f].offset
    <3> DEFINE k == handle[f]
    <3>1. k \in HandleRec
      BY <1>1
    <3>2. c \in Cluster
      BY <2>1
    <3> HIDE DEF k
    <3>3. [k EXCEPT !.cluster = c] \in HandleRec
      BY <3>1, <3>2 DEF HandleRec
    <3>4. LET j == [k EXCEPT !.cluster = c]
          IN  j.open = k.open /\ j.dirty = k.dirty /\ j.size = k.size /\ j.offset = k.offset
      BY <3>1 DEF HandleRec
    <3> QED BY <3>3, <3>4 DEF k
  <2> HIDE DEF h
  <2>3. handle' = [handle EXCEPT ![f] = Rewound(h)]
    BY <1>3 DEF h
  <2>4. /\ handle'[f].open = handle[f].open /\ handle'[f].dirty = handle[f].dirty
        /\ handle'[f].size = handle[f].size /\ handle'[f].offset = handle[f].offset
        /\ \A g \in File : g # f => handle'[g] = handle[g]
    BY <1>1, <2>2, <2>3, RewoundIs
  <2>5. handle[f].size = 0
    BY <1>1, FileFacts DEF HandleOK
  <2>6. Pos' = Pos
    BY <2>4 DEF Pos
  <2>7. ASSUME NEW g \in File PROVE BytesOf(g)' = BytesOf(g)
    <3>1. CASE g = f
      <4>1. handle[g].open /\ handle[g].size = 0 /\ handle'[g].open /\ handle'[g].size = 0
        BY <1>1, <2>4, <2>5, <3>1
      <4>2. Seen(g).size = 0 /\ Seen(g)'.size = 0
        BY <4>1 DEF Seen
      <4> QED BY <4>2, Empty
    <3>2. CASE g # f
      <4>1. Seen(g)'.cluster = Seen(g).cluster /\ Seen(g)'.size = Seen(g).size
        BY <1>1, <2>4, <3>2 DEF Seen
      <4> QED BY <1>1, <2>1, <4>1, FileQuiet, SeenFacts
    <3> QED BY <3>1, <3>2
  <2>8. Content' = Content
    BY <2>7 DEF Content
  <2>9. /\ op'.pc = "write" /\ op'.file = f /\ op'.todo = op.todo /\ op'.done = op.done
        /\ op'.buffer = op.buffer /\ op'.pc \in Writes
    BY <1>1, <1>3 DEF OpOK, OpType, Writes
  <2>10. CallOf(op') = CallOf(op)
    <3>1. /\ op.todo \in Nat /\ Len(op.buffer) \in Nat /\ op.todo <= Len(op.buffer)
      BY <1>1 DEF OpOK, OpType
    <3> QED BY <1>1, <2>9, <3>1, CallWrite
  <2>11. CallOf(op)' = CallOf(op)
    BY <2>10 DEF CallOf
  <2>12. UNCHANGED Promise!vars
    BY <1>1, <1>3, <2>6, <2>8, <2>11, IsStutter
  <2>13. Quiet' /\ Pending'
    <3>1. got = << >>
      BY <1>1, CallNow
    <3> QED BY <1>1, <1>3, <2>4, <2>9, <3>1 DEF Quiet, Pending, RInv
  <2> QED BY <1>1, <2>12, <2>13, CacheGone DEF Refines, RInv
<1>4. CASE /\ \A c, d \in FreeClusters : c = d
           /\ fat' = [c \in Cluster |-> IF c \in FreeClusters THEN END_OF_FILE ELSE fat[c]]
           /\ Fail /\ UNCHANGED <<handle, faults>>
  <2>1. fat \in [Cluster -> Node]
    BY DEF IInv, Chains, SoundFat, Fats
  <2>2. CASE FreeClusters = {}
    <3>1. fat' = fat
      BY <1>4, <2>1, <2>2
    <3> QED BY <1>2, <1>4, <3>1 DEF Fail, Return
  <2>3. CASE FreeClusters # {}
    <3>1. PICK c \in FreeClusters : TRUE
      BY <2>3
    <3>2. FreeClusters = {c}
      BY <1>4, <3>1
    <3>3. fat' = Alloc(NONE, c)
      BY <1>4, <3>2, ClusterFacts DEF Alloc
    <3> QED BY <1>2, <1>4, <3>1, <3>3 DEF Fail, Return
  <2> QED BY <2>2, <2>3
<1>5. CASE fat' \in AllocRange(NONE) /\ Fault /\ UNCHANGED handle
  BY <1>2, <1>5 DEF AllocRange, Fault, Fail, Return
<1>6. CASE \E c \in FreeClusters :
              /\ FreeClusters # {c}
              /\ fat' = Alloc(NONE, c)
              /\ handle' = [handle EXCEPT ![op.file] = Rewound([handle[f] EXCEPT !.cluster = c])]
              /\ op' = [op EXCEPT !.pc = "write"]
              /\ UNCHANGED <<ret, faults, got>>
  BY <1>3, <1>6
<1> QED BY <1>4, <1>5, <1>6 DEF AllocFirst

LEMMA ExtendRefines == ASSUME IInv, IInv', RInv, Extend PROVE Refines
<1> DEFINE f == op.file
           c0 == handle[f].cluster
           last == Last(c0)
<1>1. /\ op.pc = "write" /\ op.pc \in Writes /\ ~ Idle
      /\ UNCHANGED <<blocks, entry, handle, damaged, got>> /\ cache' = Forgotten /\ got = << >>
      /\ f \in File /\ handle[f].open /\ c0 # NONE /\ handle[f].dirty /\ OpOK
  <2>1. /\ op.pc = "write" /\ op.pc \in Writes /\ cache' = Forgotten /\ OpOK
        /\ UNCHANGED <<blocks, entry, handle, damaged, got>>
    BY DEF Extend, IInv, Writes
  <2>2. got = << >>
    BY <2>1, CallNow
  <2> QED BY <2>1, <2>2 DEF OpOK, Writes, Idle, RInv, Pending
<1>2. last \in Cluster /\ fat[last] = END_OF_FILE
  BY <1>1, FileFacts, LastIs
<1> HIDE DEF last
<1>3. ASSUME fat' = fat \/ \E q \in {NONE, last}, c \in FreeClusters : fat' = Alloc(q, c)
      PROVE  \A d \in AllStarts : Extends(fat', fat, d)
  BY <1>2, <1>3, Grows
<1>4. ASSUME NEW c \in FreeClusters, fat' = Alloc(last, c),
             op' = [op EXCEPT !.pc = "extended"], UNCHANGED ret
      PROVE  Refines
  <2>1. Content' = Content /\ Pos' = Pos
    BY <1>1, <1>3, <1>4, Untouched, SameSeen, AllSame
  <2>2. /\ op'.pc = "extended" /\ op'.file = f /\ op'.todo = op.todo /\ op'.done = op.done
        /\ op'.buffer = op.buffer /\ op'.pc \in Writes
    BY <1>1, <1>4 DEF OpOK, OpType, Writes
  <2>3. CallOf(op') = CallOf(op)
    <3>1. /\ op.todo \in Nat /\ Len(op.buffer) \in Nat /\ op.todo <= Len(op.buffer)
      BY <1>1 DEF OpOK, OpType
    <3> QED BY <1>1, <2>2, <3>1, CallWrite
  <2>4. CallOf(op)' = CallOf(op)
    BY <2>3 DEF CallOf
  <2>5. UNCHANGED Promise!vars
    BY <1>1, <1>4, <2>1, <2>4, IsStutter
  <2>6. Quiet' /\ Pending'
    BY <1>1, <2>2 DEF Quiet, Pending, RInv
  <2> QED BY <1>1, <2>5, <2>6, CacheGone DEF Refines, RInv
<1>5. ASSUME fat' = fat \/ \E q \in {NONE, last}, c \in FreeClusters : fat' = Alloc(q, c),
             op' = NoOp, got' = << >>, ret' = "error"
      PROVE  Refines
  BY <1>1, <1>3, <1>5, FailsRefines, Untouched
<1>6. CASE /\ fat' = IF FreeClusters = {} THEN fat
                     ELSE Alloc(last, CHOOSE c \in FreeClusters : TRUE)
           /\ Fail /\ UNCHANGED faults
  BY <1>5, <1>6 DEF Fail, Return
<1>7. CASE fat' \in AllocRange(last) /\ Fault
  BY <1>5, <1>7 DEF AllocRange, Fault, Fail, Return
<1> QED BY <1>4, <1>6, <1>7 DEF Extend, last

LEMMA ExtendedTooLittleRefines == ASSUME IInv, IInv', RInv, ExtendedTooLittle PROVE Refines
<1>1. /\ UNCHANGED <<fat, blocks, entry, handle, damaged>> /\ cache' = Forgotten /\ ~ Idle
      /\ op' = NoOp /\ got' = << >> /\ ret' = "error"
  BY DEF ExtendedTooLittle, Fail, Return, Idle
<1> QED BY <1>1, SameChain, Untouched, FailsRefines

\* A call that has done all it was asked for.
LEMMA EndsRefine ==
  ASSUME IInv, IInv', RInv, ~ Idle, UNCHANGED <<fat, blocks, cache, entry, handle, damaged>>,
         op' = NoOp, got' = << >>, ret' = "ok",
         \/ op.pc \in Writes /\ op.done = op.todo
         \/ op.pc = "read" /\ op.done = op.todo
         \/ op.pc = "read" /\ handle[op.file].offset = handle[op.file].size
  PROVE  Refines
<1>1. SameHandles /\ Quiet' /\ CallOf(op)' = NoCall
  BY Untouched, NothingLeft
<1>2. Pending' /\ Coherent'
  BY <1>1, SamePending, SameCache
<1>3. Content' = Content /\ Pos' = Pos
  BY <1>1, AllSame, SameSeen, SameChain
<1>4. op.file \in File /\ handle[op.file].open /\ op.todo \in Nat /\ op.done \in Nat /\ OpOK
  BY DEF IInv, OpOK, OpType, Idle
<1>5. CallOf(op).kind # "none"
  BY CallNow DEF Idle
<1>6. CASE op.pc \in Writes /\ op.done = op.todo
  <2>1. CallOf(op).kind = "write" /\ CallOf(op).rest = << >>
    <3>1. SubSeq(op.buffer, op.done + 1, op.todo) = << >>
      BY <1>4, <1>6
    <3>2. CallOf(op) = [kind |-> "write", file |-> op.file, rest |-> SubSeq(op.buffer, op.done + 1, op.todo),
                        want |-> 0]
      BY <1>6, CallNow
    <3> QED BY <3>1, <3>2
  <2> QED BY <1>1, <1>2, <1>3, <1>5, <2>1, IsReturn DEF Refines, RInv
<1>7. CASE op.pc = "read" /\ op.done = op.todo
  <2>1. CallOf(op).kind = "read" /\ CallOf(op).want = 0
    BY <1>4, <1>7, CallNow
  <2> QED BY <1>1, <1>2, <1>3, <1>5, <2>1, IsReturn DEF Refines, RInv
<1>8. CASE op.pc = "read" /\ handle[op.file].offset = handle[op.file].size
  <2>1. CallOf(op).kind = "read" /\ CallOf(op).file = op.file
    BY <1>8, CallNow
  <2>2. Pos[op.file] = Len(Content[op.file])
    BY <1>4, <1>8, HasLength, PosIs DEF Seen
  <2> QED BY <1>1, <1>2, <1>3, <1>5, <2>1, <2>2, IsReturn DEF Refines, RInv
<1> QED BY <1>6, <1>7, <1>8

LEMMA EndWriteRefines == ASSUME IInv, IInv', RInv, EndWrite PROVE Refines
<1>1. /\ UNCHANGED <<fat, blocks, cache, entry, handle, damaged>> /\ ~ Idle
      /\ op' = NoOp /\ got' = << >> /\ ret' = "ok" /\ op.pc \in Writes /\ ~ (op.done < op.todo)
  BY DEF EndWrite, Done, Return, Idle, Writes, Progress
<1>2. op.done = op.todo
  BY <1>1 DEF IInv, OpOK, OpType
<1> QED BY <1>1, <1>2, EndsRefine

LEMMA EndReadRefines == ASSUME IInv, IInv', RInv, EndRead PROVE Refines
<1>1. /\ UNCHANGED <<fat, blocks, cache, entry, handle, damaged>> /\ ~ Idle
      /\ op' = NoOp /\ got' = << >> /\ ret' = "ok" /\ op.pc = "read"
      /\ handle[op.file].offset = handle[op.file].size \/ ~ (op.done < op.todo)
  BY DEF EndRead, Done, Return, Idle, Progress, AtEnd
<1>2. op.done <= op.todo /\ op.done \in Nat /\ op.todo \in Nat
  BY DEF IInv, OpOK, OpType
<1>3. op.done = op.todo \/ op.done < op.todo
  BY <1>2
<1> QED BY <1>1, <1>3, EndsRefine

LEMMA StartReadRefines ==
  ASSUME IInv, IInv', RInv, NEW f \in File, NEW size \in ReadSizes, StartRead(f, size)
  PROVE  Refines
<1>1. /\ UNCHANGED <<fat, blocks, cache, entry, handle, damaged>> /\ Idle /\ handle[f].open
      /\ op' = [pc |-> "read", file |-> f, buffer |-> << >>, todo |-> size, done |-> 0]
      /\ got' = << >> /\ ret' = "none"
  BY DEF StartRead
<1>2. Content' = Content /\ Pos' = Pos
  BY <1>1, Untouched, AllSame, SameSeen, SameChain
<1>3. CallOf(op).kind = "none"
  BY <1>1, CallNow DEF Idle
<1>4. size \in Nat
  BY SizeAssumption
<1>5. CallOf(op') = [kind |-> "read", file |-> f, rest |-> << >>, want |-> size]
  <2>1. op'.pc = "read" /\ op'.buffer = << >> /\ op'.todo = size /\ op'.done = 0 /\ op'.file = f
    BY <1>1
  <2>2. CallOf(op') = [kind |-> "read", file |-> op'.file, rest |-> << >>, want |-> op'.todo - op'.done]
    BY <1>4, <2>1, CallRead
  <2> QED BY <1>4, <2>1, <2>2
<1>6. CallOf(op)' = [kind |-> "read", file |-> f, rest |-> << >>, want |-> size]
  BY <1>5 DEF CallOf
<1>7. Pos[f] # -1
  <2>1. handle[f].offset \in 0 .. MaxFileSize
    BY FileFacts DEF HandleRec
  <2> QED BY <1>1, <2>1, PosIs, Sizes
<1>8. Promise!Next
  BY <1>1, <1>2, <1>3, <1>6, <1>7, IsStartRead
<1>9. Quiet' /\ Pending'
  BY <1>1 DEF RInv, Quiet, Pending, Writes
<1>10. Coherent'
  BY <1>1, CacheKept DEF RInv, Seen
<1> QED BY <1>8, <1>9, <1>10 DEF Refines, RInv

LEMMA SeekRefines ==
  ASSUME IInv, IInv', RInv, NEW f \in File, NEW offset \in Int, Seek(f, offset)
  PROVE  Refines
<1>1. /\ UNCHANGED <<fat, blocks, cache, entry, damaged>> /\ Idle /\ handle[f].open
      /\ op' = NoOp /\ got' = << >> /\ handle \in [File -> HandleRec]
  BY DEF Seek, Done, Fail, Return, IInv, TypeOK, HandleType, HandleRec
<1>2. CASE UNCHANGED handle /\ ret' = "error"
  BY <1>1, <1>2, NoEffectRefines
<1>3. CASE offset \in 0 .. handle[f].size /\ handle' = [handle EXCEPT ![f].offset = offset] /\ ret' = "ok"
  <2>1. /\ handle'[f].open /\ handle'[f].dirty = handle[f].dirty /\ handle'[f].cluster = handle[f].cluster
        /\ handle'[f].size = handle[f].size /\ handle'[f].offset = offset
        /\ \A g \in File : g # f => handle'[g] = handle[g]
    BY <1>1, <1>3 DEF HandleRec
  <2>2. \A g \in File : Seen(g)'.cluster = Seen(g).cluster /\ Seen(g)'.size = Seen(g).size
    BY <1>1, <2>1 DEF Seen
  <2>3. Content' = Content
    BY <1>1, <2>2, AllSame, SameChain
  <2>4. Pos' = [Pos EXCEPT ![f] = offset]
    BY <1>1, <2>1 DEF Pos
  <2>5. offset \in 0 .. Len(Content[f])
    BY <1>1, <1>3, HasLength DEF Seen
  <2>6. Pos[f] # -1
    <3>1. handle[f].offset \in 0 .. MaxFileSize
      BY FileFacts DEF HandleRec
    <3> QED BY <1>1, <3>1, PosIs, Sizes
  <2>7. Quiet' /\ CallOf(op)' = NoCall /\ CallOf(op) = NoCall /\ got = << >>
    BY <1>1, NothingLeft, CallNow DEF Idle
  <2>8. Promise!Next
    <3>1. UNCHANGED <<CallOf(op), got, damaged>> /\ CallOf(op).kind = "none"
      BY <1>1, <2>7 DEF NoCall
    <3> QED BY <1>3, <2>3, <2>4, <2>5, <2>6, <3>1, IsSeek
  <2>9. Pending'
    BY <1>1, <2>1 DEF RInv, Pending, NoOp, Writes
  <2>10. Coherent'
    BY <1>1, <2>2, CacheKept DEF RInv
  <2> QED BY <2>7, <2>8, <2>9, <2>10 DEF Refines, RInv
<1> QED BY <1>1, <1>2, <1>3 DEF Seek, Done, Fail, Return

LEMMA FlushRefines ==
  ASSUME IInv, IInv', RInv, NEW f \in File, NEW closing \in BOOLEAN, Flush(f, closing)
  PROVE  Refines
<1>1. /\ UNCHANGED <<fat, blocks>> /\ Idle /\ handle[f].open /\ op' = NoOp /\ got' = << >>
      /\ cache' \in {cache, Forgotten} /\ ret' \in {"ok", "error"} /\ entry' \in {entry, Saved(f)}
      /\ handle' = IF closing THEN [handle EXCEPT ![f] = Closed] ELSE handle
      /\ damaged' = IF closing /\ Unsaved(f, entry') THEN damaged \cup {f} ELSE damaged
      /\ handle[f].dirty /\ entry' = entry => ret' = "error" \/ Saved(f) = entry
      /\ handle \in [File -> HandleRec]
      /\ entry \in [File -> [cluster : Cluster \cup {NONE}, size : 0 .. MaxFileSize]]
  BY DEF Flush, Done, Fault, Fail, Return, IInv, TypeOK, HandleType, HandleRec
<1> DEFINE save == [cluster |-> handle[f].cluster, size |-> handle[f].size]
<1>2. entry'[f] \in {entry[f], save} /\ \A g \in File : g # f => entry'[g] = entry[g]
  BY <1>1 DEF Saved
<1>3. /\ Quiet' /\ CallOf(op)' = NoCall /\ CallOf(op) = NoCall /\ got = << >> /\ CallOf(op).kind = "none"
      /\ CallOf(op)'.kind = "none" /\ UNCHANGED <<CallOf(op), got>>
  BY <1>1, NothingLeft, CallNow DEF Idle, NoCall
<1>4. Unsaved(f, entry') <=> entry'[f] # save
  BY <1>1 DEF Unsaved
<1>5. Pos[f] # -1
  <2>1. handle[f].offset \in 0 .. MaxFileSize
    BY <1>1 DEF HandleRec
  <2> QED BY <1>1, <2>1, PosIs, Sizes
<1> HIDE DEF save
<1>6. ASSUME damaged' = damaged, \A g \in File : Seen(g)'.cluster = Seen(g).cluster /\ Seen(g)'.size = Seen(g).size
      PROVE  Content' = Content /\ Coherent'
  <2>1. Content' = Content
    BY <1>1, <1>6, AllSame, SameChain
  <2>2. CASE cache' = cache
    <3>1. Coherent'
      BY <1>1, <1>6, <2>2, CacheKept DEF RInv
    <3> QED BY <2>1, <3>1
  <2>3. CASE cache' = Forgotten
    BY <2>1, <2>3, CacheGone
  <2> QED BY <1>1, <2>2, <2>3
<1>7. CASE ~ closing
  <2>1. UNCHANGED <<handle, damaged>>
    BY <1>1, <1>7
  <2>2. \A g \in File : Seen(g)'.cluster = Seen(g).cluster /\ Seen(g)'.size = Seen(g).size
    BY <1>1, <1>2, <2>1 DEF Seen
  <2>3. Pos' = Pos
    BY <2>1 DEF Pos
  <2>4. Promise!Next
    BY <1>1, <1>3, <1>6, <2>1, <2>2, <2>3, IsNoEffect
  <2>5. Pending'
    BY <1>1, <1>2, <2>1 DEF RInv, Pending, NoOp, Writes, save
  <2> QED BY <1>3, <1>6, <2>1, <2>2, <2>4, <2>5 DEF Refines, RInv
<1>8. CASE closing
  <2>1. /\ ~ handle'[f].open /\ \A g \in File : g # f => handle'[g] = handle[g]
    BY <1>1, <1>8 DEF Closed
  <2>2. Pos' = [Pos EXCEPT ![f] = -1]
    BY <2>1 DEF Pos
  <2>3. Pending'
    BY <1>1, <1>2, <2>1 DEF RInv, Pending, NoOp, Writes
  <2>4. \A g \in File : g # f => Seen(g)'.cluster = Seen(g).cluster /\ Seen(g)'.size = Seen(g).size
    BY <1>2, <2>1 DEF Seen
  <2>5. CASE entry'[f] = save
    <3>1. damaged' = damaged
      BY <1>1, <1>4, <2>5
    <3>2. Seen(f)'.cluster = Seen(f).cluster /\ Seen(f)'.size = Seen(f).size
      BY <1>1, <2>1, <2>5 DEF Seen, save
    <3>3. \A g \in File : Seen(g)'.cluster = Seen(g).cluster /\ Seen(g)'.size = Seen(g).size
      BY <2>4, <3>2
    <3>4. Promise!Next
      BY <1>1, <1>3, <1>5, <1>6, <2>2, <3>1, <3>3, IsClose
    <3> QED BY <1>3, <1>6, <2>3, <3>1, <3>3, <3>4 DEF Refines, RInv
  <2>6. CASE entry'[f] # save
    <3>1. damaged' = damaged \cup {f} /\ entry'[f] = entry[f]
      BY <1>1, <1>2, <1>4, <1>8, <2>6
    <3>2. \A g \in File \ damaged : g # f => Content'[g] = Content[g] /\ Pos'[g] = Pos[g]
      <4>1. ASSUME NEW g \in File \ damaged, g # f PROVE BytesOf(g)' = BytesOf(g)
        <5>1. g \in damaged' <=> g \in damaged
          BY <3>1, <4>1
        <5> QED BY <1>1, <2>4, <4>1, <5>1, FileQuiet, SameChain
      <4> QED BY <2>1, <4>1 DEF Content, Pos
    <3>3. Coherent'
      <4>1. CASE cache' = cache
        BY <1>1, <2>4, <3>1, <4>1, CacheKept DEF RInv
      <4>2. CASE cache' = Forgotten
        BY <4>2, CacheGone
      <4> QED BY <1>1, <4>1, <4>2
    <3>4. CASE f \in damaged
      <4>1. damaged' = damaged /\ damaged # {}
        BY <3>1, <3>4
      <4>2. \A g \in File \ damaged : Content'[g] = Content[g] /\ Pos'[g] = Pos[g]
        BY <3>2, <3>4
      <4>3. Promise!Next
        BY <1>3, <4>1, <4>2, IsDisturb
      <4> QED BY <1>3, <2>3, <3>3, <4>3 DEF Refines, RInv
    <3>5. CASE f \notin damaged
      <4>1. entry[f] # save
        BY <2>6, <3>1
      <4>2. handle[f].dirty
        BY <1>1, <3>5, <4>1 DEF RInv, Pending, save
      <4>3. entry' = entry /\ Saved(f) # entry
        BY <1>1, <2>6, <3>1, <4>1 DEF Saved, save
      <4>4. ret' = "error"
        BY <1>1, <4>2, <4>3
      <4>5. Promise!Next
        BY <1>3, <3>1, <3>2, <4>4, IsDamage
      <4> QED BY <1>3, <2>3, <3>3, <4>5 DEF Refines, RInv
    <3> QED BY <3>4, <3>5
  <2> QED BY <2>5, <2>6
<1> QED BY <1>7, <1>8

LEMMA PowerLossRefines == ASSUME IInv, IInv', RInv, PowerLoss PROVE Refines
<1> DEFINE lost == {f \in File : Unsaved(f, entry)}
<1>1. /\ UNCHANGED <<fat, blocks, entry>> /\ cache' = Forgotten /\ op' = NoOp /\ ret' = "none" /\ got' = << >>
      /\ \A f \in File : ~ handle'[f].open
      /\ damaged' = damaged \cup lost
      /\ handle \in [File -> HandleRec]
  BY DEF PowerLoss, Closed, IInv, TypeOK, HandleType, HandleRec
<1>2. Quiet' /\ CallOf(op)' = NoCall
  BY <1>1, NothingLeft
<1>3. Pending' /\ Coherent'
  BY <1>1, CacheGone DEF Pending, NoOp, Writes
<1>4. lost \in SUBSET {f \in File : Pos[f] # -1}
  <2>1. \A f \in File : handle[f].offset \in 0 .. MaxFileSize
    BY <1>1 DEF HandleRec
  <2>2. \A f \in File : handle[f].open => Pos[f] # -1
    BY <2>1, PosIs, Sizes
  <2> QED BY <2>2 DEF Unsaved
<1>5. \A g \in File : Pos'[g] = -1
  BY <1>1 DEF Pos
<1>6. \A g \in File \ damaged' : Content'[g] = Content[g]
  <2>1. ASSUME NEW g \in File \ damaged' PROVE BytesOf(g)' = BytesOf(g)
    <3>1. g \notin damaged /\ ~ Unsaved(g, entry)
      BY <1>1, <2>1
    <3>2. Seen(g)'.cluster = Seen(g).cluster /\ Seen(g)'.size = Seen(g).size
      BY <1>1, <3>1 DEF Seen, Unsaved
    <3>3. g \in damaged' <=> g \in damaged
      BY <2>1, <3>1
    <3> QED BY <1>1, <3>2, <3>3, FileQuiet, SameChain
  <2> QED BY <2>1 DEF Content
<1> HIDE DEF lost
<1>7. Promise!Next
  BY <1>1, <1>2, <1>4, <1>5, <1>6, IsCrash
<1> QED BY <1>2, <1>3, <1>7 DEF Refines, RInv

-----------------------------------------------------------------------------
(* Steps that move bytes *)

\* The bytes up to the end of a block are one after the other in it.
LEMMA Near ==
  ASSUME NEW p \in Nat, NEW q \in Nat, p <= q, q < p + (BlockLen - (p % BlockLen))
  PROVE  /\ q % BlockLen = (p % BlockLen) + (q - p)
         /\ \A v, c : Place(v, c, q) = Place(v, c, p)
<1> DEFINE B == BytesPerCluster
           L == BlockLen
           k == p \div B
           x == k * B
           j == (p - x) \div L
           o == p % L
           z == j * L
<1>1. B \in Nat /\ L \in Nat \ {0}
  BY Sizes
<1>2. /\ k \in Nat /\ j \in 0 .. BlocksPerCluster - 1 /\ o \in 0 .. L - 1 /\ x \in Nat
      /\ x <= p /\ p < x + B /\ p = x + z + o /\ j = (p % B) \div L
  <2>1. /\ k \in Nat /\ (p % B) \div L \in 0 .. BlocksPerCluster - 1 /\ o \in 0 .. L - 1 /\ x \in Nat
        /\ x <= p /\ p < x + B /\ (p % B) \div L = j
        /\ p = x + ((p % B) \div L) * L + o
    BY Spot
  <2> HIDE DEF x, o, k
  <2> QED BY <2>1
<1>3. x + z + L <= x + B
  <2>1. k \in Nat /\ k * B <= p /\ p < k * B + B
    BY <1>2
  <2> HIDE DEF k
  <2> QED BY <2>1, Position
<1>4. z \in Nat
  <2> HIDE DEF j
  <2> QED BY <1>1, <1>2
<1> HIDE DEF z, o, x
<1>5. x <= q /\ q < x + B /\ q - x = z + (o + (q - p)) /\ o + (q - p) \in 0 .. L - 1
  BY <1>1, <1>2, <1>3, <1>4 DEF o
<1>6. (q - x) \div L = j /\ (q - x) % L = o + (q - p)
  <2>1. q - x \in Nat /\ j \in Nat /\ q - x = L * j + (o + (q - p))
    <3>1. z = L * j
      <4> HIDE DEF j
      <4> QED BY <1>1, <1>2 DEF z
    <3> QED BY <1>2, <1>5, <3>1
  <2> HIDE DEF j
  <2> QED BY <1>1, <1>5, <2>1, QuotientIs
<1>7. /\ q = x + ((q - x) \div L) * L + (q % L) /\ q \div B = k
  <2>1. k * B <= q /\ q < k * B + B
    BY <1>5 DEF x
  <2> HIDE DEF k
  <2> QED BY <1>2, <2>1, Position DEF x
<1>8. q % L = o + (q - p)
  <2> DEFINE w == q % L
             e == q - p
  <2>1. q = x + z + w /\ w \in 0 .. L - 1
    BY <1>6, <1>7, Spot DEF z
  <2>2. q - x = z + (o + e) /\ e \in Int /\ o \in Int /\ x \in Int /\ w \in Int
    BY <1>1, <1>2, <1>5, <2>1 DEF o
  <2> HIDE DEF w, e
  <2>3. w = o + e
    BY <1>4, <2>1, <2>2
  <2> QED BY <2>3 DEF w, e
<1>9. (q % B) \div L = j
  <2>1. (q % B) \div L = (q - (q \div B) * B) \div L
    BY Spot
  <2> QED BY <1>6, <1>7, <2>1 DEF x
<1>10. \A v, c : Place(v, c, q) = Place(v, c, p)
  BY <1>2, <1>7, <1>9 DEF Place, k
<1> QED BY <1>8, <1>10 DEF o

\* A block is of one file, and holds its bytes in order.
LEMMA Mine ==
  ASSUME IInv, NEW f \in File, NEW g \in File, Seen(f).cluster # NONE, Seen(g).cluster # NONE,
         NEW p \in Nat, NEW q \in Nat, Walk(fat, Seen(f).cluster, p \div BytesPerCluster) \in Cluster,
         Place(fat, Seen(g).cluster, q) = Place(fat, Seen(f).cluster, p)
  PROVE  f = g /\ q - p = (q % BlockLen) - (p % BlockLen)
<1>1. p \div BytesPerCluster \in Nat /\ q \div BytesPerCluster \in Nat
  BY Spot
<1>2. /\ Walk(fat, Seen(f).cluster, p \div BytesPerCluster) = Walk(fat, Seen(g).cluster, q \div BytesPerCluster)
      /\ (q % BytesPerCluster) \div BlockLen = (p % BytesPerCluster) \div BlockLen
  BY DEF Place
<1>3. f = g /\ p \div BytesPerCluster = q \div BytesPerCluster
  BY <1>1, <1>2, OnePlace
<1> QED BY <1>2, <1>3, SameSpot

\* The block at the offset is the one that holds the byte there.
LEMMA AtOffset ==
  ASSUME IInv, NEW f \in File, handle[f].open, handle[f].cluster # NONE, ~ Locate(handle[f]).ended
  PROVE  /\ BlockAt(handle[f], Locate(handle[f])) = Place(fat, handle[f].cluster, handle[f].offset)
         /\ Walk(fat, handle[f].cluster, handle[f].offset \div BytesPerCluster) \in Cluster
         /\ handle[f].offset \in Nat /\ Seen(f) = handle[f]
<1> DEFINE h == handle[f]
           l == Locate(h)
<1>1. PICK k \in Nat : /\ l.at = <<k * BytesPerCluster, Walk(fat, h.cluster, k)>>
                       /\ k * BytesPerCluster <= h.offset
                       /\ h.offset < k * BytesPerCluster + BytesPerCluster
                       /\ Walk(fat, h.cluster, k) \in Cluster
  BY Located
<1>2. h.offset \in Nat
  BY FileFacts, Sizes DEF HandleRec
<1> DEFINE p == h.offset
<1> HIDE DEF l, p
<1>3. p \in Nat /\ k * BytesPerCluster <= p /\ p < k * BytesPerCluster + BytesPerCluster
  BY <1>1, <1>2 DEF p
<1>4. p \div BytesPerCluster = k
  BY <1>3, Position
<1>5. (p % BytesPerCluster) \div BlockLen = (p - k * BytesPerCluster) \div BlockLen
  BY <1>3, <1>4, Spot
<1>6. BlockAt(h, l) = <<Walk(fat, h.cluster, k), (p - k * BytesPerCluster) \div BlockLen>>
  BY <1>1 DEF BlockAt, p
<1> QED BY <1>1, <1>2, <1>4, <1>5, <1>6 DEF Place, Seen, l, p

\* What a write makes of a block: the bytes of the buffer, and around them what
\* files have there.
LEMMA NewBytesAre ==
  ASSUME IInv, RInv, Locatable
  PROVE  LET h == handle[op.file]
             n == ToWrite(h)
             o == h.offset % BlockLen
             b == BlockAt(h, Here)
             new == NewBytes(h, Here)
         IN  /\ n \in 1 .. BlockLen - o /\ o \in 0 .. BlockLen - 1
             /\ \A x \in (o + 1) .. (o + n) : new[x] = op.buffer[op.done + x - o]
             /\ \A g \in File \ damaged : \A q \in 0 .. Seen(g).size - 1 :
                  /\ Place(fat, Seen(g).cluster, q) = b
                  /\ g # op.file \/ q \notin h.offset .. h.offset + n - 1
                  => new[1 + (q % BlockLen)] = ByteAt(blocks, fat, Seen(g).cluster, q)
<1> DEFINE f == op.file
           h == handle[f]
           n == ToWrite(h)
           o == h.offset % BlockLen
           p == h.offset
           b == BlockAt(h, Here)
           new == NewBytes(h, Here)
           k == Cached(b, Here.walked).bytes
<1>1. /\ f \in File /\ h.open /\ h.cluster # NONE /\ ~ Locate(h).ended /\ Here = Locate(h)
      /\ n \in Nat /\ n <= BlockLen - o /\ n <= op.todo - op.done
  BY Writable DEF Here
<1>2. /\ b = Place(fat, h.cluster, p) /\ Walk(fat, h.cluster, p \div BytesPerCluster) \in Cluster
      /\ p \in Nat /\ Seen(f) = h
  BY <1>1, AtOffset
<1>3. o \in 0 .. BlockLen - 1 /\ BlockLen \in Nat
  <2> HIDE DEF h
  <2> QED BY <1>2, Spot, Sizes
<1>4. n >= 1
  <2>1. op.done < op.todo /\ op.done \in Nat /\ op.todo \in Nat
    BY DEF IInv, OpOK, OpType, Locatable, Progress
  <2>2. n = IF BlockLen - o < op.todo - op.done THEN BlockLen - o ELSE op.todo - op.done
    BY DEF ToWrite, Smaller
  <2> HIDE DEF n, o
  <2> QED BY <1>3, <2>1, <2>2
<1>5. \E old : /\ new = [i \in 1 .. BlockLen |-> IF i \in (o + 1) .. (o + n) THEN op.buffer[op.done + i - o] ELSE old[i]]
               /\ n # BlockLen => old = k
  BY DEF NewBytes, Patched
<1>6. PICK old : /\ new = [i \in 1 .. BlockLen |-> IF i \in (o + 1) .. (o + n) THEN op.buffer[op.done + i - o] ELSE old[i]]
                 /\ n # BlockLen => old = k
  BY <1>5
<1> HIDE DEF new, n, o
<1>7. \A x \in (o + 1) .. (o + n) : new[x] = op.buffer[op.done + x - o]
  <2>1. \A x \in (o + 1) .. (o + n) : x \in 1 .. BlockLen
    BY <1>1, <1>3
  <2> QED BY <1>6, <2>1
<1>8. ASSUME NEW g \in File \ damaged, NEW q \in 0 .. Seen(g).size - 1,
             Place(fat, Seen(g).cluster, q) = b, g # f \/ q \notin p .. p + n - 1
      PROVE  new[1 + (q % BlockLen)] = ByteAt(blocks, fat, Seen(g).cluster, q)
  <2>1. q \in Nat /\ Seen(g).cluster # NONE
    BY Places
  <2>2. f = g /\ q - p = (q % BlockLen) - o
    <3> HIDE DEF h, b
    <3> QED BY <1>1, <1>2, <1>8, <2>1, Mine DEF o, h
  <2> DEFINE r == q % BlockLen
  <2>3. r \in 0 .. BlockLen - 1
    BY <2>1, Spot
  <2> HIDE DEF r, h
  <2>4. 1 + r \in 1 .. BlockLen /\ 1 + r \notin (o + 1) .. (o + n)
    <3>1. q \notin p .. p + n - 1 /\ q - p = r - o
      BY <1>8, <2>2 DEF r
    <3>2. p \in Nat
      BY <1>2
    <3> HIDE DEF p
    <3> QED BY <1>1, <1>3, <2>1, <2>3, <3>1, <3>2
  <2>5. n # BlockLen
    BY <1>1, <1>3, <2>3, <2>4
  <2>6. new[1 + r] = k[1 + r]
    BY <1>6, <2>4, <2>5
  <2>7. k[1 + r] = ByteAt(blocks, fat, Seen(g).cluster, q)
    <3>1. CASE cache.block = b
      <4>1. cache.bytes[1 + (q % BlockLen)] = ByteAt(blocks, fat, Seen(g).cluster, q)
        BY <1>8, <3>1 DEF RInv, Coherent
      <4>2. blocks[b][1 + (q % BlockLen)] = ByteAt(blocks, fat, Seen(g).cluster, q)
        BY <1>8 DEF ByteAt
      <4>3. k = cache.bytes \/ k = blocks[b]
        BY DEF Cached
      <4> HIDE DEF k, b
      <4> QED BY <4>1, <4>2, <4>3 DEF r
    <3>2. CASE cache.block # b
      <4>1. k = blocks[b]
        BY <3>2 DEF Cached
      <4> QED BY <1>8, <4>1 DEF ByteAt, r
    <3> QED BY <3>1, <3>2
  <2> QED BY <2>6, <2>7 DEF r
<1>9. n \in 1 .. BlockLen - o
  BY <1>1, <1>3, <1>4
<1> QED BY <1>3, <1>7, <1>8, <1>9 DEF new, n, o

\* The part of the buffer that is written.
LEMMA PartIs ==
  ASSUME NEW buffer \in Seq(Byte), NEW done \in Nat, NEW todo \in Nat, todo <= Len(buffer),
         NEW n \in Nat, n <= todo - done
  PROVE  LET rest == SubSeq(buffer, done + 1, todo)
             w == SubSeq(rest, 1, n)
         IN  /\ Len(rest) = todo - done /\ Len(w) = n /\ \A i \in 1 .. n : w[i] = buffer[done + i]
             /\ SubSeq(rest, n + 1, Len(rest)) = SubSeq(buffer, done + n + 1, todo)
<1> DEFINE rest == SubSeq(buffer, done + 1, todo)
           w == SubSeq(rest, 1, n)
<1>1. Len(buffer) \in Nat /\ done <= todo
  OBVIOUS
<1>2. rest \in Seq(Byte) /\ Len(rest) = todo - done /\ \A i \in 1 .. todo - done : rest[i] = buffer[done + i]
  BY <1>1
<1> HIDE DEF rest
<1>3. w \in Seq(Byte) /\ Len(w) = n /\ \A i \in 1 .. n : w[i] = rest[i]
  BY <1>2
<1>4. SubSeq(rest, n + 1, Len(rest)) = SubSeq(buffer, done + n + 1, todo)
  <2> DEFINE u == SubSeq(rest, n + 1, Len(rest))
             v == SubSeq(buffer, done + n + 1, todo)
  <2>1. u \in Seq(Byte) /\ Len(u) = todo - done - n /\ \A i \in 1 .. todo - done - n : u[i] = rest[n + i]
    BY <1>2
  <2>2. v \in Seq(Byte) /\ Len(v) = todo - done - n /\ \A i \in 1 .. todo - done - n : v[i] = buffer[done + n + i]
    BY <1>1
  <2> HIDE DEF u, v
  <2>3. \A i \in 1 .. todo - done - n : u[i] = v[i]
    <3>1. \A i \in 1 .. todo - done - n : n + i \in 1 .. todo - done /\ done + (n + i) = done + n + i
      BY <1>1
    <3> QED BY <1>2, <2>1, <2>2, <3>1
  <2>4. u = v
    BY <2>1, <2>2, <2>3
  <2> QED BY <2>4 DEF u, v
<1>5. \A i \in 1 .. n : w[i] = buffer[done + i]
  BY <1>1, <1>2, <1>3
<1> QED BY <1>2, <1>3, <1>4, <1>5 DEF rest

\* A file that is written to has the new bytes over the old ones.
LEMMA Overlaid ==
  ASSUME IInv, IInv', RInv, Locatable, NEW f \in File \ damaged, f = op.file,
         NEW h, h = handle[f], NEW n, n = ToWrite(h), NEW new, new = NewBytes(h, Here),
         blocks' = [blocks EXCEPT ![BlockAt(h, Here)] = new], UNCHANGED <<fat, damaged>>,
         Seen(f)'.cluster = h.cluster,
         Seen(f)'.size = IF h.offset + n > h.size THEN h.offset + n ELSE h.size
  PROVE  BytesOf(f)' = Promise!Overlay(BytesOf(f), h.offset, SubSeq(SubSeq(op.buffer, op.done + 1, op.todo), 1, n))
<1> DEFINE o == h.offset % BlockLen
           p == h.offset
           c == h.cluster
           b == BlockAt(h, Here)
           w == SubSeq(SubSeq(op.buffer, op.done + 1, op.todo), 1, n)
           s == BytesOf(f)
           m == h.size
           z == IF p + n > m THEN p + n ELSE m
<1>1. /\ h.open /\ h.cluster # NONE /\ ~ Locate(h).ended /\ Here = Locate(h)
      /\ n <= op.todo - op.done /\ b \in Block
  BY Writable DEF Here
<1>2. /\ b = Place(fat, c, p) /\ p \in Nat /\ Seen(f) = h
  BY <1>1, AtOffset
<1>3. /\ n \in 1 .. BlockLen - o /\ o \in 0 .. BlockLen - 1
      /\ \A x \in (o + 1) .. (o + n) : new[x] = op.buffer[op.done + x - o]
      /\ \A q \in 0 .. m - 1 : Place(fat, c, q) = b /\ q \notin p .. p + n - 1
           => new[1 + (q % BlockLen)] = ByteAt(blocks, fat, c, q)
  BY <1>2, NewBytesAre
<1>4. Len(w) = n /\ \A i \in 1 .. n : w[i] = op.buffer[op.done + i]
  <2>1. /\ op.buffer \in Seq(Byte) /\ op.done \in Nat /\ op.todo \in Nat /\ op.todo <= Len(op.buffer)
    BY DEF IInv, OpOK, OpType, Locatable, Writes
  <2>2. n \in Nat
    <3>1. n \in 1 .. BlockLen - o /\ o \in 0 .. BlockLen - 1
      BY <1>3
    <3> HIDE DEF o
    <3> QED BY <3>1, Sizes
  <2>3. PICK y, d, t : y = op.buffer /\ d = op.done /\ t = op.todo
    OBVIOUS
  <2>4. Len(SubSeq(SubSeq(y, d + 1, t), 1, n)) = n /\ \A i \in 1 .. n : SubSeq(SubSeq(y, d + 1, t), 1, n)[i] = y[d + i]
    <3>1. y \in Seq(Byte) /\ d \in Nat /\ t \in Nat /\ t <= Len(y) /\ n <= t - d
      BY <1>1, <2>1, <2>3
    <3> QED BY <2>2, <3>1, PartIs
  <2> QED BY <2>3, <2>4
<1>5. /\ m \in Nat /\ p <= m /\ n \in Nat /\ BlockLen \in Nat /\ op.done \in Nat /\ o \in Nat
  <2>1. handle[f] \in HandleRec /\ HandleOK(fat, handle[f])
    BY FileFacts DEF IInv
  <2>2. m \in Nat /\ p <= m
    BY <2>1, Sizes DEF HandleRec, HandleOK
  <2>3. BlockLen \in Nat /\ op.done \in Nat
    BY Sizes DEF IInv, OpOK, OpType
  <2>4. n \in 1 .. BlockLen - o /\ o \in 0 .. BlockLen - 1
    BY <1>3
  <2> HIDE DEF o, m, p
  <2> QED BY <2>2, <2>3, <2>4
<1>6. s = Text(blocks, fat, c, m) /\ Len(s) = m
  <2>1. s = Text(blocks, fat, c, m)
    BY <1>2, <1>5, BytesAre
  <2>2. s = [i \in 1 .. m |-> s[i]]
    BY <2>1 DEF Text
  <2> HIDE DEF s
  <2> QED BY <1>5, <2>1, <2>2, TextIs
<1>7. BytesOf(f)' = Text(blocks', fat, c, z)
  <2>1. z \in Nat
    BY <1>2, <1>5
  <2> QED BY <2>1, BytesAreThen
<1>8. \A x \in Block : blocks'[x] = IF x = b THEN new ELSE blocks[x]
  BY DEF IInv, TypeOK
<1> HIDE DEF w, b, s, o, p, m, c
<1>9. ASSUME NEW i \in 1 .. z
      PROVE  ByteAt(blocks', fat, c, i - 1) = IF i \in (p + 1) .. (p + n) THEN w[i - p] ELSE s[i]
  <2> DEFINE q == i - 1
  <2>1. q \in Nat
    BY <1>5
  <2>2. CASE i \in (p + 1) .. (p + n)
    <3>1. p <= q /\ q < p + (BlockLen - o)
      BY <1>2, <1>3, <1>5, <2>2
    <3>2. q % BlockLen = o + (q - p) /\ Place(fat, c, q) = b
      <4> HIDE DEF q
      <4> QED BY <1>2, <2>1, <3>1, Near DEF o, p
    <3>3. ByteAt(blocks', fat, c, q) = new[1 + (o + (q - p))]
      <4> HIDE DEF q
      <4> QED BY <1>1, <1>8, <3>2 DEF ByteAt, b
    <3>4. 1 + (o + (q - p)) \in (o + 1) .. (o + n) /\ op.done + (1 + (o + (q - p))) - o = op.done + (i - p)
      BY <1>2, <1>5, <2>2
    <3>5. i - p \in 1 .. n
      BY <1>2, <1>5, <2>2
    <3> HIDE DEF q
    <3> QED BY <1>3, <1>4, <2>2, <3>3, <3>4, <3>5 DEF q
  <2>3. CASE i \notin (p + 1) .. (p + n)
    <3>1. q \in 0 .. m - 1 /\ q \notin p .. p + n - 1 /\ i \in 1 .. m
      BY <1>2, <1>5, <2>3
    <3>2. Place(fat, c, q) \in Block
      <4> HIDE DEF q
      <4> QED BY <1>2, <3>1, Places DEF m, c
    <3>3. ByteAt(blocks', fat, c, q) = ByteAt(blocks, fat, c, q)
      <4>1. CASE Place(fat, c, q) = b
        <5>1. new[1 + (q % BlockLen)] = ByteAt(blocks, fat, c, q)
          <6> HIDE DEF q
          <6> QED BY <1>3, <3>1, <4>1
        <5> HIDE DEF q
        <5> QED BY <1>8, <3>2, <4>1, <5>1 DEF ByteAt
      <4>2. CASE Place(fat, c, q) # b
        <5> HIDE DEF q
        <5> QED BY <1>8, <3>2, <4>2 DEF ByteAt
      <4> QED BY <4>1, <4>2
    <3>4. s[i] = ByteAt(blocks, fat, c, q)
      BY <1>6, <3>1 DEF Text
    <3> QED BY <2>3, <3>3, <3>4
  <2> QED BY <2>2, <2>3
<1>10. Promise!Overlay(s, p, w) = [i \in 1 .. z |-> IF i \in (p + 1) .. (p + n) THEN w[i - p] ELSE s[i]]
  BY <1>4, <1>6 DEF Promise!Overlay
<1>11. BytesOf(f)' = Promise!Overlay(s, p, w)
  <2> HIDE DEF z
  <2>1. BytesOf(f)' = [i \in 1 .. z |-> ByteAt(blocks', fat, c, i - 1)]
    BY <1>7 DEF Text
  <2>2. [i \in 1 .. z |-> ByteAt(blocks', fat, c, i - 1)] =
          [i \in 1 .. z |-> IF i \in (p + 1) .. (p + n) THEN w[i - p] ELSE s[i]]
    BY <1>9
  <2> QED BY <1>10, <2>1, <2>2
<1> QED BY <1>11 DEF s, p, w

\* The handle after some bytes.
LEMMA AdvancedIs ==
  ASSUME NEW h \in HandleRec, NEW l, NEW n
  PROVE  LET r == Advanced(h, l, n)
         IN  /\ r.open = h.open /\ r.dirty = h.dirty /\ r.cluster = h.cluster /\ r.offset = h.offset + n
             /\ r.size = IF h.offset + n > h.size THEN h.offset + n ELSE h.size
BY DEF Advanced, HandleRec

\* The files that are not written to keep their bytes.
LEMMA OthersSame ==
  ASSUME IInv, IInv', RInv, Locatable, NEW f \in File, f = op.file, UNCHANGED <<fat, entry>>,
         \A g \in File : g # f => handle'[g] = handle[g],
         blocks' \in {blocks, [blocks EXCEPT ![BlockAt(handle[f], Here)] = NewBytes(handle[f], Here)]}
  PROVE  \A g \in File : g # f /\ (g \in damaged' <=> g \in damaged) => BytesOf(g)' = BytesOf(g)
<1> DEFINE b == BlockAt(handle[f], Here)
           new == NewBytes(handle[f], Here)
<1>1. ASSUME NEW g \in File, g # f, g \in damaged' <=> g \in damaged PROVE BytesOf(g)' = BytesOf(g)
  <2>1. Seen(g)'.cluster = Seen(g).cluster /\ Seen(g)'.size = Seen(g).size
    BY <1>1 DEF Seen
  <2>2. ASSUME g \notin damaged, NEW q \in 0 .. Seen(g).size - 1
        PROVE  blocks'[Place(fat, Seen(g).cluster, q)][1 + (q % BlockLen)] = ByteAt(blocks, fat, Seen(g).cluster, q)
    <3>1. Place(fat, Seen(g).cluster, q) \in Block
      BY <2>2, Places
    <3>2. Place(fat, Seen(g).cluster, q) = b => new[1 + (q % BlockLen)] = ByteAt(blocks, fat, Seen(g).cluster, q)
      BY <1>1, <2>2, NewBytesAre
    <3>3. \A x \in Block : blocks'[x] \in {blocks[x], IF x = b THEN new ELSE blocks[x]}
      <4>1. blocks \in [Block -> [1 .. BlockLen -> Byte]]
        BY DEF IInv, TypeOK
      <4> HIDE DEF b, new
      <4> QED BY <4>1 DEF b, new
    <3> HIDE DEF b, new
    <3> QED BY <3>1, <3>2, <3>3 DEF ByteAt
  <2> QED BY <1>1, <2>1, <2>2, FileSame, SameChain
<1> QED BY <1>1

LEMMA WriteBlockRefines == ASSUME IInv, IInv', RInv, WriteBlock PROVE Refines
<1>1. PICK f \in File : f = op.file
  BY Writable DEF WriteBlock
<1> DEFINE h == handle[f]
           n == ToWrite(h)
           b == BlockAt(h, Here)
           new == NewBytes(h, Here)
<1>2. /\ UNCHANGED <<fat, entry, got, ret, damaged>> /\ Locatable
      /\ blocks' = [blocks EXCEPT ![b] = new] /\ cache' = [block |-> b, bytes |-> new]
      /\ handle' = [handle EXCEPT ![f] = Advanced(h, Here, n)]
      /\ op' = [op EXCEPT !.pc = "write", !.done = op.done + n]
  BY <1>1 DEF WriteBlock
<1>3. /\ h.open /\ h.cluster # NONE /\ b \in Block /\ n <= op.todo - op.done
      /\ handle \in [File -> HandleRec] /\ blocks \in [Block -> [1 .. BlockLen -> Byte]]
      /\ op.pc \in Writes /\ got = << >> /\ OpOK /\ OpType
  <2>1. op.pc \in Writes
    BY <1>2 DEF Locatable, Writes
  <2>2. got = << >>
    BY <2>1, CallNow
  <2> QED BY <1>1, <1>2, <2>1, <2>2, Writable DEF IInv, OpOK, TypeOK, HandleType, HandleRec
<1>4. n \in Nat /\ n >= 1
  <2> DEFINE o == h.offset % BlockLen
  <2>1. n \in 1 .. BlockLen - o /\ o \in 0 .. BlockLen - 1
    BY <1>1, <1>2, NewBytesAre
  <2> HIDE DEF n, o
  <2> QED BY <2>1, Sizes
<1> HIDE DEF n, b, new
<1>5. /\ handle'[f].open /\ handle'[f].dirty = h.dirty /\ handle'[f].cluster = h.cluster
      /\ handle'[f].offset = h.offset + n
      /\ handle'[f].size = IF h.offset + n > h.size THEN h.offset + n ELSE h.size
      /\ \A g \in File : g # f => handle'[g] = handle[g]
  BY <1>2, <1>3, AdvancedIs
<1>6. /\ op'.pc = "write" /\ op'.file = f /\ op'.todo = op.todo /\ op'.done = op.done + n
      /\ op'.buffer = op.buffer /\ op'.pc \in Writes
  BY <1>1, <1>2, <1>3 DEF OpType, Writes
<1>7. Quiet' /\ Pending'
  <2>1. h.dirty
    BY <1>1, <1>3 DEF RInv, Pending
  <2>2. Quiet'
    BY <1>2, <1>3, <1>6 DEF Quiet
  <2>3. Pending'
    BY <1>2, <1>5, <1>6, <2>1 DEF RInv, Pending
  <2> QED BY <2>2, <2>3
<1>8. Coherent'
  <2>1. blocks'[b] = new /\ cache'.block = b /\ cache'.bytes = new
    BY <1>2, <1>3
  <2> QED BY <2>1 DEF Coherent, ByteAt
<1>9. \A g \in File : g # f => BytesOf(g)' = BytesOf(g)
  BY <1>1, <1>2, <1>5, OthersSame DEF b, new
<1>10. CASE f \in damaged
  <2>1. CallOf(op).file = f
    BY <1>1, <1>3, CallNow
  <2>2. CallOf(op)'.file = f
    BY <1>6 DEF CallOf
  <2>3. \A g \in File \ damaged : Content'[g] = Content[g] /\ Pos'[g] = Pos[g]
    BY <1>5, <1>9, <1>10 DEF Content, Pos
  <2>4. Promise!Next
    BY <1>2, <1>10, <2>1, <2>2, <2>3, IsDisturb
  <2> QED BY <1>7, <1>8, <2>4 DEF Refines, RInv
<1>11. CASE f \notin damaged
  <2> DEFINE rest == SubSeq(op.buffer, op.done + 1, op.todo)
  <2>1. CallOf(op) = [kind |-> "write", file |-> f, rest |-> rest, want |-> 0]
    BY <1>1, <1>3, CallNow
  <2>2. PICK y, d, t : y = op.buffer /\ d = op.done /\ t = op.todo
    OBVIOUS
  <2>3. y \in Seq(Byte) /\ d \in Nat /\ t \in Nat /\ t <= Len(y) /\ n <= t - d /\ Len(y) \in Nat /\ d <= t
    BY <1>3, <2>2 DEF OpOK, OpType
  <2>4. Len(SubSeq(y, d + 1, t)) = t - d /\ SubSeq(SubSeq(y, d + 1, t), n + 1, Len(SubSeq(y, d + 1, t))) = SubSeq(y, d + n + 1, t)
    BY <1>4, <2>3, PartIs
  <2>5. n \in 1 .. Len(rest) /\ SubSeq(rest, n + 1, Len(rest)) = SubSeq(op.buffer, op.done + n + 1, op.todo)
    <3>1. SubSeq(y, d + 1, t) = rest /\ SubSeq(y, d + n + 1, t) = SubSeq(op.buffer, op.done + n + 1, op.todo)
      BY <2>2
    <3>2. n \in 1 .. t - d
      BY <1>4, <2>3
    <3> HIDE DEF rest
    <3> QED BY <2>4, <3>1, <3>2
  <2>6. CallOf(op') = [kind |-> "write", file |-> f, rest |-> SubSeq(op.buffer, op.done + n + 1, op.todo), want |-> 0]
    <3>1. op'.todo \in Nat /\ Len(op'.buffer) \in Nat /\ op'.todo <= Len(op'.buffer)
      BY <1>6, <2>2, <2>3
    <3>2. CallOf(op') = [kind |-> "write", file |-> op'.file, rest |-> SubSeq(op'.buffer, op'.done + 1, op'.todo),
                         want |-> 0]
      BY <1>6, <3>1, CallWrite
    <3> QED BY <1>6, <3>2
  <2> HIDE DEF rest
  <2>7. CallOf(op)' = [CallOf(op) EXCEPT !.rest = SubSeq(@, n + 1, Len(@))]
    <3> DEFINE u == SubSeq(rest, n + 1, Len(rest))
    <3>1. CallOf(op') = [kind |-> "write", file |-> f, rest |-> u, want |-> 0]
      BY <2>5, <2>6
    <3>2. [CallOf(op) EXCEPT !.rest = SubSeq(@, n + 1, Len(@))] = [CallOf(op) EXCEPT !.rest = u]
      BY <2>1
    <3> HIDE DEF u
    <3>3. [CallOf(op) EXCEPT !.rest = u] = [kind |-> "write", file |-> f, rest |-> u, want |-> 0]
      BY <2>1
    <3> QED BY <3>1, <3>2, <3>3 DEF CallOf
  <2>8. Pos' = [Pos EXCEPT ![f] = @ + n] /\ Pos[f] = h.offset
    BY <1>3, <1>5 DEF Pos
  <2>9. BytesOf(f)' = Promise!Overlay(BytesOf(f), h.offset, SubSeq(rest, 1, n))
    <3>1. Seen(f)'.cluster = h.cluster /\ Seen(f)'.size = IF h.offset + n > h.size THEN h.offset + n ELSE h.size
      BY <1>5 DEF Seen
    <3> QED BY <1>1, <1>2, <1>11, <3>1, Overlaid DEF b, new, n, rest
  <2>10. Content' = [Content EXCEPT ![f] = Promise!Overlay(@, h.offset, SubSeq(rest, 1, n))]
    BY <1>9, <2>9 DEF Content
  <2>11. /\ CallOf(op).kind = "write" /\ CallOf(op).file = f /\ CallOf(op).rest = rest
    BY <2>1
  <2>12. Promise!Next
    <3>1. /\ Content' = [Content EXCEPT ![CallOf(op).file] =
                           Promise!Overlay(@, Pos[CallOf(op).file], SubSeq(CallOf(op).rest, 1, n))]
          /\ Pos' = [Pos EXCEPT ![CallOf(op).file] = @ + n]
          /\ n \in 1 .. Len(CallOf(op).rest)
      BY <2>5, <2>8, <2>10, <2>11
    <3> QED BY <1>2, <2>7, <2>11, <3>1, IsWriteSome
  <2> QED BY <1>7, <1>8, <2>12 DEF Refines, RInv
<1> QED BY <1>10, <1>11

LEMMA WriteBlockFailsRefines == ASSUME IInv, IInv', RInv, WriteBlockFails PROVE Refines
<1>1. PICK f \in File : f = op.file
  BY Writable DEF WriteBlockFails
<1> DEFINE h == handle[f]
           b == BlockAt(h, Here)
           new == NewBytes(h, Here)
<1>2. /\ UNCHANGED <<fat, entry, handle>> /\ Locatable /\ op' = NoOp /\ got' = << >> /\ ret' = "error"
      /\ \/ cache' = Forgotten /\ UNCHANGED <<blocks, damaged>>
         \/ /\ blocks' \in {blocks, [blocks EXCEPT ![b] = new]}
            /\ cache' = [block |-> b, bytes |-> new]
            /\ damaged' = IF h.offset < h.size THEN damaged \cup {f} ELSE damaged
  BY <1>1 DEF WriteBlockFails, Fault, Fail, Return
<1>3. /\ h.open /\ h.cluster # NONE /\ b \in Block /\ op.pc \in Writes /\ ~ Idle /\ got = << >>
      /\ blocks \in [Block -> [1 .. BlockLen -> Byte]]
      /\ CallOf(op).kind # "none" /\ CallOf(op).file = f
  <2>1. op.pc \in Writes
    BY <1>2 DEF Locatable, Writes
  <2>2. got = << >> /\ CallOf(op).file = f /\ CallOf(op).kind # "none" /\ ~ Idle
    BY <1>1, <2>1, CallNow DEF Idle, Writes
  <2> QED BY <1>1, <1>2, <2>1, <2>2, Writable DEF IInv, TypeOK
<1>4. SameHandles /\ Quiet' /\ CallOf(op)' = NoCall
  BY <1>2, Untouched, NothingLeft
<1>5. CASE cache' = Forgotten /\ UNCHANGED <<blocks, damaged>>
  BY <1>2, <1>3, <1>4, <1>5, FailsRefines, SameChain
<1>6. CASE /\ blocks' \in {blocks, [blocks EXCEPT ![b] = new]}
           /\ cache' = [block |-> b, bytes |-> new]
           /\ damaged' = IF h.offset < h.size THEN damaged \cup {f} ELSE damaged
  <2>1. Pending'
    BY <1>2, <1>4, <1>6, SamePending
  <2>2. \A g \in File : Seen(g)'.cluster = Seen(g).cluster /\ Seen(g)'.size = Seen(g).size
    BY <1>2 DEF Seen
  <2>3. \A g \in File \ damaged' : \A q \in 0 .. Seen(g).size - 1 :
          Place(fat, Seen(g).cluster, q) = b => new[1 + (q % BlockLen)] = ByteAt(blocks, fat, Seen(g).cluster, q)
    <3>1. SUFFICES ASSUME NEW g \in File \ damaged', NEW q \in 0 .. Seen(g).size - 1, Place(fat, Seen(g).cluster, q) = b
                   PROVE  g \in File \ damaged /\ (g # f \/ q \notin h.offset .. h.offset + ToWrite(h) - 1)
      BY <1>1, <1>2, NewBytesAre
    <3>2. g \notin damaged
      BY <1>6, <3>1
    <3>3. CASE g = f
      <4>1. ~ (h.offset < h.size)
        BY <1>6, <3>1, <3>3
      <4>2. Seen(g).size = h.size /\ h.size \in Nat /\ h.offset \in Nat /\ ToWrite(h) \in Nat
        <5>1. h \in HandleRec
          BY FileFacts
        <5> QED BY <1>1, <1>2, <1>3, <3>3, <5>1, Writable, Sizes DEF Seen, HandleRec
      <4>3. q \in Int /\ q < h.size
        BY <4>2
      <4> HIDE DEF h
      <4> QED BY <3>2, <4>1, <4>2, <4>3
    <3> QED BY <3>2, <3>3
  <2> HIDE DEF b, new
  <2>4. \A x \in Block : blocks'[x] \in {blocks[x], IF x = b THEN new ELSE blocks[x]}
    BY <1>3, <1>6
  <2>5. ASSUME NEW g \in File \ damaged', NEW q \in 0 .. Seen(g).size - 1
        PROVE  ByteAt(blocks', fat, Seen(g).cluster, q) = ByteAt(blocks, fat, Seen(g).cluster, q)
    <3>1. g \in File \ damaged
      BY <1>6, <2>5
    <3>2. Place(fat, Seen(g).cluster, q) \in Block
      BY <3>1, Places
    <3>3. Place(fat, Seen(g).cluster, q) = b => new[1 + (q % BlockLen)] = ByteAt(blocks, fat, Seen(g).cluster, q)
      BY <2>3
    <3> QED BY <2>4, <3>2, <3>3 DEF ByteAt
  <2>6. Coherent'
    <3>1. ASSUME NEW g \in File \ damaged', NEW q \in 0 .. Seen(g).size - 1, Place(fat, Seen(g).cluster, q) = b
          PROVE  new[1 + (q % BlockLen)] = ByteAt(blocks', fat, Seen(g).cluster, q)
      BY <2>3, <2>5, <3>1
    <3> QED BY <1>2, <1>6, <2>2, <3>1 DEF Coherent
  <2>7. \A g \in File : g # f /\ (g \in damaged' <=> g \in damaged) => BytesOf(g)' = BytesOf(g)
    BY <1>1, <1>2, <1>6, OthersSame DEF b, new
  <2>8. Pos' = Pos
    BY <1>4, <1>2, SameSeen
  <2>9. CASE h.offset < h.size
    <3>1. damaged' = damaged \cup {f}
      BY <1>6, <2>9
    <3>2. \A g \in File \ damaged : g # f => Content'[g] = Content[g] /\ Pos'[g] = Pos[g]
      BY <2>7, <2>8, <3>1 DEF Content
    <3>3. Promise!Next
      BY <1>2, <1>3, <1>4, <3>1, <3>2, IsDamage
    <3> QED BY <1>4, <2>1, <2>6, <3>3 DEF Refines, RInv
  <2>10. CASE ~ (h.offset < h.size)
    <3>1. damaged' = damaged
      BY <1>6, <2>10
    <3>2. BytesOf(f)' = BytesOf(f)
      <4>1. f \notin damaged => \A q \in 0 .. Seen(f).size - 1 :
              blocks'[Place(fat, Seen(f).cluster, q)][1 + (q % BlockLen)] = ByteAt(blocks, fat, Seen(f).cluster, q)
        BY <2>5, <3>1 DEF ByteAt
      <4> QED BY <1>2, <2>2, <3>1, <4>1, FileSame, SameChain
    <3>3. Content' = Content
      BY <2>7, <3>1, <3>2 DEF Content
    <3>4. Promise!Next
      BY <1>2, <1>3, <1>4, <2>8, <3>1, <3>3, IsReturn
    <3> QED BY <1>4, <2>1, <2>6, <3>4 DEF Refines, RInv
  <2> QED BY <2>9, <2>10
<1> QED BY <1>2, <1>5, <1>6

\* What the cache gives is what the file has.
LEMMA CachedAre ==
  ASSUME RInv, NEW f \in File \ damaged, NEW q \in 0 .. Seen(f).size - 1, NEW w, NEW b,
         Place(fat, Seen(f).cluster, q) = b
  PROVE  Cached(b, w).bytes[1 + (q % BlockLen)] = ByteAt(blocks, fat, Seen(f).cluster, q)
<1>1. cache.block = b => cache.bytes[1 + (q % BlockLen)] = ByteAt(blocks, fat, Seen(f).cluster, q)
  BY DEF RInv, Coherent
<1>2. blocks[b][1 + (q % BlockLen)] = ByteAt(blocks, fat, Seen(f).cluster, q)
  BY DEF ByteAt
<1>3. (Cached(b, w).bytes = cache.bytes /\ cache.block = b) \/ Cached(b, w).bytes = blocks[b]
  BY DEF Cached
<1> QED BY <1>1, <1>2, <1>3

\* The part of a block that is read is a part of the file.
LEMMA ReadIs ==
  ASSUME IInv, RInv, NEW f \in File \ damaged, NEW h, h = handle[f], h.open, h.cluster # NONE,
         ~ Locate(h).ended, NEW n \in Nat, n <= BlockLen - (h.offset % BlockLen), h.offset + n <= h.size
  PROVE  LET k == Cached(BlockAt(h, Locate(h)), Locate(h).walked)
             o == h.offset % BlockLen
         IN  SubSeq(k.bytes, o + 1, o + n) = SubSeq(BytesOf(f), h.offset + 1, h.offset + n)
<1> DEFINE b == BlockAt(h, Locate(h))
           d == Cached(b, Locate(h).walked).bytes
           o == h.offset % BlockLen
           p == h.offset
           c == h.cluster
           m == h.size
           s == BytesOf(f)
<1>1. b = Place(fat, c, p) /\ p \in Nat /\ Seen(f) = h /\ b \in Block
  BY AtOffset, Placed
<1>2. o \in 0 .. BlockLen - 1 /\ BlockLen \in Nat
  <2> HIDE DEF p
  <2> QED BY <1>1, Spot, Sizes DEF p
<1>3. m \in Nat
  BY <1>1, SeenFacts
<1>4. s = Text(blocks, fat, c, m)
  BY <1>1, <1>3, BytesAre
<1>5. d \in [1 .. BlockLen -> Byte]
  BY <1>1, CachedOK
<1>6. blocks \in [Block -> [1 .. BlockLen -> Byte]]
  BY DEF IInv, TypeOK
<1> HIDE DEF b, d, o, p, c, m, s
<1>7. ASSUME NEW i \in 1 .. n PROVE d[o + i] = s[p + i]
  <2> DEFINE q == p + i - 1
  <2>1. q \in Nat /\ p <= q /\ q < p + (BlockLen - o) /\ q \in 0 .. m - 1 /\ p + i \in 1 .. m /\ q - p = i - 1
        /\ (p + i) - 1 = q
    BY <1>1, <1>2, <1>3 DEF o, p, m
  <2> HIDE DEF q
  <2>2. q % BlockLen = o + (q - p) /\ Place(fat, c, q) = b
    BY <1>1, <2>1, Near DEF o, p
  <2>3. d[1 + (q % BlockLen)] = ByteAt(blocks, fat, c, q)
    BY <1>1, <2>1, <2>2, CachedAre DEF d, c, m
  <2>4. 1 + (q % BlockLen) = o + i
    BY <1>2, <2>1, <2>2
  <2>5. s[p + i] = ByteAt(blocks, fat, c, q)
    <3>1. s = [j \in 1 .. m |-> ByteAt(blocks, fat, c, j - 1)]
      BY <1>4 DEF Text
    <3> QED BY <2>1, <3>1
  <2> QED BY <2>3, <2>4, <2>5
<1>8. s \in Seq(Byte) /\ Len(s) = m
  <2>1. ASSUME NEW j \in 1 .. m PROVE ByteAt(blocks, fat, c, j - 1) \in Byte
    <3> DEFINE q == j - 1
    <3>1. q \in Nat /\ q \in 0 .. m - 1
      BY <1>3
    <3> HIDE DEF q
    <3>2. Place(fat, c, q) \in Block /\ 1 + (q % BlockLen) \in 1 .. BlockLen
      <4>1. q % BlockLen \in 0 .. BlockLen - 1
        BY <3>1, Spot
      <4>2. Place(fat, c, q) \in Block
        BY <1>1, <3>1, Places DEF c, m
      <4> DEFINE r == q % BlockLen
      <4> HIDE DEF r
      <4>3. r \in 0 .. BlockLen - 1
        BY <4>1 DEF r
      <4>4. 1 + r \in 1 .. BlockLen
        BY <1>2, <4>3
      <4> QED BY <4>2, <4>4 DEF r
    <3> QED BY <1>6, <3>2 DEF ByteAt, q
  <2>2. s = [j \in 1 .. m |-> ByteAt(blocks, fat, c, j - 1)]
    BY <1>4 DEF Text
  <2>3. s \in [1 .. m -> Byte]
    BY <2>1, <2>2
  <2> QED BY <1>3, <2>3
<1>9. d \in Seq(Byte) /\ Len(d) = BlockLen
  BY <1>2, <1>5
<1>10. o + n <= BlockLen /\ p + n <= m /\ o \in Nat
  BY <1>2 DEF o, p, m
<1> DEFINE u == SubSeq(d, o + 1, o + n)
           v == SubSeq(s, p + 1, p + n)
<1>11. u \in Seq(Byte) /\ Len(u) = n /\ \A i \in 1 .. n : u[i] = d[o + i]
  BY <1>2, <1>9, <1>10
<1>12. v \in Seq(Byte) /\ Len(v) = n /\ \A i \in 1 .. n : v[i] = s[p + i]
  BY <1>1, <1>3, <1>8, <1>10
<1> HIDE DEF u, v
<1>13. u = v
  BY <1>7, <1>11, <1>12
<1> QED BY <1>13 DEF u, v, d, b, o, s, p

LEMMA ReadBlockRefines == ASSUME IInv, IInv', RInv, ReadBlock PROVE Refines
<1>1. PICK f \in File : f = op.file
  BY DEF ReadBlock, IInv, OpOK
<1> DEFINE h == handle[f]
           o == h.offset % BlockLen
           n == Smaller(Smaller(BlockLen - o, op.todo - op.done), h.size - h.offset)
           b == BlockAt(h, Here)
           k == Cached(b, Here.walked)
<1>2. /\ OpOK /\ op.pc = "read" /\ op.done < op.todo /\ h.offset # h.size /\ ~ Idle
      /\ UNCHANGED <<fat, blocks, entry, damaged>> /\ handle \in [File -> HandleRec] /\ h.open /\ OpType
      /\ Here = Locate(h) /\ op.buffer = << >>
  BY <1>1 DEF ReadBlock, Progress, AtEnd, IInv, TypeOK, HandleType, HandleRec, OpOK, Idle, Here, RInv, Quiet
<1>3. /\ h.offset \in Nat /\ h.size \in Nat /\ h.offset < h.size /\ h.cluster # NONE /\ op.todo \in Nat /\ op.done \in Nat
  <2>1. h \in HandleRec /\ HandleOK(fat, h)
    BY FileFacts
  <2>2. h.offset \in Nat /\ h.size \in Nat /\ h.offset <= h.size
    BY <2>1, Sizes DEF HandleRec, HandleOK
  <2>3. h.offset < h.size
    BY <1>2, <2>2
  <2> QED BY <1>2, <2>1, <2>2, <2>3 DEF HandleOK, OpType
<1>4. CASE /\ ~ Here.ended
           /\ cache' = k
           /\ got' = got \o SubSeq(k.bytes, o + 1, o + n)
           /\ handle' = [handle EXCEPT ![f] = Advanced(h, Here, n)]
           /\ op' = [op EXCEPT !.done = @ + n]
           /\ UNCHANGED ret
  <2>1. o \in 0 .. BlockLen - 1 /\ BlockLen \in Nat /\ b \in Block
    BY <1>2, <1>3, <1>4, Placed, Sizes
  <2>2. n \in Nat /\ n >= 1 /\ n <= BlockLen - o /\ n <= op.todo - op.done /\ h.offset + n <= h.size
    <3> HIDE DEF h, o
    <3> DEFINE x == BlockLen - o
               y == op.todo - op.done
               z == h.size - h.offset
    <3>1. x \in Nat \ {0} /\ y \in Nat \ {0}
      BY <1>2, <1>3, <2>1
    <3>2. z \in Nat \ {0} /\ \A m \in Nat : m <= z => h.offset + m <= h.size
      BY <1>3
    <3> HIDE DEF x, y, z
    <3>3. /\ Smaller(Smaller(x, y), z) \in Nat \ {0} /\ Smaller(Smaller(x, y), z) <= x
          /\ Smaller(Smaller(x, y), z) <= y /\ Smaller(Smaller(x, y), z) <= z
      BY <3>1, <3>2 DEF Smaller
    <3>4. n = Smaller(Smaller(x, y), z)
      BY DEF x, y, z
    <3> HIDE DEF n
    <3>5. n \in Nat /\ n >= 1 /\ h.offset + n <= h.size
      BY <3>2, <3>3, <3>4
    <3>6. n <= x /\ n <= y
      BY <3>3, <3>4
    <3> QED BY <3>5, <3>6 DEF x, y
  <2> HIDE DEF n
  <2>3. /\ handle'[f].open /\ handle'[f].dirty = h.dirty /\ handle'[f].cluster = h.cluster
        /\ handle'[f].offset = h.offset + n /\ handle'[f].size = h.size
        /\ \A g \in File : g # f => handle'[g] = handle[g]
    <3>1. ~ (h.offset + n > h.size)
      BY <1>3, <2>2
    <3>2. h \in HandleRec
      BY <1>2
    <3>3. handle'[f] = Advanced(h, Here, n) /\ \A g \in File : g # f => handle'[g] = handle[g]
      BY <1>2, <1>4
    <3>4. h.open
      BY <1>2
    <3> HIDE DEF h
    <3> QED BY <3>1, <3>2, <3>3, <3>4, AdvancedIs
  <2>4. \A g \in File : Seen(g)'.cluster = Seen(g).cluster /\ Seen(g)'.size = Seen(g).size
    BY <1>2, <2>3 DEF Seen
  <2>5. Content' = Content
    BY <1>2, <2>4, AllSame, SameChain
  <2>6. Pos' = [Pos EXCEPT ![f] = @ + n] /\ Pos[f] = h.offset
    BY <1>2, <2>3 DEF Pos
  <2>7. /\ op'.pc = "read" /\ op'.file = f /\ op'.todo = op.todo /\ op'.done = op.done + n /\ op'.buffer = << >>
    BY <1>1, <1>2, <1>4 DEF OpType
  <2>8. Quiet' /\ Pending'
    BY <1>2, <2>3, <2>7 DEF Quiet, Pending, RInv, Writes
  <2>9. Coherent'
    <3>1. CASE cache' = cache
      BY <1>2, <2>4, <3>1, CacheKept DEF RInv
    <3>2. CASE cache' = [block |-> b, bytes |-> blocks[b]]
      <4>1. cache'.bytes = blocks'[cache'.block]
        BY <1>2, <3>2
      <4> QED BY <4>1 DEF Coherent, ByteAt
    <3> QED BY <1>4, <3>1, <3>2 DEF Cached
  <2>10. CallOf(op) = [kind |-> "read", file |-> f, rest |-> << >>, want |-> op.todo - op.done]
    BY <1>1, <1>2, CallNow
  <2>11. CallOf(op') = [kind |-> "read", file |-> f, rest |-> << >>, want |-> op.todo - (op.done + n)]
    <3>1. op'.todo \in Nat /\ op'.done \in Nat
      BY <1>3, <2>2, <2>7
    <3>2. CallOf(op') = [kind |-> "read", file |-> op'.file, rest |-> << >>, want |-> op'.todo - op'.done]
      BY <2>7, <3>1, CallRead
    <3> QED BY <2>7, <3>2
  <2>12. CASE f \in damaged
    <3>1. CallOf(op).file = f /\ CallOf(op)'.file = f
      BY <2>7, <2>10 DEF CallOf
    <3>2. \A g \in File \ damaged : Content'[g] = Content[g] /\ Pos'[g] = Pos[g]
      BY <2>3, <2>5, <2>12 DEF Pos
    <3>3. Promise!Next
      BY <1>2, <2>12, <3>1, <3>2, IsDisturb
    <3> QED BY <2>8, <2>9, <3>3 DEF Refines, RInv
  <2>13. CASE f \notin damaged
    <3>1. SubSeq(k.bytes, o + 1, o + n) = SubSeq(Content[f], Pos[f] + 1, Pos[f] + n)
      <4>1. SubSeq(k.bytes, o + 1, o + n) = SubSeq(BytesOf(f), h.offset + 1, h.offset + n)
        <5>1. ~ Locate(h).ended
          BY <1>2, <1>4
        <5>2. SubSeq(Cached(BlockAt(h, Locate(h)), Locate(h).walked).bytes, o + 1, o + n) =
                SubSeq(BytesOf(f), h.offset + 1, h.offset + n)
          <6> PICK g : g = h
            OBVIOUS
          <6>1. /\ g = handle[f] /\ g.open /\ g.cluster # NONE /\ ~ Locate(g).ended
                /\ n <= BlockLen - (g.offset % BlockLen) /\ g.offset + n <= g.size
            BY <1>2, <1>3, <2>2, <5>1
          <6> HIDE DEF h
          <6> QED BY <2>2, <2>13, <6>1, ReadIs DEF h
        <5> QED BY <1>2, <5>2
      <4> HIDE DEF k, o, h
      <4> QED BY <2>6, <4>1 DEF Content
    <3>2. CallOf(op)' = [CallOf(op) EXCEPT !.want = @ - n]
      <4>1. op.todo - (op.done + n) = (op.todo - op.done) - n
        BY <1>3, <2>2
      <4>2. [CallOf(op) EXCEPT !.want = @ - n] = [kind |-> "read", file |-> f, rest |-> << >>, want |-> (op.todo - op.done) - n]
        BY <2>10
      <4>3. CallOf(op') = [CallOf(op) EXCEPT !.want = @ - n]
        BY <2>11, <4>1, <4>2
      <4> QED BY <4>3 DEF CallOf
    <3>3. n \in 1 .. Smaller(op.todo - op.done, Len(Content[f]) - Pos[f])
      <4>1. Len(Content[f]) = h.size
        BY <1>2, HasLength DEF Seen
      <4> HIDE DEF h
      <4> QED BY <1>3, <2>2, <2>6, <4>1 DEF Smaller
    <3>4. CallOf(op).kind = "read" /\ CallOf(op).file = f /\ CallOf(op).want = op.todo - op.done
      BY <2>10
    <3>5. /\ got' = got \o SubSeq(Content[CallOf(op).file], Pos[CallOf(op).file] + 1, Pos[CallOf(op).file] + n)
          /\ Pos' = [Pos EXCEPT ![CallOf(op).file] = @ + n]
          /\ n \in 1 .. Smaller(CallOf(op).want, Len(Content[CallOf(op).file]) - Pos[CallOf(op).file])
      BY <1>4, <2>6, <3>1, <3>3, <3>4
    <3>6. Promise!Next
      BY <1>2, <1>4, <2>5, <3>2, <3>4, <3>5, IsReadSome
    <3> QED BY <2>8, <2>9, <3>6 DEF Refines, RInv
  <2> QED BY <2>12, <2>13
<1>5. CASE Here.ended /\ Fail /\ cache' = Forgotten /\ UNCHANGED handle
  BY <1>2, <1>5, FailsRefines, Untouched, SameChain DEF Fail, Return
<1>6. CASE /\ Fault /\ cache' = Forgotten
           /\ UNCHANGED handle \/ handle' = [handle EXCEPT ![f].at = Here.at]
  <2>1. SameHandles
    BY <1>2, <1>6 DEF SameHandles, HandleRec
  <2> QED BY <1>2, <1>6, <2>1, FailsRefines, SameChain DEF Fault, Fail, Return
<1> QED BY <1>1, <1>4, <1>5, <1>6 DEF ReadBlock

-----------------------------------------------------------------------------
(* The volume as it is opened, and every step *)

\* The bytes are where the chain has them.
LEMMA InitialByte ==
  ASSUME Init, NEW f \in File, NEW x \in 0 .. Len(InitialContent[f]) - 1
  PROVE  ByteAt(blocks, fat, InitialChain[f][1], x) = InitialContent[f][x + 1]
<1> DEFINE Has(b, k) == \E g \in File : \E i \in DOMAIN InitialContent[g] :
             /\ InitialChain[g][1 + (i - 1) \div BytesPerCluster] = b[1]
             /\ (i - 1) % BytesPerCluster = b[2] * BlockLen + k - 1
           F(b) == CHOOSE g \in File : \E j \in DOMAIN InitialChain[g] : InitialChain[g][j] = b[1]
           J(b) == CHOOSE i \in DOMAIN InitialChain[F(b)] : InitialChain[F(b)][i] = b[1]
           At(b, k) == InitialContent[F(b)][(J(b) - 1) * BytesPerCluster + b[2] * BlockLen + k]
           q == x \div BytesPerCluster
           j == (x % BytesPerCluster) \div BlockLen
           o == x % BlockLen
           c == InitialChain[f][q + 1]
           b == <<c, j>>
<1>1. blocks = [d \in Block |-> [k \in 1 .. BlockLen |-> IF Has(d, k) THEN At(d, k) ELSE 0]]
  BY DEF Init
<1>2. x \in Nat /\ x + 1 \in DOMAIN InitialContent[f] /\ (x + 1) - 1 = x
  BY InitialFacts
<1>3. q \in 0 .. Len(InitialChain[f]) - 1
  BY InitialPlace
<1>4. InChain(f, q + 1, c)
  <2> HIDE DEF q
  <2>1. q + 1 \in 1 .. Len(InitialChain[f])
    BY <1>3, InitialFacts
  <2> QED BY <2>1, InitialFacts DEF InChain
<1>5. Place(fat, InitialChain[f][1], x) = b
  <2>1. Walk(fat, InitialChain[f][1], q) = c
    BY <1>3, InitialWalks
  <2> QED BY <2>1 DEF Place
<1>6. /\ q \in Nat /\ j \in 0 .. BlocksPerCluster - 1 /\ o \in 0 .. BlockLen - 1
      /\ q * BytesPerCluster \in Nat /\ j * BlockLen \in Nat
      /\ x = q * BytesPerCluster + j * BlockLen + o
  BY <1>2, Spot
<1>7. x % BytesPerCluster = j * BlockLen + o
  <2>1. BytesPerCluster * q + (x % BytesPerCluster) = x /\ (x % BytesPerCluster) \in 0 .. BytesPerCluster - 1
    BY <1>2, Quotient, Sizes
  <2>2. BytesPerCluster * q = q * BytesPerCluster
    BY <1>6, Sizes
  <2> DEFINE y == q * BytesPerCluster
             z == j * BlockLen
             r == x % BytesPerCluster
  <2>3. y + r = x /\ x = y + z + o /\ y \in Nat /\ z \in Nat /\ r \in Int /\ o \in Int
    BY <1>6, <2>1, <2>2, Sizes
  <2> HIDE DEF y, z, r, o
  <2>4. r = z + o
    BY <2>3
  <2> QED BY <2>4 DEF r, z, o
<1> HIDE DEF q, j, o, c
<1>8. b \in Block /\ 1 + o \in 1 .. BlockLen
  <2>1. c \in Cluster
    BY <1>4, InChainFacts
  <2>2. 1 + o \in 1 .. BlockLen
    BY <1>6, Sizes
  <2> QED BY <1>6, <2>1, <2>2 DEF Block
<1>9. Has(b, 1 + o)
  <2>1. InitialChain[f][1 + ((x + 1) - 1) \div BytesPerCluster] = b[1]
    <3>1. 1 + q = q + 1
      BY <1>6
    <3> QED BY <1>2, <3>1 DEF q, c
  <2>2. ((x + 1) - 1) % BytesPerCluster = b[2] * BlockLen + (1 + o) - 1
    <3>1. j * BlockLen + (1 + o) - 1 = j * BlockLen + o
      <4> DEFINE z == j * BlockLen
      <4>1. z \in Int /\ o \in Int
        BY <1>6
      <4> HIDE DEF z
      <4>2. z + (1 + o) - 1 = z + o
        BY <4>1
      <4> QED BY <4>2 DEF z
    <3> QED BY <1>2, <1>7, <3>1
  <2> QED BY <1>2, <2>1, <2>2
<1>10. At(b, 1 + o) = InitialContent[f][x + 1]
  <2>1. InChain(F(b), J(b), c)
    <3>1. F(b) \in File /\ \E i \in DOMAIN InitialChain[F(b)] : InitialChain[F(b)][i] = b[1]
      <4>1. \E g \in File : \E i \in DOMAIN InitialChain[g] : InitialChain[g][i] = b[1]
        BY <1>4 DEF InChain
      <4> QED BY <4>1
    <3>2. J(b) \in DOMAIN InitialChain[F(b)] /\ InitialChain[F(b)][J(b)] = b[1]
      BY <3>1
    <3> QED BY <3>1, <3>2 DEF InChain
  <2>2. F(b) = f /\ J(b) = q + 1
    <3> HIDE DEF F, J
    <3> QED BY <1>4, <2>1, OnlyOnce
  <2> HIDE DEF F, J
  <2>3. (J(b) - 1) * BytesPerCluster + b[2] * BlockLen + (1 + o) = x + 1
    <3> DEFINE y == q * BytesPerCluster
               z == j * BlockLen
    <3>1. (J(b) - 1) * BytesPerCluster = y /\ b[2] * BlockLen = z
      <4>1. J(b) - 1 = q
        BY <1>6, <2>2
      <4> QED BY <4>1
    <3>2. x = y + z + o /\ y \in Nat /\ z \in Nat /\ o \in Int
      BY <1>6
    <3> HIDE DEF y, z
    <3>3. y + z + (1 + o) = x + 1
      BY <1>2, <3>2
    <3> QED BY <3>1, <3>3
  <2> QED BY <2>2, <2>3
<1> HIDE DEF Has, At, b
<1>11. blocks[b][1 + o] = InitialContent[f][x + 1]
  BY <1>1, <1>8, <1>9, <1>10
<1> QED BY <1>5, <1>11 DEF ByteAt, o

LEMMA InitRefines == ASSUME Init, IInv PROVE RInv /\ Promise!Init
<1>1. /\ cache = Forgotten /\ handle = [f \in File |-> Closed] /\ op = NoOp /\ got = << >> /\ ret = "ok" /\ damaged = {}
      /\ entry = [f \in File |-> [cluster |-> IF InitialChain[f] = << >> THEN NONE ELSE InitialChain[f][1],
                                  size |-> Len(InitialContent[f])]]
  BY DEF Init
<1>2. ASSUME NEW f \in File
      PROVE  /\ ~ handle[f].open /\ Seen(f).size = Len(InitialContent[f]) /\ Len(InitialContent[f]) \in Nat
             /\ Len(InitialContent[f]) # 0 => Seen(f).cluster = InitialChain[f][1]
  <2>1. ~ handle[f].open /\ Seen(f) = entry[f]
    BY <1>1 DEF Closed, Seen
  <2>2. InitialChain[f] = << >> => Len(InitialContent[f]) = 0
    <3>1. InitialChain[f] = << >> => Len(InitialChain[f]) * BytesPerCluster = 0
      BY Sizes
    <3>2. Len(InitialContent[f]) \in Nat /\ Len(InitialContent[f]) <= Len(InitialChain[f]) * BytesPerCluster
      BY InitialFacts
    <3> QED BY <3>1, <3>2
  <2> QED BY <1>1, <2>1, <2>2, InitialFacts
<1>3. ASSUME NEW f \in File PROVE BytesOf(f) = InitialContent[f]
  <2> DEFINE n == Len(InitialContent[f])
  <2>1. n \in Nat /\ InitialContent[f] \in Seq(Byte)
    BY InitialFacts
  <2>2. BytesOf(f) = Text(blocks, fat, Seen(f).cluster, n)
    BY <1>1, <1>2, BytesAre
  <2>3. ASSUME NEW i \in 1 .. n PROVE ByteAt(blocks, fat, Seen(f).cluster, i - 1) = InitialContent[f][i]
    <3> DEFINE x == i - 1
    <3>1. x \in 0 .. n - 1 /\ x + 1 = i /\ n # 0
      BY <2>1
    <3> HIDE DEF x
    <3>2. ByteAt(blocks, fat, InitialChain[f][1], x) = InitialContent[f][x + 1]
      BY <3>1, InitialByte
    <3> QED BY <1>2, <3>1, <3>2 DEF x
  <2>4. InitialContent[f] = [i \in 1 .. n |-> InitialContent[f][i]]
    BY <2>1
  <2> HIDE DEF n
  <2> QED BY <2>2, <2>3, <2>4 DEF Text
<1>4. Content = InitialContent
  BY <1>3, ContentAssumption DEF Content
<1>5. Pos = [f \in File |-> -1]
  BY <1>2 DEF Pos
<1>6. CallOf(op) = NoCall
  BY <1>1, CallIdle
<1>7. Promise!Init
  BY <1>1, <1>4, <1>5, <1>6 DEF Promise!Init, Promise!NoCall, Promise!Closed, NoCall, Content, Pos, CallOf
<1>8. Quiet /\ Pending
  BY <1>1, <1>2 DEF Quiet, Pending, NoOp, Writes
<1>9. Coherent
  <2> SUFFICES ASSUME NEW f \in File \ damaged, NEW i \in 0 .. Seen(f).size - 1
               PROVE  cache.block # Place(fat, Seen(f).cluster, i)
    BY DEF Coherent
  <2>1. Walk(fat, Seen(f).cluster, i \div BytesPerCluster) \in Cluster
    BY Places
  <2> QED BY <1>1, <2>1, ClusterFacts DEF Forgotten, NoBlock, Place
<1> QED BY <1>7, <1>8, <1>9 DEF RInv

LEMMA StepRefines == ASSUME IInv, IInv', RInv, [Next]_vars PROVE Refines
<1>1. CASE Advance
  BY <1>1, AllocFirstRefines, ExtendRefines, ExtendedTooLittleRefines, WriteBlockRefines,
     WriteBlockFailsRefines, EndWriteRefines, ReadBlockRefines, EndReadRefines DEF Advance
<1>2. CASE Call
  <2>1. PICK f \in File :
          \/ \E append \in BOOLEAN : Open(f, append)
          \/ OpenTruncate(f) \/ OpenTruncateFails(f)
          \/ \E buffer \in Buffers : StartWrite(f, buffer)
          \/ \E size \in ReadSizes : StartRead(f, size)
          \/ \E offset \in -1 .. MaxFileSize + 1 : Seek(f, offset)
          \/ \E closing \in BOOLEAN : Flush(f, closing)
    BY <1>2 DEF Call
  <2>2. \A offset \in -1 .. MaxFileSize + 1 : offset \in Int
    OBVIOUS
  <2> QED BY <2>1, <2>2, OpenRefines, OpenTruncateRefines, OpenTruncateFailsRefines, StartWriteRefines,
             StartReadRefines, SeekRefines, FlushRefines
<1>3. CASE PowerLoss
  BY <1>3, PowerLossRefines
<1>4. CASE UNCHANGED vars
  <2>1. UNCHANGED <<fat, blocks, cache, entry, handle, op, got, ret, damaged>>
    BY <1>4 DEF vars
  <2>2. Content' = Content /\ Pos' = Pos
    BY <2>1, Untouched, AllSame, SameSeen, SameChain
  <2>3. UNCHANGED Promise!vars
    BY <2>1, <2>2, IsStutter DEF CallOf
  <2>4. Quiet' /\ Pending'
    BY <2>1 DEF RInv, Quiet, Pending
  <2>5. Coherent'
    BY <2>1, CacheKept DEF RInv, Seen
  <2> QED BY <2>3, <2>4, <2>5 DEF Refines, RInv
<1> QED BY <1>1, <1>2, <1>3, <1>4 DEF Next

\* Files behave like sequences of bytes (ByteFile): writes land where they should
\* and nowhere else, reads return what was written, a call that returns Ok did
\* all it was asked for, and an error or a loss of power damages no file but the
\* one concerned (read, write, the seeks, flush, close, and the block cache).
THEOREM Implements == Spec => FilesAreBytes
<1>1. Init /\ IInv => RInv /\ Promise!Init
  BY InitRefines
<1>2. IInv /\ IInv' /\ RInv /\ [Next]_vars => RInv' /\ [Promise!Next]_(Promise!vars)
  BY StepRefines DEF Refines
<1> QED BY <1>1, <1>2, Invariance, PTL DEF Spec, FilesAreBytes, Promise!Spec

=============================================================================

------------------------- MODULE VolumeLayout_proof -------------------------
(***************************************************************************)
(* Proofs about VolumeLayout, for registers of every length and partitions *)
(* of every size and format that IsFormat allows: the library knows a card *)
(* for as large as it is, and what opening a volume makes of a boot sector *)
(* is where another computer has put things.                               *)
(***************************************************************************)
EXTENDS VolumeLayout, FiniteSetTheorems, SequenceTheorems, Induction, TLAPS

-----------------------------------------------------------------------------
(* Division *)

LEMMA Divided ==
  ASSUME NEW x \in Nat, NEW n \in Nat \ {0}
  PROVE  /\ x \div n \in Nat /\ x % n \in 0 .. n - 1
         /\ x = n * (x \div n) + (x % n)
         /\ n * (x \div n) <= x /\ x < n * (x \div n + 1)
<1>1. x \div n \in Nat
  BY SMTT(30)
<1>2. x % n \in 0 .. n - 1 /\ x = n * (x \div n) + (x % n)
  BY SMTT(30)
<1>3. n * (x \div n + 1) = n * (x \div n) + n
  BY <1>1, SMTT(30)
<1> DEFINE p == n * (x \div n)
           r == x % n
<1>4. p \in Nat
  BY <1>1
<1>5. x = p + r /\ r \in 0 .. n - 1 /\ n * (x \div n + 1) = p + n
  BY <1>2, <1>3
<1>6. p <= x /\ x < n * (x \div n + 1)
  <2> HIDE DEF p, r
  <2> QED BY <1>4, <1>5
<1> QED BY <1>1, <1>2, <1>6

\* The quotient is the only number of its kind.
LEMMA Quotient ==
  ASSUME NEW x \in Nat, NEW n \in Nat \ {0}, NEW k \in Nat, NEW r \in 0 .. n - 1, x = n * k + r
  PROVE  x \div n = k /\ x % n = r
<1> DEFINE q == x \div n
<1>1. q \in Nat /\ n * q <= x /\ x < n * (q + 1) /\ x = n * q + (x % n) /\ x % n \in 0 .. n - 1
  BY Divided
<1> HIDE DEF q
<1>2. n * k \in Nat /\ n * q \in Nat /\ n * (q + 1) = n * q + n /\ n * (k + 1) = n * k + n
  BY <1>1, SMTT(30)
<1>3. ~ (q + 1 <= k)
  <2> SUFFICES ASSUME q + 1 <= k PROVE FALSE
    OBVIOUS
  <2>1. n * (q + 1) <= n * k
    BY <1>1, SMTT(30)
  <2> QED BY <1>1, <1>2, <2>1
<1>4. ~ (k + 1 <= q)
  <2> SUFFICES ASSUME k + 1 <= q PROVE FALSE
    OBVIOUS
  <2>1. n * (k + 1) <= n * q
    BY <1>1, SMTT(30)
  <2> QED BY <1>1, <1>2, <2>1
<1>5. q = k
  BY <1>1, <1>3, <1>4
<1>6. n * q = n * k
  BY <1>5
<1>7. x % n = r
  BY <1>1, <1>2, <1>6
<1> QED BY <1>5, <1>7 DEF q

\* How many blocks so many bytes take, in the three ways that it is calculated.
LEMMA CeilingIs ==
  ASSUME NEW a \in Nat, NEW b \in Nat \ {0}
  PROVE  /\ Ceiling(a, b) \in Nat /\ Ceiling(a, b) * b >= a
         /\ Ceiling(a, b) = (a + b - 1) \div b
         /\ Ceiling(a, b) = IF (a \div b) * b # a THEN a \div b + 1 ELSE a \div b
<1> DEFINE q == a \div b
           n == IF q * b # a THEN q + 1 ELSE q
           Is(m) == m \in 0 .. a /\ m * b >= a /\ (m - 1) * b < a
<1>1. q \in Nat /\ b * q <= a /\ a < b * (q + 1) /\ a = b * q + (a % b) /\ a % b \in 0 .. b - 1
  BY Divided
<1> HIDE DEF q
<1>2. q * b = b * q /\ b * q \in Nat /\ (q + 1) * b = b * (q + 1) /\ b * (q + 1) = b * q + b /\ (q - 1) * b = b * q - b
  BY <1>1, SMTT(30)
<1>3. q <= b * q
  BY <1>1, SMTT(30)
<1>4. Is(n)
  <2>1. CASE q * b # a
    <3>1. n = q + 1 /\ n - 1 = q /\ b * q < a
      BY <1>1, <1>2, <2>1
    <3>2. n * b >= a
      BY <1>1, <1>2, <3>1
    <3>3. (n - 1) * b < a
      BY <1>1, <1>2, <3>1
    <3>4. n \in 0 .. a
      BY <1>1, <1>2, <1>3, <3>1
    <3> QED BY <3>2, <3>3, <3>4
  <2>2. CASE q * b = a
    <3>1. n = q
      BY <2>2
    <3>2. (n - 1) * b < a
      BY <1>1, <1>2, <2>2, <3>1
    <3>3. n \in 0 .. a
      <4>1. q \in 0 .. a
        <5>1. q <= a
          BY <1>2, <1>3, <2>2
        <5> QED BY <1>1, <5>1
      <4> HIDE DEF n
      <4> QED BY <3>1, <4>1
    <3> QED BY <1>1, <2>2, <3>1, <3>2, <3>3
  <2> QED BY <2>1, <2>2
<1> HIDE DEF n, Is
<1>5. ASSUME NEW m, Is(m), NEW k, Is(k) PROVE ~ (m < k)
  <2> SUFFICES ASSUME m < k PROVE FALSE
    OBVIOUS
  <2>1. m \in Nat /\ k \in Nat /\ m * b >= a /\ (k - 1) * b < a
    BY <1>5 DEF Is
  <2>2. m <= k - 1 /\ k - 1 \in Nat
    BY <2>1
  <2>3. m * b <= (k - 1) * b
    BY <2>1, <2>2, SMTT(30)
  <2>4. m * b \in Nat /\ (k - 1) * b \in Nat
    BY <2>1, <2>2
  <2> QED BY <2>1, <2>3, <2>4
<1>6. Is(Ceiling(a, b))
  <2>1. Ceiling(a, b) = CHOOSE m \in 0 .. a : m * b >= a /\ (m - 1) * b < a
    BY DEF Ceiling
  <2>2. \E m \in 0 .. a : m * b >= a /\ (m - 1) * b < a
    BY <1>4 DEF Is
  <2> QED BY <2>1, <2>2 DEF Is
<1>7. Ceiling(a, b) = n
  <2>1. Ceiling(a, b) \in Nat /\ n \in Nat
    BY <1>4, <1>6 DEF Is
  <2>2. ~ (Ceiling(a, b) < n)
    BY <1>4, <1>5, <1>6
  <2>3. ~ (n < Ceiling(a, b))
    BY <1>4, <1>5, <1>6
  <2> QED BY <2>1, <2>2, <2>3
<1>8. (a + b - 1) \div b = n
  <2>1. a + b - 1 \in Nat
    OBVIOUS
  <2>2. CASE q * b # a
    <3>1. n = q + 1 /\ a % b # 0 /\ (a % b) - 1 \in 0 .. b - 1
      BY <1>1, <1>2, <2>2 DEF n
    <3>2. a + b - 1 = b * (q + 1) + ((a % b) - 1)
      BY <1>1, <1>2, <3>1
    <3>3. q + 1 \in Nat
      BY <1>1
    <3>4. (a + b - 1) \div b = q + 1
      BY <2>1, <3>1, <3>2, <3>3, Quotient
    <3> QED BY <3>1, <3>4
  <2>3. CASE q * b = a
    <3>1. n = q /\ b - 1 \in 0 .. b - 1
      BY <1>1, <2>3 DEF n
    <3>2. a + b - 1 = b * q + (b - 1)
      BY <1>1, <1>2, <2>3
    <3>3. (a + b - 1) \div b = q
      BY <1>1, <2>1, <3>1, <3>2, Quotient
    <3> QED BY <3>1, <3>3
  <2> QED BY <2>2, <2>3
<1>9. Ceiling(a, b) \in Nat /\ Ceiling(a, b) * b >= a
  BY <1>6 DEF Is
<1> QED BY <1>7, <1>8, <1>9 DEF n, q

-----------------------------------------------------------------------------
(* Powers of two, and numbers in bits *)

\* The function that is repeated in TwoTo.
Doubles(p, n) == p \in [0 .. n -> Nat] /\ p[0] = 1 /\ \A i \in 1 .. n : p[i] = 2 * p[i - 1]

LEMMA DoublesExist ==
  ASSUME NEW n \in Nat
  PROVE  \E p : Doubles(p, n) /\ TwoTo(n) = p[n]
<1> DEFINE step == [x \in Nat |-> 2 * x]
           P(p) == p = [i \in 0 .. n |-> IF i = 0 THEN 1 ELSE 2 * p[i - 1]]
           f == CHOOSE p : P(p)
<1>1. step \in [Nat -> Nat] /\ 1 \in Nat
  OBVIOUS
<1>2. PICK h \in [0 .. n -> Nat] : Iterates(h, n, 1, step)
  <2> HIDE DEF step
  <2> QED BY <1>1, IteratesExist
<1>3. h[0] = 1 /\ \A i \in 1 .. n : h[i] = 2 * h[i - 1]
  <2>1. ASSUME NEW i \in 1 .. n PROVE h[i] = 2 * h[i - 1]
    <3>1. h[i - 1] \in Nat
      OBVIOUS
    <3>2. h[i] = step[h[i - 1]]
      BY <1>2 DEF Iterates
    <3> QED BY <3>1, <3>2
  <2> QED BY <1>2, <2>1 DEF Iterates
<1>4. P(h)
  <2>1. \A i \in 0 .. n : h[i] = IF i = 0 THEN 1 ELSE 2 * h[i - 1]
    BY <1>3
  <2> QED BY <2>1
<1>5. P(f)
  <2> HIDE DEF P
  <2> QED BY <1>4
<1>6. TwoTo(n) = f[n]
  BY DEF TwoTo
<1> HIDE DEF f
<1>7. f[0] = 1 /\ \A i \in 1 .. n : f[i] = 2 * f[i - 1]
  BY <1>5
<1>8. \A i \in 0 .. n : f[i] = h[i]
  <2> DEFINE S == {i \in 0 .. n : f[i] = h[i]}
  <2>1. 0 \in S
    BY <1>3, <1>7
  <2>2. ASSUME NEW i \in 1 .. n, i - 1 \in S PROVE i \in S
    BY <1>3, <1>7, <2>2
  <2> HIDE DEF S
  <2>3. 0 .. n \subseteq S
    BY <2>1, <2>2, BoundedInduction
  <2> QED BY <2>3 DEF S
<1>9. Doubles(h, n)
  BY <1>3 DEF Doubles
<1>10. f[n] = h[n]
  BY <1>8
<1> QED BY <1>6, <1>9, <1>10

LEMMA DoublesOnce ==
  ASSUME NEW n \in Nat, NEW k \in 0 .. n, NEW p, NEW q, Doubles(p, n), Doubles(q, k)
  PROVE  p[k] = q[k]
<1> DEFINE S == {i \in 0 .. k : p[i] = q[i]}
<1>1. 0 \in S
  BY DEF Doubles
<1>2. ASSUME NEW i \in 1 .. k, i - 1 \in S PROVE i \in S
  BY <1>2 DEF Doubles
<1> HIDE DEF S
<1>3. 0 .. k \subseteq S
  BY <1>1, <1>2, BoundedInduction
<1> QED BY <1>3 DEF S

LEMMA TwoToIs ==
  /\ TwoTo(0) = 1
  /\ \A n \in Nat : TwoTo(n) \in Nat \ {0} /\ TwoTo(n + 1) = 2 * TwoTo(n)
<1>1. TwoTo(0) = 1
  BY DoublesExist DEF Doubles
<1>2. ASSUME NEW n \in Nat PROVE TwoTo(n) \in Nat /\ TwoTo(n + 1) = 2 * TwoTo(n)
  <2>1. PICK p : Doubles(p, n) /\ TwoTo(n) = p[n]
    BY DoublesExist
  <2>2. PICK q : Doubles(q, n + 1) /\ TwoTo(n + 1) = q[n + 1]
    BY DoublesExist
  <2>3. q[n] = p[n]
    BY <2>1, <2>2, DoublesOnce
  <2>4. q[n + 1] = 2 * q[(n + 1) - 1] /\ (n + 1) - 1 = n /\ p[n] \in Nat
    BY <2>1, <2>2 DEF Doubles
  <2> QED BY <2>1, <2>2, <2>3, <2>4
<1>3. \A n \in Nat : TwoTo(n) # 0
  <2> DEFINE S == {n \in Nat : TwoTo(n) # 0}
  <2>1. 0 \in S
    BY <1>1
  <2>2. ASSUME NEW n \in Nat, n \in S PROVE n + 1 \in S
    BY <1>2, <2>2
  <2> HIDE DEF S
  <2>3. Nat \subseteq S
    BY <2>1, <2>2, SetInduction
  <2> QED BY <2>3 DEF S
<1> QED BY <1>1, <1>2, <1>3

LEMMA TwoToSum ==
  ASSUME NEW m \in Nat, NEW n \in Nat
  PROVE  TwoTo(m + n) = TwoTo(m) * TwoTo(n)
<1> DEFINE S == {k \in Nat : TwoTo(m + k) = TwoTo(m) * TwoTo(k)}
<1>1. 0 \in S
  <2>1. m + 0 = m /\ TwoTo(m) * 1 = TwoTo(m)
    BY TwoToIs
  <2> QED BY <2>1, TwoToIs
<1>2. ASSUME NEW k \in Nat, k \in S PROVE k + 1 \in S
  <2>1. TwoTo(m + (k + 1)) = 2 * TwoTo(m + k)
    <3>1. m + (k + 1) = (m + k) + 1 /\ m + k \in Nat
      OBVIOUS
    <3> QED BY <3>1, TwoToIs
  <2>2. TwoTo(k + 1) = 2 * TwoTo(k) /\ TwoTo(k) \in Nat /\ TwoTo(m) \in Nat
    BY TwoToIs
  <2>3. TwoTo(m + k) = TwoTo(m) * TwoTo(k)
    BY <1>2
  <2>4. 2 * (TwoTo(m) * TwoTo(k)) = TwoTo(m) * (2 * TwoTo(k))
    BY <2>2
  <2> QED BY <2>1, <2>2, <2>3, <2>4
<1> HIDE DEF S
<1>3. Nat \subseteq S
  BY <1>1, <1>2, SetInduction
<1> QED BY <1>3 DEF S

\* What bits say is a number.
LEMMA NumberIs ==
  ASSUME NEW bits \in Seq(Bit)
  PROVE  Number(bits) \in Nat
<1> DEFINE n == Len(bits)
           step == [i \in 1 .. n |-> [x \in Nat |-> 2 * x + bits[i]]]
           P(p) == p = [i \in 0 .. n |-> IF i = 0 THEN 0 ELSE 2 * p[i - 1] + bits[i]]
           f == CHOOSE p : P(p)
<1>1. n \in Nat /\ \A i \in 1 .. n : bits[i] \in Nat
  BY DEF Bit
<1>2. step \in [1 .. n -> [Nat -> Nat]] /\ 0 \in Nat
  BY <1>1
<1>3. PICK h \in [0 .. n -> Nat] : StepsFrom(h, n, 0, step)
  <2> HIDE DEF n, step
  <2> QED BY <1>1, <1>2, StepsExist
<1>4. h[0] = 0 /\ \A i \in 1 .. n : h[i] = 2 * h[i - 1] + bits[i]
  <2>1. ASSUME NEW i \in 1 .. n PROVE h[i] = 2 * h[i - 1] + bits[i]
    <3>1. h[i - 1] \in Nat
      BY <1>1
    <3>2. h[i] = step[i][h[i - 1]]
      BY <1>3 DEF StepsFrom
    <3> QED BY <3>1, <3>2
  <2> QED BY <1>3, <2>1 DEF StepsFrom
<1>5. P(h)
  <2>1. \A i \in 0 .. n : h[i] = IF i = 0 THEN 0 ELSE 2 * h[i - 1] + bits[i]
    BY <1>1, <1>4
  <2> HIDE DEF n
  <2> QED BY <2>1
<1>6. P(f)
  <2> HIDE DEF P
  <2> QED BY <1>5
<1>7. Number(bits) = f[n]
  BY DEF Number
<1> HIDE DEF f
<1>8. f[0] = 0 /\ \A i \in 1 .. n : f[i] = 2 * f[i - 1] + bits[i]
  BY <1>1, <1>6
<1>9. \A i \in 0 .. n : f[i] \in Nat
  <2> DEFINE S == {i \in 0 .. n : f[i] \in Nat}
  <2>1. 0 \in S
    BY <1>1, <1>8
  <2>2. ASSUME NEW i \in 1 .. n, i - 1 \in S PROVE i \in S
    <3>1. f[i - 1] \in Nat
      BY <2>2
    <3>2. f[i] = 2 * f[i - 1] + bits[i] /\ bits[i] \in Nat /\ i \in 0 .. n
      BY <1>1, <1>8
    <3>3. f[i] \in Nat
      BY <3>1, <3>2
    <3> QED BY <3>2, <3>3
  <2> HIDE DEF S
  <2>3. 0 .. n \subseteq S
    BY <1>1, <2>1, <2>2, BoundedInduction
  <2> QED BY <2>3 DEF S
<1> QED BY <1>1, <1>7, <1>9

-----------------------------------------------------------------------------
(* A format, and the boot sector that describes it *)

LEMMA ConstantsAre ==
  /\ BlockLen \in Nat \ {0} /\ EntryLen \in Nat \ {0} /\ MinFat16 \in Nat /\ MinFat32 \in Nat
  /\ \A type \in FatType : FatEntryLen[type] \in Nat \ {0}
  /\ AllOnes \in Nat /\ MaxVolumes \in Nat /\ MaxFaults \in Nat
  /\ MinFat16 < MinFat32
<1>1. BlockLen \in Nat \ {0} /\ Word \in Nat \ {0}
  BY RegisterAssumption, TwoToIs DEF BlockLen, Word
<1>2. Word - 1 \in Nat
  BY <1>1
<1> QED BY <1>1, <1>2, LayoutAssumption DEF AllOnes

LEMMA FormatIs ==
  ASSUME NEW f, IsFormat(f)
  PROVE  /\ f.type \in FatType /\ f.fats \in 1 .. 2 /\ f.reserved \in Nat \ {0} /\ f.perCluster \in Nat \ {0}
         /\ f.root \in Nat /\ f.clusters \in Nat /\ f.left \in Nat /\ f.left < f.perCluster
         /\ f.spare \in Nat /\ f.behind \in Nat
BY DEF IsFormat

LEMMA SizesAre ==
  ASSUME NEW f, IsFormat(f)
  PROVE  /\ FatLen(f) \in Nat \ {0} /\ RootLen(f) \in Nat
         /\ RootAt(f) \in Nat /\ RootAt(f) = f.reserved + f.fats * FatLen(f) /\ f.fats * FatLen(f) \in Nat
         /\ DataAt(f) \in Nat /\ DataAt(f) = RootAt(f) + RootLen(f)
         /\ f.clusters * f.perCluster \in Nat
         /\ Total(f) \in Nat /\ Total(f) = DataAt(f) + f.clusters * f.perCluster + f.left
         /\ Length(f) \in Nat /\ Total(f) <= Length(f)
         /\ (f.clusters + 2) * FatEntryLen[f.type] <= FatLen(f) * BlockLen
<1> DEFINE a == (f.clusters + 2) * FatEntryLen[f.type]
           n == Ceiling(a, BlockLen)
<1>1. /\ f.fats \in Nat /\ f.reserved \in Nat /\ f.perCluster \in Nat /\ f.root \in Nat /\ f.clusters \in Nat
      /\ f.left \in Nat /\ f.spare \in Nat /\ f.behind \in Nat
  BY FormatIs
<1>2. FatEntryLen[f.type] \in Nat \ {0}
  BY FormatIs, ConstantsAre
<1>3. a \in Nat /\ a > 0
  <2>1. f.clusters + 2 \in Nat \ {0}
    BY <1>1
  <2>2. \A x, y \in Nat \ {0} : x * y \in Nat /\ x * y > 0
    BY SMTT(30)
  <2> QED BY <1>2, <2>1, <2>2
<1>4. n \in Nat /\ n * BlockLen >= a
  <2> HIDE DEF a
  <2> QED BY <1>3, ConstantsAre, CeilingIs
<1>5. FatLen(f) = n + f.spare
  BY DEF FatLen
<1> HIDE DEF a, n
<1>6. n # 0
  <2> SUFFICES ASSUME n = 0 PROVE FALSE
    OBVIOUS
  <2>1. n * BlockLen = 0
    BY ConstantsAre
  <2> QED BY <1>3, <1>4, <2>1
<1>7. FatLen(f) \in Nat \ {0}
  BY <1>1, <1>4, <1>5, <1>6
<1>8. a <= FatLen(f) * BlockLen
  <2>1. (n + f.spare) * BlockLen = n * BlockLen + f.spare * BlockLen
    BY <1>1, <1>4, ConstantsAre, SMTT(30)
  <2>2. f.spare * BlockLen \in Nat /\ n * BlockLen \in Nat
    BY <1>1, <1>4, ConstantsAre
  <2> QED BY <1>3, <1>4, <1>5, <2>1, <2>2
<1>9. RootLen(f) \in Nat
  <2>1. f.root * EntryLen \in Nat
    BY <1>1, ConstantsAre
  <2> QED BY <2>1, ConstantsAre, CeilingIs DEF RootLen
<1>10. f.fats * FatLen(f) \in Nat /\ f.clusters * f.perCluster \in Nat
  BY <1>1, <1>7
<1>11. RootAt(f) \in Nat /\ RootAt(f) = f.reserved + f.fats * FatLen(f)
  BY <1>1, <1>10 DEF RootAt
<1>12. DataAt(f) \in Nat /\ DataAt(f) = RootAt(f) + RootLen(f)
  BY <1>9, <1>11 DEF DataAt
<1>13. Total(f) \in Nat /\ Total(f) = DataAt(f) + f.clusters * f.perCluster + f.left
  BY <1>1, <1>10, <1>12 DEF Total
<1>14. Length(f) \in Nat /\ Total(f) <= Length(f)
  BY <1>1, <1>13 DEF Length
<1> QED BY <1>7, <1>8, <1>9, <1>10, <1>11, <1>12, <1>13, <1>14 DEF a

LEMMA BootSectorSays ==
  ASSUME NEW f, IsFormat(f), NEW bpb, bpb = BootSector(f)
  PROVE  /\ FatSize(bpb) = FatLen(f) /\ TotalBlocks(bpb) = Total(f)
         /\ FromBytes(bpb.rootEntries * EntryLen) = RootLen(f) /\ RootDirBlocks(bpb) = RootLen(f)
         /\ AfterFats(bpb) = RootAt(f)
         /\ ClusterCount(bpb) = f.clusters /\ FatTypeOf(bpb) = f.type
         /\ IsBpb(bpb) <=> f.flaw # "footer" /\ f.flaw # "version" /\ f.type # "Fat12"
<1>1. /\ bpb.footer = (f.flaw # "footer") /\ bpb.perCluster = f.perCluster /\ bpb.reserved = f.reserved
      /\ bpb.fats = f.fats /\ bpb.rootEntries = f.root
      /\ bpb.total16 = (IF Small(f) THEN Total(f) ELSE 0) /\ bpb.total32 = (IF Small(f) THEN 0 ELSE Total(f))
      /\ bpb.fatSize16 = (IF f.type # "Fat32" THEN FatLen(f) ELSE 0)
      /\ bpb.fatSize32 = (IF f.type # "Fat32" THEN 0 ELSE FatLen(f))
      /\ bpb.version = (IF f.flaw = "version" THEN 1 ELSE 0)
  BY DEF BootSector
<1>2. FatSize(bpb) = FatLen(f)
  BY <1>1 DEF FatSize
<1>3. TotalBlocks(bpb) = Total(f)
  BY <1>1 DEF TotalBlocks
<1> DEFINE bytes == f.root * EntryLen
<1>4. bytes \in Nat /\ bpb.rootEntries * EntryLen = bytes /\ RootLen(f) = Ceiling(bytes, BlockLen)
  BY <1>1, FormatIs, ConstantsAre DEF RootLen
<1> HIDE DEF bytes
<1>5. FromBytes(bpb.rootEntries * EntryLen) = RootLen(f)
  <2>1. Ceiling(bytes, BlockLen) = IF (bytes \div BlockLen) * BlockLen # bytes THEN bytes \div BlockLen + 1
                                   ELSE bytes \div BlockLen
    BY <1>4, ConstantsAre, CeilingIs
  <2>2. FromBytes(bytes) = Ceiling(bytes, BlockLen)
    BY <2>1 DEF FromBytes
  <2> QED BY <1>4, <2>2
<1>6. RootDirBlocks(bpb) = RootLen(f)
  <2>1. Ceiling(bytes, BlockLen) = (bytes + BlockLen - 1) \div BlockLen
    BY <1>4, ConstantsAre, CeilingIs
  <2> QED BY <1>4, <2>1 DEF RootDirBlocks
<1>7. AfterFats(bpb) = RootAt(f)
  BY <1>1, <1>2, SizesAre DEF AfterFats
<1>8. ClusterCount(bpb) = f.clusters
  <2> DEFINE left == Total(f) - (bpb.reserved + bpb.fats * FatSize(bpb) + FromBytes(bpb.rootEntries * EntryLen))
  <2>1. ClusterCount(bpb) = left \div f.perCluster
    BY <1>1, <1>3 DEF ClusterCount
  <2>2. left = f.clusters * f.perCluster + f.left
    <3>1. bpb.reserved + bpb.fats * FatSize(bpb) + FromBytes(bpb.rootEntries * EntryLen) = DataAt(f)
      BY <1>1, <1>2, <1>5, SizesAre
    <3>2. Total(f) = DataAt(f) + f.clusters * f.perCluster + f.left /\ DataAt(f) \in Nat
          /\ f.clusters * f.perCluster \in Nat /\ f.left \in Nat
      BY SizesAre, FormatIs
    <3> QED BY <3>1, <3>2
  <2> HIDE DEF left
  <2>3. f.perCluster \in Nat \ {0} /\ f.clusters \in Nat /\ f.left \in 0 .. f.perCluster - 1
    BY FormatIs
  <2>4. f.clusters * f.perCluster = f.perCluster * f.clusters /\ f.clusters * f.perCluster \in Nat
    BY <2>3
  <2>5. left \in Nat /\ left = f.perCluster * f.clusters + f.left
    BY <2>2, <2>3, <2>4
  <2> QED BY <2>1, <2>3, <2>5, Quotient
<1>9. FatTypeOf(bpb) = f.type
  <2>1. /\ f.type \in {"Fat12", "Fat16", "Fat32"} /\ f.clusters \in Nat
        /\ f.type = "Fat12" <=> f.clusters < MinFat16
        /\ f.type = "Fat32" <=> f.clusters >= MinFat32
    BY DEF IsFormat, FatType
  <2>2. CASE f.type = "Fat12"
    <3>1. f.clusters < MinFat16 /\ f.clusters \notin MinFat16 .. MinFat32 - 1
      BY <2>1, <2>2, ConstantsAre
    <3> QED BY <1>8, <2>2, <3>1 DEF FatTypeOf
  <2>3. CASE f.type = "Fat16"
    <3>1. ~ (f.clusters < MinFat16) /\ f.clusters \in MinFat16 .. MinFat32 - 1
      BY <2>1, <2>3, ConstantsAre
    <3> QED BY <1>8, <2>3, <3>1 DEF FatTypeOf
  <2>4. CASE f.type = "Fat32"
    <3>1. ~ (f.clusters < MinFat16) /\ f.clusters \notin MinFat16 .. MinFat32 - 1
      BY <2>1, <2>4, ConstantsAre
    <3> QED BY <1>8, <2>4, <3>1 DEF FatTypeOf
  <2> QED BY <2>1, <2>2, <2>3, <2>4
<1>10. IsBpb(bpb) <=> f.flaw # "footer" /\ f.flaw # "version" /\ f.type # "Fat12"
  <2>1. f.flaw \in {"version", "signature"} => f.type = "Fat32"
    BY DEF IsFormat
  <2>2. bpb.version = 0 <=> f.flaw # "version"
    BY <1>1
  <2>3. bpb.footer <=> f.flaw # "footer"
    BY <1>1
  <2> QED BY <1>9, <2>1, <2>2, <2>3 DEF IsBpb
<1> QED BY <1>2, <1>3, <1>5, <1>6, <1>7, <1>8, <1>9, <1>10

-----------------------------------------------------------------------------
(* What parse_volume makes of it *)

Parsed(f, lba) ==
  IF f.type = "Fat16" THEN ParsedFat16(TableEntry(f, lba), BootSector(f))
  ELSE ParsedFat32(TableEntry(f, lba), BootSector(f), InfoSector(f))

LEMMA NoRoot ==
  ASSUME NEW f, IsFormat(f), f.type = "Fat32"
  PROVE  DataAt(f) = RootAt(f)
<1>1. f.root * EntryLen = 0
  <2>1. f.root = 0
    BY DEF IsFormat
  <2> QED BY <2>1, ConstantsAre
<1>2. RootLen(f) = 0
  <2>1. BlockLen \in Nat \ {0} /\ 0 \in 0 .. BlockLen - 1 /\ BlockLen * 0 + 0 = 0
    BY ConstantsAre
  <2>2. 0 \div BlockLen = 0
    BY <2>1, Quotient
  <2>3. Ceiling(0, BlockLen) = IF (0 \div BlockLen) * BlockLen # 0 THEN 0 \div BlockLen + 1 ELSE 0 \div BlockLen
    BY <2>1, CeilingIs
  <2>4. Ceiling(0, BlockLen) = 0
    BY <2>1, <2>2, <2>3
  <2> QED BY <1>1, <2>4 DEF RootLen
<1> QED BY <1>2, SizesAre

LEMMA ParsedIs ==
  ASSUME NEW f, IsFormat(f), f.type # "Fat12", NEW lba, NEW v, v = Parsed(f, lba)
  PROVE  /\ v.lbaStart = lba /\ v.type = f.type /\ v.perCluster = f.perCluster /\ v.fatStart = f.reserved
         /\ v.secondFatStart = IF f.fats = 2 THEN f.reserved + FatLen(f) ELSE Nowhere
         /\ v.firstData = DataAt(f) /\ v.clusterCount = f.clusters
         /\ f.type = "Fat16" => v.rootBlock = RootAt(f) /\ v.rootEntries = f.root /\ v.next = None
         /\ f.type = "Fat32" => /\ v.infoBlock = lba + 1 /\ v.rootCluster = f.clusters + 1
                                /\ v.next = NextFreeCluster(InfoSector(f))
<1> DEFINE bpb == BootSector(f)
           entry == TableEntry(f, lba)
           first == IF f.type = "Fat16" THEN AfterFats(bpb) + RootDirBlocks(bpb) ELSE AfterFats(bpb)
           common == FatVolume(entry, bpb, first)
<1>1. /\ FatSize(bpb) = FatLen(f) /\ RootDirBlocks(bpb) = RootLen(f) /\ AfterFats(bpb) = RootAt(f)
      /\ ClusterCount(bpb) = f.clusters /\ FatTypeOf(bpb) = f.type
  BY BootSectorSays
<1>2. /\ bpb.perCluster = f.perCluster /\ bpb.reserved = f.reserved /\ bpb.fats = f.fats
      /\ bpb.rootEntries = f.root /\ bpb.fsInfo = 1 /\ bpb.rootCluster = f.clusters + 1
  BY DEF BootSector
<1>3. entry.lba = lba
  BY DEF TableEntry
<1>4. first = DataAt(f)
  <2>1. CASE f.type = "Fat16"
    BY <1>1, <2>1, SizesAre
  <2>2. CASE f.type = "Fat32"
    BY <1>1, <2>2, NoRoot
  <2> QED BY <2>1, <2>2, FormatIs DEF FatType
<1> HIDE DEF bpb, entry, first
<1>5. common =
        [lbaStart |-> lba, numBlocks |-> entry.num, type |-> f.type,
         perCluster |-> f.perCluster, fatStart |-> f.reserved,
         secondFatStart |-> IF f.fats = 2 THEN f.reserved + FatLen(f) ELSE Nowhere,
         firstData |-> DataAt(f), clusterCount |-> f.clusters,
         rootBlock |-> Nowhere, rootEntries |-> 0, infoBlock |-> Nowhere, rootCluster |-> 0,
         free |-> None, next |-> None]
  BY <1>1, <1>2, <1>3, <1>4 DEF FatVolume
<1>6. CASE f.type = "Fat16"
  <2>1. v = [common EXCEPT !.rootBlock = RootAt(f), !.rootEntries = f.root]
    BY <1>1, <1>2, <1>6 DEF Parsed, ParsedFat16, bpb, entry, first
  <2> HIDE DEF common
  <2> QED BY <1>5, <1>6, <2>1
<1>7. CASE f.type = "Fat32"
  <2>1. v = [common EXCEPT !.infoBlock = lba + 1, !.rootCluster = f.clusters + 1,
                           !.free = FreeClustersCount(InfoSector(f)), !.next = NextFreeCluster(InfoSector(f))]
    BY <1>1, <1>2, <1>3, <1>7 DEF Parsed, ParsedFat32, bpb, entry, first
  <2> HIDE DEF common
  <2> QED BY <1>5, <1>7, <2>1
<1> QED BY <1>6, <1>7, FormatIs DEF FatType

-----------------------------------------------------------------------------
(* What blocks are for *)

\* A block of the FATs, the o-th of the (k + 1)-th.
LEMMA InFat ==
  ASSUME NEW f, IsFormat(f), NEW k \in 0 .. f.fats - 1, NEW o \in 0 .. FatLen(f) - 1
  PROVE  Purpose(f, f.reserved + k * FatLen(f) + o) = <<"fat", k + 1, o>>
<1> DEFINE n == FatLen(f)
           b == f.reserved + k * n + o
<1>1. n \in Nat \ {0} /\ f.reserved \in Nat \ {0} /\ f.fats \in Nat /\ k \in Nat /\ o \in Nat
      /\ f.fats * n \in Nat /\ RootAt(f) = f.reserved + f.fats * n
  BY SizesAre, FormatIs
<1>2. k * n \in Nat /\ k * n = n * k
  BY <1>1
<1>3. k * n + n <= f.fats * n
  <2>1. k + 1 <= f.fats /\ k + 1 \in Nat
    BY <1>1
  <2>2. (k + 1) * n <= f.fats * n
    BY <1>1, <2>1, SMTT(30)
  <2>3. (k + 1) * n = k * n + n
    BY <1>1
  <2> QED BY <2>2, <2>3
<1> HIDE DEF n
<1>4. b \in Nat /\ b - f.reserved = n * k + o /\ b - f.reserved \in Nat /\ o \in 0 .. n - 1
  BY <1>1, <1>2 DEF n
<1>5. ~ (b < f.reserved) /\ b \in f.reserved .. RootAt(f) - 1
  BY <1>1, <1>2, <1>3, <1>4
<1>6. (b - f.reserved) \div n = k /\ (b - f.reserved) % n = o
  BY <1>1, <1>4, Quotient
<1> HIDE DEF b
<1>7. /\ b \notin RootAt(f) .. DataAt(f) - 1
      /\ b \notin DataAt(f) .. DataAt(f) + f.clusters * f.perCluster - 1
  BY <1>1, <1>4, <1>5, SizesAre
<1>8. Purpose(f, b) = <<"fat", (b - f.reserved) \div FatLen(f) + 1, (b - f.reserved) % FatLen(f)>>
  BY <1>5, <1>7 DEF Purpose
<1> QED BY <1>6, <1>8 DEF b, n

LEMMA InRoot ==
  ASSUME NEW f, IsFormat(f), NEW b \in RootAt(f) .. DataAt(f) - 1
  PROVE  Purpose(f, b) = <<"root">>
<1>1. /\ RootAt(f) \in Nat /\ DataAt(f) \in Nat /\ f.reserved \in Nat /\ f.fats * FatLen(f) \in Nat
      /\ RootAt(f) = f.reserved + f.fats * FatLen(f)
  BY SizesAre, FormatIs
<1>2. ~ (b < f.reserved) /\ b \notin f.reserved .. RootAt(f) - 1
      /\ b \notin DataAt(f) .. DataAt(f) + f.clusters * f.perCluster - 1
  BY <1>1
<1> QED BY <1>2 DEF Purpose

LEMMA InCluster ==
  ASSUME NEW f, IsFormat(f), NEW c \in 2 .. f.clusters + 1, NEW o \in 0 .. f.perCluster - 1
  PROVE  /\ Purpose(f, DataAt(f) + (c - 2) * f.perCluster + o) = <<"cluster", c>>
         /\ DataAt(f) + (c - 2) * f.perCluster + o < Total(f)
<1> DEFINE n == f.perCluster
           k == c - 2
           b == DataAt(f) + k * n + o
<1>1. /\ n \in Nat \ {0} /\ f.clusters \in Nat /\ k \in Nat /\ o \in Nat /\ k + 1 <= f.clusters /\ f.left \in Nat
      /\ f.clusters * n \in Nat /\ DataAt(f) \in Nat /\ Total(f) = DataAt(f) + f.clusters * n + f.left
  BY SizesAre, FormatIs
<1>0. 2 + k = c
  BY FormatIs
<1> HIDE DEF n, k
<1>2. k * n \in Nat /\ k * n = n * k
  BY <1>1
<1>3. k * n + n <= f.clusters * n
  <2>1. (k + 1) * n <= f.clusters * n
    BY <1>1, SMTT(30)
  <2>2. (k + 1) * n = k * n + n
    BY <1>1
  <2> QED BY <2>1, <2>2
<1>4. b \in Nat /\ b - DataAt(f) = n * k + o /\ b - DataAt(f) \in Nat /\ o \in 0 .. n - 1
  BY <1>1, <1>2 DEF n
<1>5. b \in DataAt(f) .. DataAt(f) + f.clusters * n - 1 /\ b < Total(f)
  BY <1>1, <1>2, <1>3, <1>4
<1>6. (b - DataAt(f)) \div n = k
  BY <1>1, <1>4, Quotient
<1>7. /\ ~ (b < f.reserved) /\ b \notin f.reserved .. RootAt(f) - 1
      /\ b \notin RootAt(f) .. DataAt(f) - 1
  <2>1. /\ RootAt(f) \in Nat /\ f.reserved \in Nat /\ f.fats * FatLen(f) \in Nat /\ RootLen(f) \in Nat
        /\ RootAt(f) = f.reserved + f.fats * FatLen(f) /\ DataAt(f) = RootAt(f) + RootLen(f)
    BY SizesAre, FormatIs
  <2>2. b >= DataAt(f)
    BY <1>1, <1>5
  <2> HIDE DEF b
  <2> QED BY <1>1, <1>4, <2>1, <2>2
<1> HIDE DEF b
<1>8. Purpose(f, b) = <<"cluster", 2 + (b - DataAt(f)) \div f.perCluster>>
  BY <1>5, <1>7 DEF Purpose, n
<1> QED BY <1>0, <1>5, <1>6, <1>8 DEF b, n, k

-----------------------------------------------------------------------------
(* Where a volume finds things *)

InPlace(v, f, lba) ==
  LET For(b) == Purpose(f, b - lba)
      At(c) == ((c * FatEntryLen[f.type]) \div BlockLen)
  IN
  /\ v.type = f.type /\ v.clusterCount = f.clusters
  /\ \A c \in 2 .. v.clusterCount + 1 :
       /\ \A b \in ClusterBlocks(v, c) : For(b) = <<"cluster", c>>
       /\ For(FatBlock(v, c)) = <<"fat", 1, At(c)>>
       /\ v.secondFatStart # Nowhere => For(SecondFatBlock(v, c)) = <<"fat", 2, At(c)>>
  /\ v.secondFatStart = Nowhere <=> f.fats = 1
  /\ IF v.type = "Fat16" THEN Cardinality(RootBlocks(v)) = RootLen(f) /\ \A b \in RootBlocks(v) : For(b) = <<"root">>
     ELSE For(v.infoBlock) = <<"reserved", 1>> /\ RootDirCluster(v) \in 2 .. f.clusters + 1

\* The blocks of a cluster; they are also before the end of the partition.
LEMMA ClusterInPlace ==
  ASSUME NEW f, IsFormat(f), f.type # "Fat12", NEW lba \in Nat, NEW v, v = Parsed(f, lba),
         NEW c \in 2 .. f.clusters + 1, NEW b \in ClusterBlocks(v, c)
  PROVE  Purpose(f, b - lba) = <<"cluster", c>> /\ b \in Nat /\ b < lba + Length(f)
<1> DEFINE n == (c - 2) * f.perCluster
<1>1. /\ f.perCluster \in Nat \ {0} /\ f.clusters \in Nat /\ c - 2 \in Nat /\ DataAt(f) \in Nat
      /\ Total(f) \in Nat /\ Length(f) \in Nat /\ Total(f) <= Length(f)
  BY FormatIs, SizesAre
<1>2. n \in Nat
  BY <1>1
<1>3. b \in lba + DataAt(f) + n .. lba + DataAt(f) + n + f.perCluster - 1
  BY ParsedIs DEF ClusterBlocks, BlockRange, ClusterToBlock
<1> HIDE DEF n
<1>4. PICK o \in 0 .. f.perCluster - 1 : b = lba + DataAt(f) + n + o
  <2>1. b - (lba + DataAt(f) + n) \in 0 .. f.perCluster - 1 /\ b \in Int
    BY <1>1, <1>2, <1>3
  <2>2. b = lba + DataAt(f) + n + (b - (lba + DataAt(f) + n))
    BY <1>1, <1>2, <2>1
  <2> QED BY <2>1, <2>2
<1>5. b - lba = DataAt(f) + n + o /\ o \in Nat /\ b \in Nat
  BY <1>1, <1>2, <1>4
<1>6. Purpose(f, DataAt(f) + n + o) = <<"cluster", c>> /\ DataAt(f) + n + o < Total(f)
  BY <1>4, InCluster DEF n
<1>7. b < lba + Length(f)
  <2>1. b - lba < Total(f)
    BY <1>5, <1>6
  <2> QED BY <1>1, <1>5, <2>1
<1> QED BY <1>5, <1>6, <1>7

\* The entry of a cluster is in the FAT, not behind it.
LEMMA EntryInFat ==
  ASSUME NEW f, IsFormat(f), NEW c \in 2 .. f.clusters + 1
  PROVE  (c * FatEntryLen[f.type]) \div BlockLen \in 0 .. FatLen(f) - 1
<1> DEFINE e == FatEntryLen[f.type]
           x == c * e
           q == x \div BlockLen
<1>1. /\ e \in Nat \ {0} /\ BlockLen \in Nat \ {0} /\ f.clusters \in Nat /\ c \in Nat /\ c + 1 <= f.clusters + 2
      /\ FatLen(f) \in Nat \ {0} /\ (f.clusters + 2) * e <= FatLen(f) * BlockLen
  BY FormatIs, ConstantsAre, SizesAre
<1> HIDE DEF e
<1>2. x \in Nat /\ x < (f.clusters + 2) * e
  <2>1. (c + 1) * e <= (f.clusters + 2) * e
    BY <1>1, SMTT(30)
  <2>2. (c + 1) * e = c * e + e /\ c * e \in Nat
    BY <1>1
  <2>3. (f.clusters + 2) * e \in Nat
    BY <1>1
  <2> QED BY <1>1, <2>1, <2>2, <2>3
<1> HIDE DEF x
<1>3. q \in Nat /\ BlockLen * q <= x
  BY <1>1, <1>2, Divided
<1> HIDE DEF q
<1>4. ~ (FatLen(f) <= q)
  <2> SUFFICES ASSUME FatLen(f) <= q PROVE FALSE
    OBVIOUS
  <2>1. FatLen(f) * BlockLen <= q * BlockLen
    BY <1>1, <1>3, SMTT(30)
  <2>2. q * BlockLen = BlockLen * q /\ BlockLen * q \in Nat /\ FatLen(f) * BlockLen \in Nat /\ (f.clusters + 2) * e \in Nat
    BY <1>1, <1>3
  <2> QED BY <1>1, <1>2, <1>3, <2>1, <2>2
<1>5. q \in 0 .. FatLen(f) - 1
  BY <1>1, <1>3, <1>4
<1> QED BY <1>5 DEF q, x, e

LEMMA ParsedInPlace ==
  ASSUME NEW f, IsFormat(f), f.type # "Fat12", NEW lba \in Nat, NEW v, v = Parsed(f, lba)
  PROVE  InPlace(v, f, lba)
<1> DEFINE At(c) == ((c * FatEntryLen[f.type]) \div BlockLen)
<1>1. /\ v.lbaStart = lba /\ v.type = f.type /\ v.fatStart = f.reserved
      /\ v.secondFatStart = IF f.fats = 2 THEN f.reserved + FatLen(f) ELSE Nowhere
      /\ v.clusterCount = f.clusters
      /\ f.type = "Fat16" => v.rootBlock = RootAt(f) /\ v.rootEntries = f.root
      /\ f.type = "Fat32" => v.infoBlock = lba + 1 /\ v.rootCluster = f.clusters + 1
  BY ParsedIs
<1>2. /\ FatLen(f) \in Nat \ {0} /\ f.reserved \in Nat \ {0} /\ f.fats \in 1 .. 2 /\ f.clusters \in Nat
      /\ RootAt(f) \in Nat /\ RootLen(f) \in Nat /\ DataAt(f) = RootAt(f) + RootLen(f)
  BY FormatIs, SizesAre
<1>3. ASSUME NEW c \in 2 .. f.clusters + 1
      PROVE  /\ Purpose(f, FatBlock(v, c) - lba) = <<"fat", 1, At(c)>>
             /\ v.secondFatStart # Nowhere => Purpose(f, SecondFatBlock(v, c) - lba) = <<"fat", 2, At(c)>>
  <2>1. At(c) \in 0 .. FatLen(f) - 1
    BY EntryInFat
  <2> HIDE DEF At
  <2>2. /\ FatBlock(v, c) = lba + (f.reserved + At(c))
        /\ SecondFatBlock(v, c) = lba + (v.secondFatStart + At(c))
    BY <1>1 DEF FatBlock, SecondFatBlock, OffsetBytes, At
  <2>3. FatBlock(v, c) - lba = f.reserved + 0 * FatLen(f) + At(c) /\ 0 \in 0 .. f.fats - 1
    BY <1>2, <2>1, <2>2
  <2>4. Purpose(f, FatBlock(v, c) - lba) = <<"fat", 1, At(c)>>
    <3>1. Purpose(f, f.reserved + 0 * FatLen(f) + At(c)) = <<"fat", 0 + 1, At(c)>>
      BY <2>1, <2>3, InFat
    <3> QED BY <2>3, <3>1
  <2>5. ASSUME v.secondFatStart # Nowhere
        PROVE  Purpose(f, SecondFatBlock(v, c) - lba) = <<"fat", 2, At(c)>>
    <3>1. f.fats = 2 /\ v.secondFatStart = f.reserved + FatLen(f)
      BY <1>1, <2>5
    <3>2. SecondFatBlock(v, c) - lba = f.reserved + 1 * FatLen(f) + At(c) /\ 1 \in 0 .. f.fats - 1
      BY <1>2, <2>1, <2>2, <3>1
    <3>3. Purpose(f, f.reserved + 1 * FatLen(f) + At(c)) = <<"fat", 1 + 1, At(c)>>
      BY <2>1, <3>2, InFat
    <3> QED BY <3>2, <3>3
  <2> QED BY <2>4, <2>5
<1>4. ASSUME NEW c \in 2 .. f.clusters + 1, NEW b \in ClusterBlocks(v, c)
      PROVE  Purpose(f, b - lba) = <<"cluster", c>>
  BY <1>4, ClusterInPlace
<1>5. v.secondFatStart = Nowhere <=> f.fats = 1
  BY <1>1, <1>2 DEF Nowhere
<1>6. ASSUME f.type = "Fat16"
      PROVE  Cardinality(RootBlocks(v)) = RootLen(f) /\ \A b \in RootBlocks(v) : Purpose(f, b - lba) = <<"root">>
  <2>1. FromBytes(f.root * EntryLen) = RootLen(f)
    <3>1. BootSector(f).rootEntries = f.root
      BY DEF BootSector
    <3> QED BY <3>1, BootSectorSays
  <2>2. RootBlocks(v) = lba + RootAt(f) .. lba + RootAt(f) + RootLen(f) - 1
    BY <1>1, <1>6, <2>1 DEF RootBlocks, BlockRange
  <2>3. Cardinality(RootBlocks(v)) = RootLen(f)
    <3>1. lba + RootAt(f) \in Int /\ lba + RootAt(f) + RootLen(f) - 1 \in Int
      BY <1>2
    <3>2. Cardinality(RootBlocks(v)) =
            IF lba + RootAt(f) > lba + RootAt(f) + RootLen(f) - 1 THEN 0
            ELSE (lba + RootAt(f) + RootLen(f) - 1) - (lba + RootAt(f)) + 1
      BY <2>2, <3>1, FS_Interval
    <3> QED BY <1>2, <3>2
  <2>4. ASSUME NEW b \in RootBlocks(v) PROVE Purpose(f, b - lba) = <<"root">>
    <3>1. b - lba \in RootAt(f) .. DataAt(f) - 1
      BY <1>2, <2>2
    <3> QED BY <3>1, InRoot
  <2> QED BY <2>3, <2>4
<1>7. ASSUME f.type = "Fat32"
      PROVE  Purpose(f, v.infoBlock - lba) = <<"reserved", 1>> /\ RootDirCluster(v) \in 2 .. f.clusters + 1
  <2>1. f.reserved > 1 /\ f.clusters >= MinFat32
    BY <1>7 DEF IsFormat
  <2>2. v.infoBlock - lba = 1
    BY <1>1, <1>7
  <2>3. Purpose(f, 1) = <<"reserved", 1>>
    <3>1. /\ 1 < f.reserved /\ 1 \notin f.reserved .. RootAt(f) - 1 /\ 1 \notin RootAt(f) .. DataAt(f) - 1
          /\ 1 \notin DataAt(f) .. DataAt(f) + f.clusters * f.perCluster - 1
      <4>1. RootAt(f) = f.reserved + f.fats * FatLen(f) /\ f.fats * FatLen(f) \in Nat
            /\ f.clusters * f.perCluster \in Nat
        BY SizesAre
      <4> QED BY <1>2, <2>1, <4>1
    <3> QED BY <3>1 DEF Purpose
  <2>4. RootDirCluster(v) = f.clusters + 1 /\ f.clusters > 0
    BY <1>1, <1>2, <1>7, <2>1, ConstantsAre DEF RootDirCluster
  <2> QED BY <1>2, <2>2, <2>3, <2>4
<1>8. v.type = "Fat16" \/ v.type = "Fat32"
  BY <1>1, FormatIs DEF FatType
<1>9. IF v.type = "Fat16" THEN Cardinality(RootBlocks(v)) = RootLen(f) /\ \A b \in RootBlocks(v) : Purpose(f, b - lba) = <<"root">>
      ELSE Purpose(f, v.infoBlock - lba) = <<"reserved", 1>> /\ RootDirCluster(v) \in 2 .. f.clusters + 1
  BY <1>1, <1>6, <1>7, <1>8
<1>10. \A c \in 2 .. v.clusterCount + 1 :
         /\ \A b \in ClusterBlocks(v, c) : Purpose(f, b - lba) = <<"cluster", c>>
         /\ Purpose(f, FatBlock(v, c) - lba) = <<"fat", 1, At(c)>>
         /\ v.secondFatStart # Nowhere => Purpose(f, SecondFatBlock(v, c) - lba) = <<"fat", 2, At(c)>>
  BY <1>1, <1>3, <1>4
<1> QED BY <1>1, <1>5, <1>9, <1>10 DEF InPlace

-----------------------------------------------------------------------------
(* The invariant *)

\* Partitions are one behind the other, from block 1 on, and the card has all of
\* their blocks.
Partitioned ==
  /\ size.known /\ DOMAIN parts = {0, 1}
  /\ \A i \in {0, 1} : IsFormat(parts[i].format) /\ parts[i].format \in Formats \cup Second
  /\ parts[0].lba = 1 /\ parts[1].lba = 1 + Length(parts[0].format)
  /\ 1 + Length(parts[0].format) + Length(parts[1].format) <= Memory(card) \div BlockLen

\* The formats that parse_volume accepts: those that are supported, and FAT32 with
\* another block size, which it does not look at.
Accepts(f) ==
  /\ f.type # "Fat12"
  /\ f.flaw = "none" \/ (f.flaw = "block size" /\ f.type = "Fat32")
Accepted(idx) == idx \in DOMAIN parts /\ Accepts(parts[idx].format)

\* A volume is open as parse_volume made it, of a partition that is accepted.
Opened ==
  \A o \in open :
    /\ Accepted(o.idx)
    /\ o.volume = Parsed(parts[o.idx].format, parts[o.idx].lba)

RefusesRightly == ret.result \in {"FormatError", "BadBlockSize"} => ~ Accepted(ret.idx)

IInv ==
  /\ TypeOK
  /\ parts = << >> \/ Partitioned
  /\ IsFiniteSet(open) /\ Opened
  /\ RefusesRightly

LEMMA Unpartitioned ==
  ASSUME parts = << >>
  PROVE  \A idx : ~ Accepted(idx)
BY DEF Accepted

LEMMA PartitionIs ==
  ASSUME Partitioned, NEW i \in DOMAIN parts
  PROVE  /\ i \in {0, 1} /\ IsFormat(parts[i].format)
         /\ parts[i].lba \in Nat \ {0}
         /\ Memory(card) \div BlockLen \in Nat =>
              parts[i].lba + Length(parts[i].format) <= Memory(card) \div BlockLen
<1>1. /\ i \in {0, 1} /\ IsFormat(parts[0].format) /\ IsFormat(parts[1].format)
      /\ parts[0].lba = 1 /\ parts[1].lba = 1 + Length(parts[0].format)
      /\ 1 + Length(parts[0].format) + Length(parts[1].format) <= Memory(card) \div BlockLen
  BY DEF Partitioned
<1>2. Length(parts[0].format) \in Nat /\ Length(parts[1].format) \in Nat
  BY <1>1, SizesAre
<1> DEFINE m == Memory(card) \div BlockLen
<1> HIDE DEF m
<1>3. 1 + Length(parts[0].format) + Length(parts[1].format) <= m
  BY <1>1 DEF m
<1>4. CASE i = 0
  BY <1>1, <1>2, <1>3, <1>4 DEF m
<1>5. CASE i = 1
  BY <1>1, <1>2, <1>3, <1>5 DEF m
<1> QED BY <1>1, <1>4, <1>5

\* A hint that the volume has is a cluster, or none.
LEMMA HintIs ==
  ASSUME NEW f, IsFormat(f), f.type # "Fat12", NEW lba
  PROVE  Parsed(f, lba).next = None \/ Parsed(f, lba).next \in 2 .. AllOnes - 1
<1> DEFINE v == Parsed(f, lba)
<1>1. CASE f.type = "Fat16"
  BY <1>1, ParsedIs
<1>2. CASE f.type = "Fat32"
  <2>1. v.next = NextFreeCluster(InfoSector(f))
    BY <1>2, ParsedIs
  <2>2. InfoSector(f).next = f.next /\ f.next \in 0 .. AllOnes
    BY DEF InfoSector, IsFormat
  <2>3. f.next \in {AllOnes, 0, 1} \/ f.next \in 2 .. AllOnes - 1
    BY <2>2, ConstantsAre
  <2> QED BY <2>1, <2>2, <2>3 DEF NextFreeCluster
<1> QED BY <1>1, <1>2, FormatIs DEF FatType

LEMMA InitIInv == Init => IInv
<1> SUFFICES ASSUME Init PROVE IInv
  OBVIOUS
<1>1. /\ card \in Registers /\ parts = << >> /\ open = {} /\ ret = NoResult /\ faults = 0
  BY DEF Init
<1>2. IsFiniteSet({}) /\ Cardinality({}) = 0
  BY FS_EmptySet
<1>3. TypeOK
  BY <1>1, <1>2, ConstantsAre DEF TypeOK
<1>4. RefusesRightly
  BY <1>1 DEF RefusesRightly, NoResult
<1> QED BY <1>1, <1>2, <1>3, <1>4 DEF IInv, Opened

-----------------------------------------------------------------------------
(* Calls keep it *)

\* What the volumes that are open rest on stays.
LEMMA StaysOpen ==
  ASSUME IInv, UNCHANGED <<card, parts, open>>, size' = size \/ size'.known, faults' \in 0 .. MaxFaults,
         ret'.result \in {"FormatError", "BadBlockSize"} => ~ Accepted(ret'.idx)
  PROVE  IInv'
<1>1. TypeOK' /\ IsFiniteSet(open')
  BY DEF IInv, TypeOK
<1>2. parts' = << >> \/ Partitioned'
  BY DEF IInv, Partitioned
<1>3. \A idx : Accepted(idx)' <=> Accepted(idx)
  BY DEF Accepted
<1>4. Opened'
  BY <1>3 DEF IInv, Opened
<1>5. RefusesRightly'
  BY <1>3 DEF IInv, RefusesRightly
<1> QED BY <1>1, <1>2, <1>4, <1>5 DEF IInv

LEMMA ReturnedKeeps ==
  ASSUME IInv, NEW data, NEW crc, NEW useCrc, Returned(data, crc, useCrc),
         UNCHANGED <<card, parts, open>>, faults' \in 0 .. MaxFaults
  PROVE  IInv'
<1>1. size' = size \/ size'.known
  BY DEF Returned
<1>2. ret'.result \in {"ok", "RegisterReadError"}
  BY DEF Returned
<1> QED BY <1>1, <1>2, StaysOpen

LEMMA NumBlocksKeeps == IInv /\ (NumBlocks \/ NumBlocksDamaged) => IInv'
<1>1. ASSUME IInv, NumBlocks PROVE IInv'
  <2>1. PICK useCrc \in BOOLEAN :
          Returned(SubSeq(Sent(card), 1, DataBits + 8), SubSeq(Sent(card), DataBits + 9, DataBits + 24), useCrc)
    BY <1>1 DEF NumBlocks
  <2>2. UNCHANGED <<card, parts, open>> /\ faults' \in 0 .. MaxFaults
    BY <1>1 DEF NumBlocks, Works, IInv, TypeOK
  <2> QED BY <1>1, <2>1, <2>2, ReturnedKeeps
<1>2. ASSUME IInv, NumBlocksDamaged PROVE IInv'
  <2>1. PICK useCrc \in BOOLEAN, d \in Damage :
          Returned(SubSeq(Damaged(Sent(card), d), 1, DataBits + 8),
                   SubSeq(Damaged(Sent(card), d), DataBits + 9, DataBits + 24), useCrc)
    BY <1>2 DEF NumBlocksDamaged
  <2>2. UNCHANGED <<card, parts, open>> /\ faults' = faults + 1 /\ faults < MaxFaults /\ faults \in Nat
    BY <1>2 DEF NumBlocksDamaged, IInv, TypeOK
  <2>3. faults' \in 0 .. MaxFaults
    BY <2>2, ConstantsAre
  <2> QED BY <1>2, <2>1, <2>2, <2>3, ReturnedKeeps
<1> QED BY <1>1, <1>2

LEMMA PartitionKeeps ==
  ASSUME IInv, NEW f \in Formats, NEW g \in Second, Partition(f, g)
  PROVE  IInv'
<1>1. /\ size.known /\ parts = << >> /\ 1 + Length(f) + Length(g) <= Memory(card) \div BlockLen
      /\ parts' = [i \in {0, 1} |-> IF i = 0 THEN [lba |-> 1, format |-> f]
                                    ELSE [lba |-> 1 + Length(f), format |-> g]]
      /\ ret' = NoResult /\ faults' = faults /\ UNCHANGED <<card, size, open>>
  BY DEF Partition, Works
<1>2. IsFormat(f) /\ IsFormat(g)
  BY FormatAssumption
<1>3. /\ DOMAIN parts' = {0, 1} /\ parts'[0] = [lba |-> 1, format |-> f]
      /\ parts'[1] = [lba |-> 1 + Length(f), format |-> g]
  BY <1>1
<1>4. Partitioned'
  BY <1>1, <1>2, <1>3 DEF Partitioned
<1>5. open = {}
  BY <1>1, Unpartitioned DEF IInv, Opened
<1>6. TypeOK' /\ IsFiniteSet(open') /\ Opened'
  BY <1>1, <1>5 DEF IInv, TypeOK, Opened
<1>7. RefusesRightly'
  BY <1>1, <1>5 DEF RefusesRightly, NoResult
<1> QED BY <1>4, <1>6, <1>7 DEF IInv

LEMMA CloseKeeps ==
  ASSUME IInv, NEW v \in open, CloseVolume(v)
  PROVE  IInv'
<1>1. open' = open \ {v} /\ ret' = NoResult /\ faults' = faults /\ UNCHANGED <<card, parts, size>>
  BY DEF CloseVolume, Works
<1>2. IsFiniteSet(open') /\ Cardinality(open') = Cardinality(open) - 1 /\ Cardinality(open) \in Nat
  BY <1>1, FS_RemoveElement, FS_CardinalityType DEF IInv
<1>3. Cardinality(open') <= MaxVolumes
  BY <1>2, ConstantsAre DEF IInv, TypeOK
<1>4. TypeOK'
  BY <1>1, <1>3 DEF IInv, TypeOK
<1>5. \A idx : Accepted(idx)' <=> Accepted(idx)
  BY <1>1 DEF Accepted
<1>6. Opened' /\ RefusesRightly'
  BY <1>1, <1>5 DEF IInv, Opened, RefusesRightly, NoResult
<1>7. parts' = << >> \/ Partitioned'
  BY <1>1 DEF IInv, Partitioned
<1> QED BY <1>2, <1>4, <1>6, <1>7 DEF IInv

\* A call that opens nothing, and does not blame the format, or does so with reason.
LEMMA ReturnsKeeps ==
  ASSUME IInv, NEW idx, NEW result, ret' = [idx |-> idx, result |-> result],
         UNCHANGED <<card, parts, size, open>>, faults' \in 0 .. MaxFaults,
         result \in {"FormatError", "BadBlockSize"} => ~ Accepted(idx)
  PROVE  IInv'
<1>1. ret'.result \in {"FormatError", "BadBlockSize"} => ~ Accepted(ret'.idx)
  OBVIOUS
<1> QED BY <1>1, StaysOpen

\* A volume that is supported is opened as it is parsed.
LEMMA OpensKeeps ==
  ASSUME IInv, NEW idx \in DOMAIN parts, Accepts(parts[idx].format),
         Cardinality(open) < MaxVolumes, \A v \in open : v.idx # idx,
         open' = open \cup {[idx |-> idx, volume |-> Parsed(parts[idx].format, parts[idx].lba)]},
         ret' = [idx |-> idx, result |-> "ok"], UNCHANGED <<card, parts, size, faults>>
  PROVE  IInv'
<1> DEFINE o == [idx |-> idx, volume |-> Parsed(parts[idx].format, parts[idx].lba)]
<1>1. Accepted(idx) /\ Partitioned
  BY Unpartitioned DEF Accepted, IInv
<1>2. IsFormat(parts[idx].format) /\ parts[idx].format.type # "Fat12"
  BY <1>1, PartitionIs DEF Accepts
<1>3. o.volume.type \in FatType /\ (o.volume.next = None \/ o.volume.next \in 2 .. AllOnes - 1)
  BY <1>2, HintIs, ParsedIs, FormatIs
<1>4. o.idx = idx /\ o.volume = Parsed(parts[idx].format, parts[idx].lba) /\ open' = open \cup {o}
  OBVIOUS
<1> HIDE DEF o
<1>5. IsFiniteSet(open') /\ Cardinality(open') = Cardinality(open) + 1 /\ Cardinality(open) \in Nat
  <2>1. o \notin open
    BY <1>4
  <2> QED BY <1>4, <2>1, FS_AddElement, FS_CardinalityType DEF IInv
<1>6. TypeOK'
  <2>1. Cardinality(open') <= MaxVolumes
    BY <1>5, ConstantsAre
  <2>2. card' \in Registers /\ faults' \in 0 .. MaxFaults
    BY DEF IInv, TypeOK
  <2>3. \A v, w \in open' : v.idx = w.idx => v = w
    BY <1>4 DEF IInv, TypeOK
  <2>4. \A v \in open' : /\ v.idx \in DOMAIN parts' /\ v.volume.type \in FatType
                         /\ v.volume.next = None \/ v.volume.next \in 2 .. AllOnes - 1
    BY <1>3, <1>4 DEF IInv, TypeOK
  <2> QED BY <2>1, <2>2, <2>3, <2>4 DEF TypeOK
<1>7. \A i : Accepted(i)' <=> Accepted(i)
  BY DEF Accepted
<1>8. Opened'
  BY <1>1, <1>4, <1>7 DEF IInv, Opened
<1>9. RefusesRightly'
  <2>1. ret'.result = "ok"
    OBVIOUS
  <2> QED BY <1>1, <1>4, <1>7, <2>1 DEF IInv, RefusesRightly
<1>10. parts' = << >> \/ Partitioned'
  BY DEF IInv, Partitioned
<1> QED BY <1>5, <1>6, <1>8, <1>9, <1>10 DEF IInv

LEMMA ParseKeeps ==
  ASSUME IInv, NEW idx \in DOMAIN parts, ParseVolume(idx), UNCHANGED <<card, parts, size>>,
         Cardinality(open) < MaxVolumes, \A v \in open : v.idx # idx,
         parts[idx].format.flaw \notin {"status", "kind"}
  PROVE  IInv'
<1> DEFINE f == parts[idx].format
           lba == parts[idx].lba
           bpb == BootSector(f)
           Opens(volume) == /\ open' = open \cup {[idx |-> idx, volume |-> volume]}
                            /\ ret' = [idx |-> idx, result |-> "ok"] /\ faults' = faults
           Refuses(result) == ret' = [idx |-> idx, result |-> result] /\ faults' = faults /\ open' = open
<1>1. IsFormat(f)
  <2>1. Partitioned
    BY DEF IInv
  <2> QED BY <2>1, PartitionIs
<1>2. /\ IsBpb(bpb) <=> f.flaw # "footer" /\ f.flaw # "version" /\ f.type # "Fat12"
      /\ FatTypeOf(bpb) = f.type
  BY <1>1, BootSectorSays
<1>3. bpb.bytesPerBlock # BlockLen <=> f.flaw = "block size"
  <2>1. bpb.bytesPerBlock = IF f.flaw = "block size" THEN 2 * BlockLen ELSE BlockLen
    BY DEF BootSector
  <2>2. BlockLen \in Nat \ {0} /\ 2 * BlockLen # BlockLen
    BY ConstantsAre
  <2> HIDE DEF bpb, f
  <2> QED BY <2>1, <2>2
<1>4. InfoSector(f).signed <=> f.type = "Fat32" /\ f.flaw # "signature"
  BY DEF InfoSector
<1>5. f.type \in FatType /\ f.flaw \in Flaw /\ (f.flaw \in {"version", "signature"} => f.type = "Fat32")
      /\ f.flaw \notin {"status", "kind"}
  BY <1>1 DEF IsFormat
<1>6. \/ ~ IsBpb(bpb) /\ Refuses("FormatError")
      \/ /\ IsBpb(bpb) /\ f.type = "Fat16" /\ bpb.bytesPerBlock # BlockLen /\ Refuses("BadBlockSize")
      \/ /\ IsBpb(bpb) /\ f.type = "Fat16" /\ bpb.bytesPerBlock = BlockLen /\ Opens(Parsed(f, lba))
      \/ /\ IsBpb(bpb) /\ f.type = "Fat32" /\ InfoSector(f).signed /\ Opens(Parsed(f, lba))
      \/ /\ IsBpb(bpb) /\ f.type = "Fat32" /\ ~ InfoSector(f).signed /\ Refuses("FormatError")
  <2> HIDE DEF f, lba
  <2>1. IsBpb(bpb) /\ f.type # "Fat16" => f.type = "Fat32"
    BY <1>2, <1>5 DEF FatType
  <2>2. CASE ~ IsBpb(bpb)
    BY <2>2 DEF ParseVolume, Returns, Works, f, lba
  <2>3. CASE IsBpb(bpb) /\ f.type = "Fat16"
    BY <1>2, <2>3 DEF ParseVolume, Returns, Works, Parsed, f, lba
  <2>4. CASE IsBpb(bpb) /\ f.type = "Fat32"
    BY <1>2, <2>4 DEF ParseVolume, Returns, Works, Parsed, f, lba
  <2> QED BY <2>1, <2>2, <2>3, <2>4
<1>7. ASSUME NEW result, Refuses(result), ~ Accepts(f) PROVE IInv'
  <2>1. ~ Accepted(idx) /\ faults' \in 0 .. MaxFaults
    BY <1>7 DEF Accepted, IInv, TypeOK
  <2> QED BY <1>7, <2>1, ReturnsKeeps
<1>8. ASSUME Opens(Parsed(f, lba)), Accepts(f) PROVE IInv'
  BY <1>8, OpensKeeps
<1> HIDE DEF f, lba, bpb, Opens, Refuses
<1>9. CASE ~ IsBpb(bpb) /\ Refuses("FormatError")
  BY <1>2, <1>5, <1>7, <1>9 DEF Accepts
<1>10. CASE IsBpb(bpb) /\ f.type = "Fat16" /\ bpb.bytesPerBlock # BlockLen /\ Refuses("BadBlockSize")
  BY <1>3, <1>7, <1>10 DEF Accepts
<1>11. CASE IsBpb(bpb) /\ f.type = "Fat16" /\ bpb.bytesPerBlock = BlockLen /\ Opens(Parsed(f, lba))
  BY <1>2, <1>3, <1>5, <1>8, <1>11 DEF Accepts, Flaw
<1>12. CASE IsBpb(bpb) /\ f.type = "Fat32" /\ InfoSector(f).signed /\ Opens(Parsed(f, lba))
  BY <1>2, <1>4, <1>5, <1>8, <1>12 DEF Accepts, Flaw
<1>13. CASE IsBpb(bpb) /\ f.type = "Fat32" /\ ~ InfoSector(f).signed /\ Refuses("FormatError")
  BY <1>4, <1>7, <1>13 DEF Accepts
<1> QED BY <1>6, <1>9, <1>10, <1>11, <1>12, <1>13

LEMMA OpenKeeps ==
  ASSUME IInv, NEW idx, OpenVolume(idx)
  PROVE  IInv'
<1> DEFINE Refuses(result) == ret' = [idx |-> idx, result |-> result] /\ faults' = faults /\ open' = open
           flaw == parts[idx].format.flaw
<1>1. UNCHANGED <<card, parts, size>> /\ faults \in 0 .. MaxFaults
  BY DEF OpenVolume, IInv, TypeOK
<1>2. ASSUME NEW result, Refuses(result), result \in {"FormatError", "BadBlockSize"} => ~ Accepted(idx)
      PROVE  IInv'
  BY <1>1, <1>2, ReturnsKeeps
<1>3. \/ Refuses("TooManyOpenVolumes") \/ Refuses("VolumeAlreadyOpen") \/ Refuses("NoSuchVolume")
      \/ /\ faults < MaxFaults /\ faults' = faults + 1
         /\ ret' = [idx |-> idx, result |-> "DeviceError"] /\ open' = open
      \/ /\ Cardinality(open) < MaxVolumes /\ (\A v \in open : v.idx # idx) /\ idx \in DOMAIN parts
         /\ LET entry == TableEntry(parts[idx].format, parts[idx].lba) IN
            IF entry.status % 128 # 0 \/ entry.kind # "FAT" THEN Refuses("FormatError") ELSE ParseVolume(idx)
      \/ (idx \in VolumeIdx \ DOMAIN parts \/ parts = << >>) /\ Refuses("FormatError")
  BY DEF OpenVolume, Returns, Works
<1>4. CASE Refuses("TooManyOpenVolumes") \/ Refuses("VolumeAlreadyOpen") \/ Refuses("NoSuchVolume")
  BY <1>2, <1>4
<1>5. CASE /\ faults < MaxFaults /\ faults' = faults + 1
           /\ ret' = [idx |-> idx, result |-> "DeviceError"] /\ open' = open
  <2>1. faults' \in 0 .. MaxFaults
    BY <1>1, <1>5, ConstantsAre
  <2> QED BY <1>1, <1>5, <2>1, ReturnsKeeps
<1>6. CASE /\ Cardinality(open) < MaxVolumes /\ (\A v \in open : v.idx # idx) /\ idx \in DOMAIN parts
           /\ LET entry == TableEntry(parts[idx].format, parts[idx].lba) IN
              IF entry.status % 128 # 0 \/ entry.kind # "FAT" THEN Refuses("FormatError") ELSE ParseVolume(idx)
  <2> DEFINE entry == TableEntry(parts[idx].format, parts[idx].lba)
  <2>1. /\ entry.status = (IF flaw = "status" THEN 1 ELSE 128)
        /\ entry.kind = (IF flaw = "kind" THEN "GPT" ELSE "FAT")
    BY DEF TableEntry
  <2>2. 1 % 128 = 1 /\ 128 % 128 = 0
    OBVIOUS
  <2>3. entry.status % 128 # 0 \/ entry.kind # "FAT" <=> flaw \in {"status", "kind"}
    BY <2>1, <2>2
  <2>4. IF entry.status % 128 # 0 \/ entry.kind # "FAT" THEN Refuses("FormatError") ELSE ParseVolume(idx)
    BY <1>6
  <2> HIDE DEF entry, flaw, Refuses
  <2>5. CASE flaw \in {"status", "kind"}
    <3>1. ~ Accepted(idx)
      BY <2>5 DEF Accepted, Accepts, flaw
    <3>2. Refuses("FormatError")
      BY <2>3, <2>4, <2>5
    <3> QED BY <1>2, <3>1, <3>2
  <2>6. CASE flaw \notin {"status", "kind"}
    <3>1. ParseVolume(idx)
      BY <2>3, <2>4, <2>6
    <3> QED BY <1>1, <1>6, <2>6, <3>1, ParseKeeps DEF flaw
  <2> QED BY <2>5, <2>6
<1>7. CASE (idx \in VolumeIdx \ DOMAIN parts \/ parts = << >>) /\ Refuses("FormatError")
  <2>1. ~ Accepted(idx)
    BY <1>7, Unpartitioned DEF Accepted
  <2> QED BY <1>2, <1>7, <2>1
<1> HIDE DEF Refuses
<1> QED BY <1>3, <1>4, <1>5, <1>6, <1>7

LEMMA NextKeeps == IInv /\ [Next]_vars => IInv'
<1> SUFFICES ASSUME IInv, [Next]_vars PROVE IInv'
  OBVIOUS
<1>1. CASE NumBlocks \/ NumBlocksDamaged
  BY <1>1, NumBlocksKeeps
<1>2. ASSUME NEW f \in Formats, NEW g \in Second, Partition(f, g) PROVE IInv'
  BY <1>2, PartitionKeeps
<1>3. ASSUME NEW idx \in VolumeIdx \cup {4}, OpenVolume(idx) PROVE IInv'
  BY <1>3, OpenKeeps
<1>4. ASSUME NEW v \in open, CloseVolume(v) PROVE IInv'
  BY <1>4, CloseKeeps
<1>5. CASE UNCHANGED vars
  <2>1. ret'.result \in {"FormatError", "BadBlockSize"} => ~ Accepted(ret'.idx)
    BY <1>5 DEF vars, IInv, RefusesRightly
  <2> QED BY <1>5, <2>1, StaysOpen DEF vars, IInv, TypeOK
<1> QED BY <1>1, <1>2, <1>3, <1>4, <1>5 DEF Next

-----------------------------------------------------------------------------
(* Registers that divide: polynomials over bits *)

Bits(n) == [1 .. n -> Bit]
Plus(a, b) == IF a = b THEN 0 ELSE 1
Sum2(a, b, n) == [i \in 1 .. n |-> Plus(a[i], b[i])]
NoBits(n) == [i \in 1 .. n |-> 0]

LEMMA PlusIs ==
  ASSUME NEW a \in Bit, NEW b \in Bit
  PROVE  (a + b) % 2 = Plus(a, b) /\ Plus(a, b) \in Bit
BY DEF Bit, Plus

LEMMA XorIs ==
  ASSUME NEW n \in Nat, NEW a \in Bits(n), NEW b \in Bits(n)
  PROVE  Xor(a, b) = Sum2(a, b, n) /\ Sum2(a, b, n) \in Bits(n)
<1>1. DOMAIN a = 1 .. n
  BY DEF Bits
<1>2. \A i \in 1 .. n : a[i] \in Bit /\ b[i] \in Bit
  BY DEF Bits
<1>3. \A i \in 1 .. n : (a[i] + b[i]) % 2 = Plus(a[i], b[i]) /\ Plus(a[i], b[i]) \in Bit
  BY <1>2, PlusIs
<1> QED BY <1>1, <1>3 DEF Xor, Sum2, Bits

LEMMA BitsAreSeq ==
  ASSUME NEW n \in Nat, NEW a
  PROVE  /\ a \in Bits(n) => a \in Seq(Bit) /\ Len(a) = n
         /\ a \in Seq(Bit) /\ Len(a) = n => a \in Bits(n)
<1>1. ASSUME a \in Bits(n) PROVE a \in Seq(Bit) /\ Len(a) = n
  <2>1. a = [i \in 1 .. n |-> a[i]] /\ \A i \in 1 .. n : a[i] \in Bit
    BY <1>1 DEF Bits
  <2>2. [i \in 1 .. n |-> a[i]] \in Seq(Bit)
    BY <2>1, IsASeq
  <2>3. a \in Seq(Bit)
    BY <2>1, <2>2
  <2>4. DOMAIN a = 1 .. n
    BY <1>1 DEF Bits
  <2> QED BY <2>3, <2>4, LenProperties
<1>2. ASSUME a \in Seq(Bit), Len(a) = n PROVE a \in Bits(n)
  BY <1>2, LenProperties DEF Bits
<1> QED BY <1>1, <1>2

\* A register of n bits, the highest first, that divides by x^n + g, is moved on
\* by a bit that is added at its high end, or that comes in at its low end.
Moved(r, low, top, g, n) ==
  [i \in 1 .. n |-> Plus(IF i = n THEN low ELSE r[i + 1], IF top = 1 THEN g[i] ELSE 0)]
Fed(r, d, g, n) == Moved(r, 0, Plus(r[1], d), g, n)
Brought(r, d, g, n) == Moved(r, d, r[1], g, n)
IsDivisor(g, n) == n \in Nat \ {0} /\ g \in Bits(n) /\ g[n] = 1

LEMMA MovedIs ==
  ASSUME NEW g, NEW n, IsDivisor(g, n), NEW r \in Bits(n), NEW low \in Bit, NEW top
  PROVE  Moved(r, low, top, g, n) \in Bits(n)
<1>1. ASSUME NEW i \in 1 .. n
      PROVE  Plus(IF i = n THEN low ELSE r[i + 1], IF top = 1 THEN g[i] ELSE 0) \in Bit
  <2>1. (IF i = n THEN low ELSE r[i + 1]) \in Bit
    BY DEF IsDivisor, Bits
  <2>2. (IF top = 1 THEN g[i] ELSE 0) \in Bit
    BY DEF IsDivisor, Bits, Bit
  <2> QED BY <2>1, <2>2, PlusIs
<1> QED BY <1>1 DEF Moved, Bits

LEMMA FedIs ==
  ASSUME NEW g, NEW n, IsDivisor(g, n), NEW r \in Bits(n), NEW d \in Bit
  PROVE  Fed(r, d, g, n) \in Bits(n) /\ Brought(r, d, g, n) \in Bits(n)
BY MovedIs DEF Fed, Brought, Bit

\* Both are linear.
LEMMA FedSum ==
  ASSUME NEW g, NEW n, IsDivisor(g, n), NEW r \in Bits(n), NEW s \in Bits(n), NEW d \in Bit, NEW e \in Bit
  PROVE  Fed(Sum2(r, s, n), Plus(d, e), g, n) = Sum2(Fed(r, d, g, n), Fed(s, e, g, n), n)
<1> DEFINE t == Sum2(r, s, n)
<1>1. 1 \in 1 .. n /\ t[1] = Plus(r[1], s[1]) /\ r[1] \in Bit /\ s[1] \in Bit
  BY DEF IsDivisor, Sum2, Bits
<1>2. Plus(Plus(r[1], s[1]), Plus(d, e)) = Plus(Plus(r[1], d), Plus(s[1], e))
  BY <1>1 DEF Plus, Bit
<1>3. ASSUME NEW i \in 1 .. n
      PROVE  Fed(t, Plus(d, e), g, n)[i] = Plus(Fed(r, d, g, n)[i], Fed(s, e, g, n)[i])
  <2> DEFINE a == IF i = n THEN 0 ELSE r[i + 1]
             b == IF i = n THEN 0 ELSE s[i + 1]
             u == Plus(r[1], d)
             v == Plus(s[1], e)
  <2>1. a \in Bit /\ b \in Bit /\ u \in Bit /\ v \in Bit /\ g[i] \in Bit
    BY <1>1 DEF Bits, Bit, IsDivisor, Plus
  <2>2. Fed(r, d, g, n)[i] = Plus(a, IF u = 1 THEN g[i] ELSE 0)
    BY DEF Fed, Moved
  <2>3. Fed(s, e, g, n)[i] = Plus(b, IF v = 1 THEN g[i] ELSE 0)
    BY DEF Fed, Moved
  <2>4. (IF i = n THEN 0 ELSE t[i + 1]) = Plus(a, b)
    <3>1. CASE i = n
      BY <3>1 DEF Plus
    <3>2. CASE i # n
      <4>1. i + 1 \in 1 .. n
        BY <3>2 DEF IsDivisor
      <4> QED BY <3>2, <4>1 DEF Sum2
    <3> QED BY <3>1, <3>2
  <2>5. Fed(t, Plus(d, e), g, n)[i] = Plus(Plus(a, b), IF Plus(u, v) = 1 THEN g[i] ELSE 0)
    <3>1. Fed(t, Plus(d, e), g, n)[i]
            = Plus(IF i = n THEN 0 ELSE t[i + 1], IF Plus(t[1], Plus(d, e)) = 1 THEN g[i] ELSE 0)
      BY DEF Fed, Moved
    <3> HIDE DEF t, a, b
    <3> QED BY <1>1, <1>2, <2>4, <3>1
  <2> HIDE DEF a, b, u, v
  <2>6. Plus(Plus(a, b), IF Plus(u, v) = 1 THEN g[i] ELSE 0)
          = Plus(Plus(a, IF u = 1 THEN g[i] ELSE 0), Plus(b, IF v = 1 THEN g[i] ELSE 0))
    BY <2>1 DEF Plus, Bit
  <2> QED BY <2>2, <2>3, <2>5, <2>6
<1>4. Sum2(Fed(r, d, g, n), Fed(s, e, g, n), n) = [i \in 1 .. n |-> Fed(t, Plus(d, e), g, n)[i]]
  BY <1>3 DEF Sum2
<1>5. Fed(t, Plus(d, e), g, n) = [i \in 1 .. n |-> Fed(t, Plus(d, e), g, n)[i]]
  BY DEF Fed, Moved
<1> QED BY <1>4, <1>5

\* A bit comes in at the low end after a turn, or is added where it was turned to.
LEMMA LowBit ==
  ASSUME NEW g, NEW n, IsDivisor(g, n), NEW r \in Bits(n)
  PROVE  /\ Brought(r, 0, g, n) = Fed(r, 0, g, n)
         /\ Brought(r, 1, g, n) = Sum2(Fed(r, 0, g, n), [i \in 1 .. n |-> IF i = n THEN 1 ELSE 0], n)
         /\ Fed(r, 1, g, n) = Sum2(Fed(r, 0, g, n), g, n)
<1>1. 1 \in 1 .. n /\ r[1] \in Bit /\ Plus(r[1], 0) = r[1]
  BY DEF IsDivisor, Bits, Bit, Plus
<1>2. Brought(r, 0, g, n) = Fed(r, 0, g, n)
  BY <1>1 DEF Brought, Fed
<1>3. ASSUME NEW i \in 1 .. n
      PROVE  /\ Brought(r, 1, g, n)[i] = Plus(Fed(r, 0, g, n)[i], IF i = n THEN 1 ELSE 0)
             /\ Fed(r, 1, g, n)[i] = Plus(Fed(r, 0, g, n)[i], g[i])
  <2> DEFINE a == r[i + 1]
  <2>1. g[i] \in Bit /\ (i # n => a \in Bit)
    BY DEF IsDivisor, Bits
  <2>2. /\ Brought(r, 1, g, n)[i] = Plus(IF i = n THEN 1 ELSE a, IF r[1] = 1 THEN g[i] ELSE 0)
        /\ Fed(r, 0, g, n)[i] = Plus(IF i = n THEN 0 ELSE a, IF Plus(r[1], 0) = 1 THEN g[i] ELSE 0)
        /\ Fed(r, 1, g, n)[i] = Plus(IF i = n THEN 0 ELSE a, IF Plus(r[1], 1) = 1 THEN g[i] ELSE 0)
    BY DEF Brought, Fed, Moved
  <2> HIDE DEF a
  <2>3. CASE i = n
    BY <1>1, <2>1, <2>2, <2>3 DEF Plus, Bit
  <2>4. CASE i # n
    BY <1>1, <2>1, <2>2, <2>4 DEF Plus, Bit
  <2> QED BY <2>3, <2>4
<1>4. /\ Brought(r, 1, g, n) = [i \in 1 .. n |-> Brought(r, 1, g, n)[i]]
      /\ Fed(r, 1, g, n) = [i \in 1 .. n |-> Fed(r, 1, g, n)[i]]
  BY DEF Brought, Fed, Moved
<1>5. Sum2(Fed(r, 0, g, n), [i \in 1 .. n |-> IF i = n THEN 1 ELSE 0], n)
        = [i \in 1 .. n |-> Brought(r, 1, g, n)[i]]
  BY <1>3 DEF Sum2
<1>6. Sum2(Fed(r, 0, g, n), g, n) = [i \in 1 .. n |-> Fed(r, 1, g, n)[i]]
  BY <1>3 DEF Sum2
<1> QED BY <1>2, <1>4, <1>5, <1>6

\* The states of a register to which bits are added, of one into which they
\* come, and of one that is turned.
Feeding(c, bits, g, n) ==
  /\ c \in [0 .. Len(bits) -> Bits(n)] /\ c[0] = NoBits(n)
  /\ \A i \in 1 .. Len(bits) : c[i] = Fed(c[i - 1], bits[i], g, n)
Bringing(h, bits, g, n) ==
  /\ h \in [0 .. Len(bits) -> Bits(n)] /\ h[0] = NoBits(n)
  /\ \A i \in 1 .. Len(bits) : h[i] = Brought(h[i - 1], bits[i], g, n)
Turning(o, N, g, n) ==
  o \in [0 .. N -> Bits(n)] /\ \A i \in 1 .. N : o[i] = Fed(o[i - 1], 0, g, n)

LEMMA NoBitsIs ==
  ASSUME NEW n \in Nat PROVE NoBits(n) \in Bits(n)
BY DEF NoBits, Bits, Bit

LEMMA FeedingExists ==
  ASSUME NEW g, NEW n, IsDivisor(g, n), NEW bits \in Seq(Bit)
  PROVE  (\E c : Feeding(c, bits, g, n)) /\ (\E h : Bringing(h, bits, g, n))
<1> DEFINE N == Len(bits)
           feed == [i \in 1 .. N |-> [r \in Bits(n) |-> Fed(r, bits[i], g, n)]]
           bring == [i \in 1 .. N |-> [r \in Bits(n) |-> Brought(r, bits[i], g, n)]]
<1>1. N \in Nat /\ \A i \in 1 .. N : bits[i] \in Bit
  OBVIOUS
<1>2. n \in Nat /\ NoBits(n) \in Bits(n)
  BY NoBitsIs DEF IsDivisor
<1>3. feed \in [1 .. N -> [Bits(n) -> Bits(n)]] /\ bring \in [1 .. N -> [Bits(n) -> Bits(n)]]
  BY <1>1, FedIs
<1>4. PICK c \in [0 .. N -> Bits(n)] : StepsFrom(c, N, NoBits(n), feed)
  <2> HIDE DEF N, feed
  <2> QED BY <1>1, <1>2, <1>3, StepsExist
<1>5. PICK h \in [0 .. N -> Bits(n)] : StepsFrom(h, N, NoBits(n), bring)
  <2> HIDE DEF N, bring
  <2> QED BY <1>1, <1>2, <1>3, StepsExist
<1>6. ASSUME NEW i \in 1 .. N
      PROVE  c[i] = Fed(c[i - 1], bits[i], g, n) /\ h[i] = Brought(h[i - 1], bits[i], g, n)
  <2>1. c[i - 1] \in Bits(n) /\ h[i - 1] \in Bits(n)
    BY <1>1
  <2>2. c[i] = feed[i][c[i - 1]] /\ h[i] = bring[i][h[i - 1]]
    BY <1>4, <1>5 DEF StepsFrom
  <2> QED BY <2>1, <2>2
<1>7. c[0] = NoBits(n) /\ h[0] = NoBits(n)
  BY <1>4, <1>5 DEF StepsFrom
<1> QED BY <1>6, <1>7 DEF Feeding, Bringing

LEMMA TurningExists ==
  ASSUME NEW g, NEW n, IsDivisor(g, n), NEW r \in Bits(n), NEW N \in Nat
  PROVE  \E o : Turning(o, N, g, n) /\ o[0] = r
<1> DEFINE turn == [s \in Bits(n) |-> Fed(s, 0, g, n)]
<1>1. turn \in [Bits(n) -> Bits(n)]
  BY FedIs DEF Bit
<1>2. PICK o \in [0 .. N -> Bits(n)] : Iterates(o, N, r, turn)
  <2> HIDE DEF turn
  <2> QED BY <1>1, IteratesExist
<1>3. ASSUME NEW i \in 1 .. N PROVE o[i] = Fed(o[i - 1], 0, g, n)
  <2>1. o[i - 1] \in Bits(n)
    OBVIOUS
  <2>2. o[i] = turn[o[i - 1]]
    BY <1>2 DEF Iterates
  <2> QED BY <2>1, <2>2
<1>4. o[0] = r
  BY <1>2 DEF Iterates
<1> QED BY <1>3, <1>4 DEF Turning

LEMMA TurningOnce ==
  ASSUME NEW g, NEW n, NEW N \in Nat, NEW o, NEW u, Turning(o, N, g, n), Turning(u, N, g, n), o[0] = u[0]
  PROVE  o[N] = u[N]
<1> DEFINE S == {i \in 0 .. N : o[i] = u[i]}
<1>1. 0 \in S
  OBVIOUS
<1>2. ASSUME NEW i \in 1 .. N, i - 1 \in S PROVE i \in S
  BY <1>2 DEF Turning
<1> HIDE DEF S
<1>3. 0 .. N \subseteq S
  BY <1>1, <1>2, BoundedInduction
<1> QED BY <1>3 DEF S

LEMMA TurningSum ==
  ASSUME NEW g, NEW n, IsDivisor(g, n), NEW N \in Nat, NEW o, NEW u, NEW v,
         Turning(o, N, g, n), Turning(u, N, g, n), Turning(v, N, g, n), o[0] = Sum2(u[0], v[0], n)
  PROVE  o[N] = Sum2(u[N], v[N], n)
<1> DEFINE S == {i \in 0 .. N : o[i] = Sum2(u[i], v[i], n)}
<1>1. 0 \in S
  OBVIOUS
<1>2. ASSUME NEW i \in 1 .. N, i - 1 \in S PROVE i \in S
  <2>1. u[i - 1] \in Bits(n) /\ v[i - 1] \in Bits(n) /\ 0 \in Bit /\ Plus(0, 0) = 0
    BY DEF Turning, Bit, Plus
  <2>2. Fed(Sum2(u[i - 1], v[i - 1], n), 0, g, n) = Sum2(Fed(u[i - 1], 0, g, n), Fed(v[i - 1], 0, g, n), n)
    <3>1. Fed(Sum2(u[i - 1], v[i - 1], n), Plus(0, 0), g, n)
            = Sum2(Fed(u[i - 1], 0, g, n), Fed(v[i - 1], 0, g, n), n)
      BY <2>1, FedSum
    <3> QED BY <2>1, <3>1
  <2>3. /\ o[i] = Fed(o[i - 1], 0, g, n) /\ u[i] = Fed(u[i - 1], 0, g, n)
        /\ v[i] = Fed(v[i - 1], 0, g, n)
    BY DEF Turning
  <2> QED BY <1>2, <2>2, <2>3
<1> HIDE DEF S
<1>3. 0 .. N \subseteq S
  BY <1>1, <1>2, BoundedInduction
<1> QED BY <1>3 DEF S

\* The lowest bit, turned as often as there are bits, is the divisor.
LEMMA LowestTurned ==
  ASSUME NEW g, NEW n, IsDivisor(g, n), NEW o, Turning(o, n, g, n),
         o[0] = [i \in 1 .. n |-> IF i = n THEN 1 ELSE 0]
  PROVE  o[n] = g
<1> DEFINE e(k) == [i \in 1 .. n |-> IF i = n - k THEN 1 ELSE 0]
           S == {k \in 0 .. n - 1 : o[k] = e(k)}
<1>1. n \in Nat \ {0} /\ n - 1 \in Nat /\ g \in Bits(n)
  BY DEF IsDivisor
<1>2. 0 \in S
  BY <1>1
<1>3. ASSUME NEW k \in 1 .. n - 1, k - 1 \in S PROVE k \in S
  <2>1. o[k - 1] = e(k - 1) /\ o[k] = Fed(o[k - 1], 0, g, n)
    BY <1>1, <1>3 DEF Turning
  <2>2. o[k - 1][1] = 0
    BY <1>1, <2>1
  <2>3. ASSUME NEW i \in 1 .. n PROVE o[k][i] = e(k)[i]
    <3>1. o[k][i] = Plus(IF i = n THEN 0 ELSE o[k - 1][i + 1], 0)
      BY <2>1, <2>2 DEF Fed, Moved, Plus
    <3>2. CASE i = n
      BY <1>1, <3>1, <3>2 DEF Plus
    <3>3. CASE i # n
      <4>1. i + 1 \in 1 .. n
        BY <1>1, <3>3
      <4>2. o[k - 1][i + 1] = IF i + 1 = n - (k - 1) THEN 1 ELSE 0
        BY <2>1, <4>1
      <4>3. i + 1 = n - (k - 1) <=> i = n - k
        BY <1>1
      <4> QED BY <3>1, <3>3, <4>2, <4>3 DEF Plus
    <3> QED BY <3>2, <3>3
  <2>4. o[k] = [i \in 1 .. n |-> o[k][i]]
    BY <2>1 DEF Fed, Moved
  <2>5. o[k] = e(k)
    BY <2>3, <2>4
  <2> QED BY <2>5
<1> HIDE DEF S
<1>4. 0 .. n - 1 \subseteq S
  BY <1>1, <1>2, <1>3, BoundedInduction
<1>5. o[n - 1] = e(n - 1)
  BY <1>1, <1>4 DEF S
<1>6. o[n] = Fed(o[n - 1], 0, g, n) /\ o[n - 1][1] = 1
  BY <1>1, <1>5 DEF Turning
<1>7. ASSUME NEW i \in 1 .. n PROVE o[n][i] = g[i]
  <2>1. o[n][i] = Plus(IF i = n THEN 0 ELSE o[n - 1][i + 1], g[i])
    BY <1>6 DEF Fed, Moved, Plus
  <2>2. (IF i = n THEN 0 ELSE o[n - 1][i + 1]) = 0
    BY <1>1, <1>5
  <2>3. g[i] \in Bit
    BY <1>1 DEF Bits
  <2>4. o[n][i] = Plus(0, g[i])
    BY <2>1, <2>2
  <2> QED BY <2>3, <2>4 DEF Plus, Bit
<1>8. o[n] = [i \in 1 .. n |-> o[n][i]] /\ g = [i \in 1 .. n |-> g[i]]
  BY <1>1, <1>6 DEF Fed, Moved, Bits
<1> QED BY <1>7, <1>8

-----------------------------------------------------------------------------
(* The remainder of a division is what is left of adding the bits on top *)

\* Turned by n bits, what came in so far is what was added so far.
LEMMA TurnedIs ==
  ASSUME NEW g, NEW n, IsDivisor(g, n), NEW bits \in Seq(Bit), NEW c, NEW h,
         Feeding(c, bits, g, n), Bringing(h, bits, g, n), NEW o, Turning(o, n, g, n),
         NEW k \in 0 .. Len(bits), o[0] = h[k]
  PROVE  o[n] = c[k]
<1> DEFINE N == Len(bits)
           Good(i) == \A u : Turning(u, n, g, n) /\ u[0] = h[i] => u[n] = c[i]
           S == {i \in 0 .. N : Good(i)}
<1>1. n \in Nat \ {0} /\ n \in Nat /\ g \in Bits(n) /\ N \in Nat /\ \A i \in 1 .. N : bits[i] \in Bit
  BY DEF IsDivisor
<1>2. Good(0)
  <2> SUFFICES ASSUME NEW u, Turning(u, n, g, n), u[0] = h[0] PROVE u[n] = c[0]
    OBVIOUS
  <2>1. u[0] = NoBits(n) /\ c[0] = NoBits(n)
    BY DEF Feeding, Bringing
  <2>2. Fed(NoBits(n), 0, g, n) = NoBits(n)
    <3>1. NoBits(n)[1] = 0 /\ Plus(0, 0) = 0
      BY <1>1 DEF NoBits, Plus
    <3>2. ASSUME NEW i \in 1 .. n
          PROVE  Plus(IF i = n THEN 0 ELSE NoBits(n)[i + 1], IF Plus(NoBits(n)[1], 0) = 1 THEN g[i] ELSE 0) = 0
      <4>1. (IF i = n THEN 0 ELSE NoBits(n)[i + 1]) = 0
        BY <1>1 DEF NoBits
      <4> QED BY <3>1, <4>1
    <3> QED BY <3>2 DEF Fed, Moved, NoBits
  <2> DEFINE T == {i \in 0 .. n : u[i] = NoBits(n)}
  <2>3. 0 \in T
    BY <1>1, <2>1
  <2>4. ASSUME NEW i \in 1 .. n, i - 1 \in T PROVE i \in T
    BY <2>2, <2>4 DEF Turning
  <2> HIDE DEF T
  <2>5. 0 .. n \subseteq T
    BY <1>1, <2>3, <2>4, BoundedInduction
  <2>6. n \in T
    BY <1>1, <2>5
  <2> QED BY <2>1, <2>6 DEF T
<1>3. ASSUME NEW i \in 1 .. N, Good(i - 1) PROVE Good(i)
  <2> SUFFICES ASSUME NEW u, Turning(u, n, g, n), u[0] = h[i] PROVE u[n] = c[i]
    OBVIOUS
  <2> HIDE DEF Good
  <2> DEFINE r == h[i - 1]
             low == [j \in 1 .. n |-> IF j = n THEN 1 ELSE 0]
  <2>1. r \in Bits(n) /\ h[i] = Brought(r, bits[i], g, n) /\ c[i] = Fed(c[i - 1], bits[i], g, n)
        /\ c[i - 1] \in Bits(n)
    <3>1. i \in 0 .. N /\ i - 1 \in 0 .. N
      BY <1>1
    <3>2. h[i - 1] \in Bits(n) /\ h[i] = Brought(h[i - 1], bits[i], g, n)
      BY <3>1 DEF Bringing
    <3>3. c[i - 1] \in Bits(n) /\ c[i] = Fed(c[i - 1], bits[i], g, n)
      BY <3>1 DEF Feeding
    <3> QED BY <3>2, <3>3
  <2>2. PICK v : Turning(v, n + 1, g, n) /\ v[0] = r
    <3>1. n + 1 \in Nat
      BY <1>1
    <3> QED BY <2>1, <3>1, TurningExists
  <2>3. v[n] = c[i - 1]
    <3> DEFINE w == [j \in 0 .. n |-> v[j]]
    <3>1. \A j \in 0 .. n : j \in 0 .. n + 1 /\ w[j] = v[j]
      BY <1>1
    <3>2. \A j \in 1 .. n : j \in 1 .. n + 1 /\ j - 1 \in 0 .. n /\ j \in 0 .. n
      BY <1>1
    <3>3. w \in [0 .. n -> Bits(n)]
      BY <2>2, <3>1 DEF Turning
    <3>4. \A j \in 1 .. n : v[j] = Fed(v[j - 1], 0, g, n)
      BY <2>2, <3>2 DEF Turning
    <3>5. 0 \in 0 .. n /\ n \in 0 .. n
      BY <1>1
    <3>6. w[0] = r /\ w[n] = v[n]
      BY <2>2, <3>1, <3>5
    <3> HIDE DEF w
    <3>7. \A j \in 1 .. n : w[j] = Fed(w[j - 1], 0, g, n)
      BY <3>1, <3>2, <3>4
    <3>8. Turning(w, n, g, n)
      BY <3>3, <3>7 DEF Turning
    <3> QED BY <1>3, <3>6, <3>8 DEF Good
  <2> DEFINE x == [j \in 0 .. n |-> v[j + 1]]
  <2>4. Turning(x, n, g, n) /\ x[0] = Fed(r, 0, g, n) /\ x[n] = Fed(c[i - 1], 0, g, n)
    <3>1. \A j \in 0 .. n : j + 1 \in 1 .. n + 1 /\ x[j] = v[j + 1]
      BY <1>1
    <3>2. \A j \in 0 .. n : v[j + 1] = Fed(v[j], 0, g, n) /\ v[j + 1] \in Bits(n)
      <4>1. ASSUME NEW j \in 0 .. n PROVE v[j + 1] = Fed(v[j], 0, g, n) /\ v[j + 1] \in Bits(n)
        <5>1. j + 1 \in 1 .. n + 1 /\ (j + 1) - 1 = j /\ j + 1 \in 0 .. n + 1
          BY <1>1
        <5> QED BY <2>2, <5>1 DEF Turning
      <4> QED BY <4>1
    <3>3. x \in [0 .. n -> Bits(n)]
      BY <3>2
    <3>4. 0 \in 0 .. n /\ n \in 0 .. n
      BY <1>1
    <3>5. x[0] = Fed(r, 0, g, n) /\ x[n] = Fed(c[i - 1], 0, g, n)
      BY <2>2, <2>3, <3>1, <3>2, <3>4
    <3> HIDE DEF x
    <3>6. \A j \in 1 .. n : x[j] = Fed(x[j - 1], 0, g, n)
      <4>1. ASSUME NEW j \in 1 .. n PROVE x[j] = Fed(x[j - 1], 0, g, n)
        <5>1. j \in 0 .. n /\ j - 1 \in 0 .. n /\ (j - 1) + 1 = j
          BY <1>1
        <5> QED BY <3>1, <3>2, <5>1
      <4> QED BY <4>1
    <3> QED BY <3>3, <3>5, <3>6 DEF Turning
  <2> HIDE DEF x
  <2>5. CASE bits[i] = 0
    <3>1. u[0] = x[0]
      <4>1. Brought(r, 0, g, n) = Fed(r, 0, g, n)
        <5>1. r \in Bits(n)
          BY <2>1
        <5> HIDE DEF r, low
        <5> QED BY <5>1, LowBit
      <4> QED BY <2>1, <2>4, <2>5, <4>1
    <3>2. u[n] = x[n]
      BY <1>1, <2>4, <3>1, TurningOnce
    <3> QED BY <2>1, <2>4, <2>5, <3>2
  <2>6. CASE bits[i] = 1
    <3>1. low \in Bits(n)
      BY DEF Bits, Bit
    <3> HIDE DEF low
    <3>2. PICK y : Turning(y, n, g, n) /\ y[0] = low
      BY <1>1, <3>1, TurningExists
    <3>3. y[n] = g
      BY <3>2, LowestTurned DEF low
    <3>4. u[0] = Sum2(x[0], y[0], n)
      <4>1. Brought(r, 1, g, n) = Sum2(Fed(r, 0, g, n), low, n)
        BY <2>1, LowBit DEF low
      <4> QED BY <2>1, <2>4, <2>6, <3>2, <4>1
    <3>5. u[n] = Sum2(x[n], y[n], n)
      BY <1>1, <2>4, <3>2, <3>4, TurningSum
    <3>6. c[i] = Sum2(Fed(c[i - 1], 0, g, n), g, n)
      <4>1. Fed(c[i - 1], 1, g, n) = Sum2(Fed(c[i - 1], 0, g, n), g, n)
        <5>1. c[i - 1] \in Bits(n)
          BY <2>1
        <5> HIDE DEF low, r
        <5> QED BY <5>1, LowBit
      <4> QED BY <2>1, <2>6, <4>1
    <3> QED BY <2>4, <3>3, <3>5, <3>6
  <2> QED BY <1>1, <2>5, <2>6 DEF Bit
<1> HIDE DEF Good
<1>4. 0 \in S
  BY <1>1, <1>2
<1>5. ASSUME NEW i \in 1 .. N, i - 1 \in S PROVE i \in S
  BY <1>3, <1>5
<1> HIDE DEF S
<1>6. 0 .. N \subseteq S
  BY <1>1, <1>4, <1>5, BoundedInduction
<1>7. Good(k)
  BY <1>6 DEF S
<1> QED BY <1>7 DEF Good

\* One step of the division.
LEMMA BroughtIs ==
  ASSUME NEW g, NEW n, IsDivisor(g, n), NEW r \in Bits(n), NEW d \in Bit
  PROVE  (IF r[1] = 1 THEN Xor(Append(Tail(r), d), g) ELSE Append(Tail(r), d)) = Brought(r, d, g, n)
<1> DEFINE next == Append(Tail(r), d)
<1>1. n \in Nat \ {0} /\ n \in Nat /\ g \in Bits(n) /\ 1 \in 1 .. n
  BY DEF IsDivisor
<1>2. r \in Seq(Bit) /\ Len(r) = n /\ r # << >>
  <2>1. r \in Seq(Bit) /\ Len(r) = n
    BY <1>1, BitsAreSeq
  <2> QED BY <1>1, <2>1, EmptySeq
<1>3. Tail(r) \in Seq(Bit) /\ Len(Tail(r)) = n - 1 /\ \A i \in 1 .. n - 1 : Tail(r)[i] = r[i + 1]
  BY <1>2, HeadTailProperties
<1> DEFINE t == Tail(r)
<1> HIDE DEF t
<1>4. /\ Append(t, d) \in Seq(Bit) /\ Len(Append(t, d)) = n
      /\ \A i \in 1 .. n - 1 : Append(t, d)[i] = r[i + 1]
      /\ Append(t, d)[n] = d
  <2>1. t \in Seq(Bit) /\ Len(t) = n - 1 /\ \A i \in 1 .. n - 1 : t[i] = r[i + 1]
    BY <1>3 DEF t
  <2>2. /\ Append(t, d) \in Seq(Bit) /\ Len(Append(t, d)) = Len(t) + 1
        /\ \A i \in 1 .. Len(t) : Append(t, d)[i] = t[i]
        /\ Append(t, d)[Len(t) + 1] = d
    BY <2>1, AppendProperties
  <2> QED BY <1>1, <2>1, <2>2
<1>5. /\ next \in Bits(n) /\ \A i \in 1 .. n : next[i] = IF i = n THEN d ELSE r[i + 1]
  <2>1. Append(t, d) \in Bits(n)
    BY <1>1, <1>4, BitsAreSeq
  <2>2. next = Append(t, d)
    BY DEF t
  <2>3. \A i \in 1 .. n : i # n => i \in 1 .. n - 1
    BY <1>1
  <2> HIDE DEF next
  <2> QED BY <1>4, <2>1, <2>2, <2>3
<1> HIDE DEF next
<1>6. r[1] \in Bit /\ \A i \in 1 .. n : next[i] \in Bit
  BY <1>1, <1>5 DEF Bits
<1>7. Brought(r, d, g, n) = [i \in 1 .. n |-> Plus(next[i], IF r[1] = 1 THEN g[i] ELSE 0)]
  BY <1>5 DEF Brought, Moved
<1>8. CASE r[1] = 1
  <2>1. Xor(next, g) = [i \in 1 .. n |-> Plus(next[i], g[i])]
    BY <1>1, <1>5, XorIs DEF Sum2
  <2> QED BY <1>7, <1>8, <2>1 DEF next
<1>9. CASE r[1] # 1
  <2>1. \A i \in 1 .. n : Plus(next[i], 0) = next[i]
    BY <1>6 DEF Plus, Bit
  <2>2. next = [i \in 1 .. n |-> next[i]]
    BY <1>5 DEF Bits
  <2>3. Brought(r, d, g, n) = next
    BY <1>7, <1>9, <2>1, <2>2
  <2> QED BY <1>9, <2>3 DEF next
<1> QED BY <1>8, <1>9

LEMMA RemainderIs ==
  ASSUME NEW g, NEW n, IsDivisor(g, n), NEW bits \in Seq(Bit), NEW c, Feeding(c, bits, g, n)
  PROVE  Remainder(bits, g) = c[Len(bits)]
<1> DEFINE message == bits \o Zeros(n)
           N == Len(bits)
           M == Len(message)
           P(f) == f = [i \in 0 .. M |->
                          IF i = 0 THEN Zeros(n)
                          ELSE LET r == f[i - 1]
                                   next == Append(Tail(r), message[i])
                               IN  IF r[1] = 1 THEN Xor(next, g) ELSE next]
           f == CHOOSE f : P(f)
<1>1. n \in Nat \ {0} /\ n \in Nat /\ g \in Bits(n) /\ N \in Nat /\ Len(g) = n
  BY BitsAreSeq DEF IsDivisor
<1>2. Zeros(n) = NoBits(n) /\ Zeros(n) \in Seq(Bit) /\ Len(Zeros(n)) = n /\ \A i \in 1 .. n : Zeros(n)[i] = 0
  <2>1. Zeros(n) = NoBits(n)
    BY DEF Zeros, NoBits
  <2>2. NoBits(n) \in Seq(Bit) /\ Len(NoBits(n)) = n
    BY <1>1, NoBitsIs, BitsAreSeq
  <2> QED BY <2>1, <2>2 DEF NoBits
<1>3. /\ message \in Seq(Bit) /\ M = N + n
      /\ \A i \in 1 .. N + n : message[i] = IF i <= N THEN bits[i] ELSE Zeros(n)[i - N]
  <2> DEFINE z == Zeros(n)
  <2> HIDE DEF z
  <2>1. z \in Seq(Bit) /\ Len(z) = n
    BY <1>2 DEF z
  <2>2. /\ bits \o z \in Seq(Bit) /\ Len(bits \o z) = Len(bits) + Len(z)
        /\ \A i \in 1 .. Len(bits) + Len(z) : (bits \o z)[i] = IF i <= Len(bits) THEN bits[i] ELSE z[i - Len(bits)]
    BY <2>1, ConcatProperties
  <2> QED BY <2>1, <2>2 DEF z
<1> HIDE DEF message
<1>4. M \in Nat /\ \A i \in 1 .. M : message[i] \in Bit
  BY <1>1, <1>3
<1>5. PICK h : Bringing(h, message, g, n)
  BY <1>3, FeedingExists
<1>6. P(h)
  <2>1. h \in [0 .. M -> Bits(n)] /\ h[0] = Zeros(n)
    BY <1>2, <1>5 DEF Bringing
  <2>2. ASSUME NEW i \in 0 .. M, i # 0
        PROVE  h[i] = LET r == h[i - 1]
                          next == Append(Tail(r), message[i])
                      IN  IF r[1] = 1 THEN Xor(next, g) ELSE next
    <3>1. i \in 1 .. M /\ i - 1 \in 0 .. M
      BY <1>4, <2>2
    <3>2. h[i] = Brought(h[i - 1], message[i], g, n) /\ h[i - 1] \in Bits(n) /\ message[i] \in Bit
      BY <1>4, <1>5, <3>1 DEF Bringing
    <3> QED BY <3>2, BroughtIs
  <2>3. \A i \in 0 .. M : h[i] = IF i = 0 THEN Zeros(n)
                                ELSE LET r == h[i - 1]
                                         next == Append(Tail(r), message[i])
                                     IN  IF r[1] = 1 THEN Xor(next, g) ELSE next
    BY <2>1, <2>2
  <2>4. h = [i \in 0 .. M |-> h[i]]
    BY <2>1
  <2> HIDE DEF M
  <2> QED BY <2>3, <2>4
<1>7. P(f)
  <2> HIDE DEF P
  <2> QED BY <1>6
<1>8. Remainder(bits, g) = f[M]
  BY <1>1 DEF Remainder, message
<1> HIDE DEF f
<1>9. \A i \in 0 .. M : f[i] = h[i]
  <2> DEFINE S == {i \in 0 .. M : f[i] = h[i]}
  <2>1. 0 \in S
    BY <1>4, <1>6, <1>7
  <2>2. ASSUME NEW i \in 1 .. M, i - 1 \in S PROVE i \in S
    <3>1. i \in 0 .. M /\ i # 0 /\ f[i - 1] = h[i - 1]
      BY <1>4, <2>2
    <3>2. f[i] = LET r == f[i - 1]
                     next == Append(Tail(r), message[i])
                 IN  IF r[1] = 1 THEN Xor(next, g) ELSE next
      BY <1>7, <3>1
    <3>3. h[i] = LET r == h[i - 1]
                     next == Append(Tail(r), message[i])
                 IN  IF r[1] = 1 THEN Xor(next, g) ELSE next
      BY <1>6, <3>1
    <3> QED BY <3>1, <3>2, <3>3
  <2> HIDE DEF S
  <2>3. 0 .. M \subseteq S
    BY <1>4, <2>1, <2>2, BoundedInduction
  <2> QED BY <2>3 DEF S
<1>10. f[M] = h[M]
  BY <1>4, <1>9
<1> HIDE DEF P
<1> DEFINE k == [i \in 0 .. N |-> h[i]]
           o == [i \in 0 .. n |-> h[N + i]]
<1>11. h \in [0 .. N + n -> Bits(n)] /\ h[0] = NoBits(n)
       /\ \A i \in 1 .. N + n : h[i] = Brought(h[i - 1], message[i], g, n)
  BY <1>3, <1>5 DEF Bringing
<1>12. Bringing(k, bits, g, n) /\ k[N] = h[N]
  <2>1. \A i \in 0 .. N : i \in 0 .. N + n /\ k[i] = h[i]
    BY <1>1
  <2>2. k \in [0 .. N -> Bits(n)] /\ k[0] = NoBits(n) /\ k[N] = h[N]
    BY <1>1, <1>11, <2>1
  <2> HIDE DEF k
  <2>3. ASSUME NEW i \in 1 .. N PROVE k[i] = Brought(k[i - 1], bits[i], g, n)
    <3>1. i \in 0 .. N /\ i - 1 \in 0 .. N /\ i \in 1 .. N + n /\ i <= N
      BY <1>1
    <3> QED BY <1>3, <1>11, <2>1, <3>1
  <2> QED BY <2>2, <2>3 DEF Bringing
<1>13. Turning(o, n, g, n) /\ o[0] = h[N] /\ o[n] = h[N + n]
  <2>1. \A i \in 0 .. n : N + i \in 0 .. N + n /\ o[i] = h[N + i]
    BY <1>1
  <2>2. o \in [0 .. n -> Bits(n)] /\ o[0] = h[N] /\ o[n] = h[N + n]
    <3>1. N + 0 = N /\ 0 \in 0 .. n /\ n \in 0 .. n
      BY <1>1
    <3> QED BY <1>11, <2>1, <3>1
  <2> HIDE DEF o
  <2>3. ASSUME NEW i \in 1 .. n PROVE o[i] = Fed(o[i - 1], 0, g, n)
    <3>1. i \in 0 .. n /\ i - 1 \in 0 .. n /\ N + i \in 1 .. N + n /\ (N + i) - 1 = N + (i - 1)
          /\ ~ (N + i <= N) /\ (N + i) - N = i
      BY <1>1
    <3>2. message[N + i] = 0
      BY <1>2, <1>3, <3>1
    <3>3. h[N + i] = Brought(h[N + (i - 1)], 0, g, n)
      BY <1>11, <3>1, <3>2
    <3>4. h[N + (i - 1)] \in Bits(n)
      BY <1>11, <2>1, <3>1
    <3>5. h[N + i] = Fed(h[N + (i - 1)], 0, g, n)
      BY <3>3, <3>4, LowBit
    <3> QED BY <2>1, <3>1, <3>5
  <2> QED BY <2>2, <2>3 DEF Turning
<1> HIDE DEF k, o
<1>14. o[n] = c[N]
  <2>1. N \in 0 .. Len(bits) /\ o[0] = k[N]
    BY <1>1, <1>12, <1>13
  <2> HIDE DEF N
  <2> QED BY <1>12, <1>13, <2>1, TurnedIs
<1> QED BY <1>3, <1>8, <1>10, <1>13, <1>14

-----------------------------------------------------------------------------
(* crc7 *)

LEMMA SevenIs ==
  /\ IsDivisor(Divisor7, 7)
  /\ Divisor7 = [i \in 1 .. 7 |-> IF i \in {4, 7} THEN 1 ELSE 0]
<1>1. Divisor7 = [i \in 1 .. 7 |-> IF i \in {4, 7} THEN 1 ELSE 0]
  <2>1. \A i \in 1 .. 7 : Divisor7[i] = IF i \in {4, 7} THEN 1 ELSE 0
    <3>1. \A i \in 1 .. 7 : i \in {1, 2, 3, 4, 5, 6, 7}
      OBVIOUS
    <3> QED BY <3>1 DEF Divisor7
  <2>2. Divisor7 = [i \in 1 .. 7 |-> Divisor7[i]]
    BY DEF Divisor7
  <2> QED BY <2>1, <2>2
<1>2. Divisor7 \in Bits(7)
  BY <1>1 DEF Bits, Bit
<1> QED BY <1>1, <1>2 DEF IsDivisor

LEMMA LeftIs ==
  ASSUME NEW n \in Nat, NEW a \in Bits(n), NEW k \in 0 .. n
  PROVE  Left(a, k) \in Bits(n) /\ \A i \in 1 .. n : Left(a, k)[i] = IF i + k <= n THEN a[i + k] ELSE 0
<1> DEFINE s == SubSeq(a, k + 1, n)
           z == [i \in 1 .. k |-> 0]
<1>1. Len(a) = n
  BY BitsAreSeq
<1>2. s \in Seq(Bit) /\ Len(s) = n - k /\ \A i \in 1 .. n - k : s[i] = a[k + i]
  <2>1. k + 1 \in Int /\ n \in Int /\ \A i \in k + 1 .. n : a[i] \in Bit
    BY DEF Bits
  <2>2. /\ s \in Seq(Bit) /\ Len(s) = IF k + 1 <= n THEN n - (k + 1) + 1 ELSE 0
        /\ \A i \in 1 .. n - (k + 1) + 1 : s[i] = a[k + 1 + i - 1]
    BY <2>1, SubSeqProperties
  <2> HIDE DEF s
  <2>3. n - (k + 1) + 1 = n - k /\ \A i \in 1 .. n - k : k + 1 + i - 1 = k + i
    OBVIOUS
  <2> QED BY <2>2, <2>3
<1>3. z \in Seq(Bit) /\ Len(z) = k
  <2>1. k \in Nat /\ z \in Bits(k)
    BY DEF Bits, Bit
  <2> HIDE DEF z
  <2> QED BY <2>1, BitsAreSeq
<1>4. \A i \in 1 .. k : z[i] = 0
  OBVIOUS
<1>5. Left(a, k) = s \o z
  BY <1>1 DEF Left, Zeros
<1> HIDE DEF s, z
<1>6. /\ s \o z \in Seq(Bit) /\ Len(s \o z) = (n - k) + k
      /\ \A i \in 1 .. (n - k) + k : (s \o z)[i] = IF i <= n - k THEN s[i] ELSE z[i - (n - k)]
  <2>1. /\ s \o z \in Seq(Bit) /\ Len(s \o z) = Len(s) + Len(z)
        /\ \A i \in 1 .. Len(s) + Len(z) : (s \o z)[i] = IF i <= Len(s) THEN s[i] ELSE z[i - Len(s)]
    BY <1>2, <1>3, ConcatProperties
  <2>2. Len(s) = n - k /\ Len(z) = k
    BY <1>2, <1>3
  <2> QED BY <2>1, <2>2
<1>7. (n - k) + k = n
  OBVIOUS
<1>8. Left(a, k) \in Bits(n)
  <2> DEFINE y == s \o z
  <2>1. y \in Seq(Bit) /\ Len(y) = n
    BY <1>6, <1>7
  <2> HIDE DEF y
  <2>2. y \in Bits(n)
    BY <2>1, BitsAreSeq
  <2> QED BY <1>5, <2>2 DEF y
<1>9. ASSUME NEW i \in 1 .. n PROVE (s \o z)[i] = IF i + k <= n THEN a[i + k] ELSE 0
  <2>1. CASE i + k <= n
    <3>1. i <= n - k /\ i \in 1 .. n - k /\ k + i = i + k
      BY <2>1
    <3> QED BY <1>2, <1>6, <1>7, <2>1, <3>1
  <2>2. CASE ~ (i + k <= n)
    <3>1. ~ (i <= n - k) /\ i - (n - k) \in 1 .. k
      BY <2>2
    <3> QED BY <1>4, <1>6, <1>7, <2>2, <3>1
  <2> QED BY <2>1, <2>2
<1> QED BY <1>5, <1>8, <1>9

\* The low seven bits of crc are a register that divides.
LowSeven(crc) == [i \in 1 .. 7 |-> crc[i + 1]]

LEMMA Crc7BitIs ==
  ASSUME NEW crc \in Bits(8), NEW d \in Bit
  PROVE  Crc7Bit(crc, d) \in Bits(8) /\ LowSeven(Crc7Bit(crc, d)) = Fed(LowSeven(crc), d, Divisor7, 7)
<1> DEFINE r == LowSeven(crc)
           shifted == Left(crc, 1)
           poly == <<0, 0, 0, 0, 1, 0, 0, 1>>
           next == Crc7Bit(crc, d)
<1>1. shifted \in Bits(8) /\ \A i \in 1 .. 8 : shifted[i] = IF i + 1 <= 8 THEN crc[i + 1] ELSE 0
  <2>1. 8 \in Nat /\ 1 \in 0 .. 8
    OBVIOUS
  <2> QED BY <2>1, LeftIs
<1>2. \A i \in 1 .. 8 : i \in {1, 2, 3, 4, 5, 6, 7, 8}
  OBVIOUS
<1>3. \A i \in 1 .. 8 : poly[i] = IF i \in {5, 8} THEN 1 ELSE 0
  BY <1>2
<1>4. poly \in Bits(8)
  <2>1. poly = [i \in 1 .. 8 |-> poly[i]]
    OBVIOUS
  <2> HIDE DEF poly
  <2> QED BY <1>3, <2>1 DEF Bits, Bit
<1> HIDE DEF shifted, poly
<1>5. next = IF shifted[1] # d THEN Xor(shifted, poly) ELSE shifted
  BY DEF Crc7Bit, shifted, poly
<1>6. Xor(shifted, poly) \in Bits(8) /\ \A i \in 1 .. 8 : Xor(shifted, poly)[i] = Plus(shifted[i], poly[i])
  <2>1. 8 \in Nat
    OBVIOUS
  <2>2. Xor(shifted, poly) = Sum2(shifted, poly, 8) /\ Sum2(shifted, poly, 8) \in Bits(8)
    BY <1>1, <1>4, <2>1, XorIs
  <2> QED BY <2>2 DEF Sum2
<1>7. next \in Bits(8)
  BY <1>1, <1>5, <1>6
<1>8. shifted[1] = r[1] /\ r[1] \in Bit /\ \A i \in 1 .. 7 : r[i] = crc[i + 1]
  BY <1>1 DEF Bits, LowSeven
<1> HIDE DEF r
<1>9. ASSUME NEW i \in 1 .. 7 PROVE next[i + 1] = Fed(r, d, Divisor7, 7)[i]
  <2>1. i + 1 \in 1 .. 8 /\ (i + 1 \in {5, 8} <=> i \in {4, 7})
    OBVIOUS
  <2>2. shifted[i + 1] = IF i = 7 THEN 0 ELSE r[i + 1]
    <3>1. CASE i = 7
      BY <1>1, <2>1, <3>1
    <3>2. CASE i # 7
      <4>1. i + 1 \in 1 .. 7 /\ (i + 1) + 1 <= 8
        BY <3>2
      <4> QED BY <1>1, <1>8, <2>1, <3>2, <4>1
    <3> QED BY <3>1, <3>2
  <2>3. poly[i + 1] = Divisor7[i]
    BY <1>3, <2>1, SevenIs
  <2>4. Fed(r, d, Divisor7, 7)[i] = Plus(shifted[i + 1], IF Plus(r[1], d) = 1 THEN poly[i + 1] ELSE 0)
    BY <2>2, <2>3 DEF Fed, Moved
  <2>5. shifted[i + 1] \in Bit
    BY <1>1, <2>1 DEF Bits
  <2>6. CASE r[1] # d
    <3>1. next[i + 1] = Plus(shifted[i + 1], poly[i + 1])
      BY <1>5, <1>6, <1>8, <2>1, <2>6
    <3> QED BY <2>4, <2>6, <3>1 DEF Plus
  <2>7. CASE r[1] = d
    <3>1. next[i + 1] = shifted[i + 1]
      BY <1>5, <1>8, <2>7
    <3> QED BY <2>4, <2>5, <2>7, <3>1 DEF Plus, Bit
  <2> QED BY <2>6, <2>7
<1> HIDE DEF next
<1>10. Fed(r, d, Divisor7, 7) = [i \in 1 .. 7 |-> Fed(r, d, Divisor7, 7)[i]]
  BY DEF Fed, Moved
<1>11. LowSeven(next) = Fed(r, d, Divisor7, 7)
  BY <1>9, <1>10 DEF LowSeven
<1> QED BY <1>7, <1>11 DEF next, r

LEMMA Crc7Is ==
  ASSUME NEW bits \in Seq(Bit), NEW c, Feeding(c, bits, Divisor7, 7)
  PROVE  Crc7(bits) = c[Len(bits)]
<1> DEFINE N == Len(bits)
           step == [i \in 1 .. N |-> [r \in Bits(8) |-> Crc7Bit(r, bits[i])]]
           P(f) == f = [i \in 0 .. N |-> IF i = 0 THEN Zeros(8) ELSE Crc7Bit(f[i - 1], bits[i])]
           f == CHOOSE f : P(f)
<1>1. N \in Nat /\ \A i \in 1 .. N : bits[i] \in Bit
  OBVIOUS
<1>2. Zeros(8) \in Bits(8) /\ LowSeven(Zeros(8)) = NoBits(7)
  BY DEF Zeros, Bits, Bit, NoBits, LowSeven
<1>3. step \in [1 .. N -> [Bits(8) -> Bits(8)]]
  BY <1>1, Crc7BitIs
<1>4. PICK h \in [0 .. N -> Bits(8)] : StepsFrom(h, N, Zeros(8), step)
  <2> HIDE DEF N, step
  <2> QED BY <1>1, <1>2, <1>3, StepsExist
<1>5. h[0] = Zeros(8) /\ \A i \in 1 .. N : h[i] = Crc7Bit(h[i - 1], bits[i])
  <2>1. ASSUME NEW i \in 1 .. N PROVE h[i] = Crc7Bit(h[i - 1], bits[i])
    <3>1. h[i - 1] \in Bits(8)
      BY <1>1
    <3>2. h[i] = step[i][h[i - 1]]
      BY <1>4 DEF StepsFrom
    <3> QED BY <3>1, <3>2
  <2> QED BY <1>4, <2>1 DEF StepsFrom
<1>6. P(h)
  <2>1. \A i \in 0 .. N : h[i] = IF i = 0 THEN Zeros(8) ELSE Crc7Bit(h[i - 1], bits[i])
    BY <1>1, <1>5
  <2>2. h = [i \in 0 .. N |-> h[i]]
    OBVIOUS
  <2> HIDE DEF N
  <2> QED BY <2>1, <2>2
<1>7. P(f)
  <2> HIDE DEF P
  <2> QED BY <1>6
<1>8. Crc7(bits) = Tail(f[N])
  BY DEF Crc7
<1> HIDE DEF f
<1>9. f[0] = Zeros(8) /\ \A i \in 1 .. N : f[i] = Crc7Bit(f[i - 1], bits[i])
  BY <1>1, <1>7
<1>10. \A i \in 0 .. N : f[i] \in Bits(8) /\ LowSeven(f[i]) = c[i]
  <2> DEFINE S == {i \in 0 .. N : f[i] \in Bits(8) /\ LowSeven(f[i]) = c[i]}
  <2>1. 0 \in S
    BY <1>1, <1>2, <1>9 DEF Feeding
  <2>2. ASSUME NEW i \in 1 .. N, i - 1 \in S PROVE i \in S
    <3>1. f[i - 1] \in Bits(8) /\ LowSeven(f[i - 1]) = c[i - 1]
      BY <2>2
    <3>2. f[i] = Crc7Bit(f[i - 1], bits[i]) /\ bits[i] \in Bit /\ c[i] = Fed(c[i - 1], bits[i], Divisor7, 7)
      BY <1>1, <1>9 DEF Feeding
    <3>3. f[i] \in Bits(8) /\ LowSeven(f[i]) = c[i]
      BY <3>1, <3>2, Crc7BitIs
    <3> QED BY <1>1, <3>3
  <2> HIDE DEF S
  <2>3. 0 .. N \subseteq S
    BY <1>1, <2>1, <2>2, BoundedInduction
  <2> QED BY <2>3 DEF S
<1>11. f[N] \in Bits(8) /\ LowSeven(f[N]) = c[N]
  BY <1>1, <1>10
<1>12. ASSUME NEW r \in Bits(8) PROVE Tail(r) = LowSeven(r)
  <2>1. r \in Seq(Bit) /\ Len(r) = 8 /\ r # << >>
    <3>1. 8 \in Nat /\ 8 # 0
      OBVIOUS
    <3>2. r \in Seq(Bit) /\ Len(r) = 8
      BY <3>1, BitsAreSeq
    <3>3. Len(<< >>) = 0
      OBVIOUS
    <3>4. r # << >>
      <4> SUFFICES ASSUME r = << >> PROVE FALSE
        OBVIOUS
      <4>1. Len(r) = 0
        BY <3>3
      <4> QED BY <3>1, <3>2, <4>1
    <3> QED BY <3>2, <3>4
  <2>2. Tail(r) \in Seq(Bit) /\ Len(Tail(r)) = 7 /\ \A i \in 1 .. 7 : Tail(r)[i] = r[i + 1]
    <3>1. Tail(r) \in Seq(Bit) /\ Len(Tail(r)) = Len(r) - 1 /\ \A i \in 1 .. Len(Tail(r)) : Tail(r)[i] = r[i + 1]
      BY <2>1, HeadTailProperties
    <3>2. Len(r) - 1 = 7
      BY <2>1
    <3>3. Len(Tail(r)) = 7
      BY <3>1, <3>2
    <3> QED BY <3>1, <3>3
  <2> DEFINE t == Tail(r)
  <2> HIDE DEF t
  <2>3. t \in Bits(7)
    BY <2>2, BitsAreSeq DEF t
  <2>4. t = [i \in 1 .. 7 |-> t[i]]
    BY <2>3 DEF Bits
  <2>5. \A i \in 1 .. 7 : t[i] = r[i + 1]
    BY <2>2 DEF t
  <2>6. t = LowSeven(r)
    BY <2>4, <2>5 DEF LowSeven
  <2> QED BY <2>6 DEF t
<1> QED BY <1>8, <1>11, <1>12

-----------------------------------------------------------------------------
(* crc16 *)

LEMMA JoinedBits ==
  ASSUME NEW m \in Nat, NEW n \in Nat, NEW a \in Bits(m), NEW b \in Bits(n)
  PROVE  a \o b \in Bits(m + n) /\ \A i \in 1 .. m + n : (a \o b)[i] = IF i <= m THEN a[i] ELSE b[i - m]
<1>1. a \in Seq(Bit) /\ Len(a) = m /\ b \in Seq(Bit) /\ Len(b) = n
  BY BitsAreSeq
<1>2. /\ a \o b \in Seq(Bit) /\ Len(a \o b) = Len(a) + Len(b)
      /\ \A i \in 1 .. Len(a) + Len(b) : (a \o b)[i] = IF i <= Len(a) THEN a[i] ELSE b[i - Len(a)]
  BY <1>1, ConcatProperties
<1>3. m + n \in Nat /\ Len(a \o b) = m + n
  BY <1>1, <1>2
<1>4. a \o b \in Bits(m + n)
  BY <1>2, <1>3, BitsAreSeq
<1> QED BY <1>1, <1>2, <1>4

LEMMA PartOfBits ==
  ASSUME NEW n \in Nat, NEW a \in Bits(n), NEW k \in Nat, NEW len \in Nat, k + len <= n
  PROVE  SubSeq(a, k + 1, k + len) \in Bits(len) /\ \A i \in 1 .. len : SubSeq(a, k + 1, k + len)[i] = a[k + i]
<1> DEFINE s == SubSeq(a, k + 1, k + len)
<1>1. k + 1 \in Int /\ k + len \in Int /\ \A i \in k + 1 .. k + len : a[i] \in Bit
  BY DEF Bits
<1>2. /\ s \in Seq(Bit) /\ Len(s) = IF k + 1 <= k + len THEN (k + len) - (k + 1) + 1 ELSE 0
      /\ \A i \in 1 .. (k + len) - (k + 1) + 1 : s[i] = a[k + 1 + i - 1]
  BY <1>1, SubSeqProperties
<1> HIDE DEF s
<1>3. (k + len) - (k + 1) + 1 = len /\ \A i \in 1 .. len : k + 1 + i - 1 = k + i
  OBVIOUS
<1>4. Len(s) = len
  BY <1>2, <1>3
<1>5. s \in Bits(len)
  BY <1>2, <1>4, BitsAreSeq
<1>6. s \in Bits(len) /\ \A i \in 1 .. len : s[i] = a[k + i]
  BY <1>2, <1>3, <1>5
<1> QED BY <1>6 DEF s

LEMMA RightIs ==
  ASSUME NEW n \in Nat, NEW a \in Bits(n), NEW k \in 0 .. n
  PROVE  Right(a, k) \in Bits(n) /\ \A i \in 1 .. n : Right(a, k)[i] = IF i <= k THEN 0 ELSE a[i - k]
<1> DEFINE z == [i \in 1 .. k |-> 0]
           s == SubSeq(a, 1, n - k)
<1>1. Len(a) = n
  BY BitsAreSeq
<1>2. k \in Nat /\ z \in Bits(k) /\ \A i \in 1 .. k : z[i] = 0
  BY DEF Bits, Bit
<1>3. s \in Bits(n - k) /\ \A i \in 1 .. n - k : s[i] = a[i]
  <2>1. 0 \in Nat /\ n - k \in Nat /\ 0 + (n - k) <= n
    OBVIOUS
  <2>2. SubSeq(a, 0 + 1, 0 + (n - k)) \in Bits(n - k)
        /\ \A i \in 1 .. n - k : SubSeq(a, 0 + 1, 0 + (n - k))[i] = a[0 + i]
    BY <2>1, PartOfBits
  <2>3. 0 + 1 = 1 /\ 0 + (n - k) = n - k /\ \A i \in 1 .. n - k : 0 + i = i
    OBVIOUS
  <2> QED BY <2>2, <2>3
<1>4. Right(a, k) = z \o s
  BY <1>1 DEF Right, Zeros
<1> HIDE DEF z, s
<1>5. z \o s \in Bits(k + (n - k)) /\ \A i \in 1 .. k + (n - k) : (z \o s)[i] = IF i <= k THEN z[i] ELSE s[i - k]
  <2>1. n - k \in Nat
    OBVIOUS
  <2> QED BY <1>2, <1>3, <2>1, JoinedBits
<1>6. k + (n - k) = n
  OBVIOUS
<1>7. ASSUME NEW i \in 1 .. n PROVE (z \o s)[i] = IF i <= k THEN 0 ELSE a[i - k]
  <2>1. CASE i <= k
    <3>1. i \in 1 .. k
      BY <2>1
    <3> QED BY <1>2, <1>5, <1>6, <2>1, <3>1
  <2>2. CASE ~ (i <= k)
    <3>1. i - k \in 1 .. n - k
      BY <2>2
    <3> QED BY <1>3, <1>5, <1>6, <2>2, <3>1
  <2> QED BY <2>1, <2>2
<1> QED BY <1>4, <1>5, <1>6, <1>7

LEMMA SixteenIs ==
  /\ IsDivisor(Divisor16, 16)
  /\ Divisor16 = [i \in 1 .. 16 |-> IF i \in {4, 11, 16} THEN 1 ELSE 0]
<1>1. Divisor16 = [i \in 1 .. 16 |-> IF i \in {4, 11, 16} THEN 1 ELSE 0]
  <2>1. \A i \in 1 .. 16 : Divisor16[i] = IF i \in {4, 11, 16} THEN 1 ELSE 0
    <3>1. \A i \in 1 .. 16 : i \in {1, 2, 3, 4, 5, 6, 7, 8, 9, 10, 11, 12, 13, 14, 15, 16}
      OBVIOUS
    <3> QED BY <3>1 DEF Divisor16
  <2>2. Divisor16 = [i \in 1 .. 16 |-> Divisor16[i]]
    BY DEF Divisor16
  <2> QED BY <2>1, <2>2
<1>2. Divisor16 \in Bits(16)
  BY <1>1 DEF Bits, Bit
<1> QED BY <1>1, <1>2 DEF IsDivisor

\* What is added to the register while a byte is: each of its bits with one of
\* the register, and with what was added four bits before.
Tops(t, crc, byte) ==
  /\ t \in Bits(8)
  /\ \A k \in 1 .. 4 : t[k] = Plus(crc[k], byte[k])
  /\ \A k \in 5 .. 8 : t[k] = Plus(Plus(crc[k], byte[k]), t[k - 4])

\* Where that comes to be added after k bits.
Window(t, i, k, place) == IF i + k - place \in 1 .. k THEN t[i + k - place] ELSE 0
After(crc, t, i, k) ==
  Plus(Plus(IF i + k <= 16 THEN crc[i + k] ELSE 0, Window(t, i, k, 4)),
       Plus(Window(t, i, k, 11), Window(t, i, k, 16)))

LEMMA WindowIs ==
  ASSUME NEW t \in Bits(8), NEW k \in 0 .. 8, NEW i \in 1 .. 16, NEW place \in Nat
  PROVE  Window(t, i, k, place) \in Bit
<1>1. 0 \in Bit
  BY DEF Bit
<1>2. ASSUME i + k - place \in 1 .. k PROVE t[i + k - place] \in Bit
  <2>1. i + k - place \in 1 .. 8
    BY <1>2
  <2> QED BY <2>1 DEF Bits
<1> QED BY <1>1, <1>2 DEF Window

\* The registers while the bits of a byte are fed, and what is added with each.
EightSteps(c, byte, t) ==
  /\ c \in [0 .. 8 -> Bits(16)] /\ byte \in Bits(8)
  /\ \A k \in 1 .. 8 : c[k] = Fed(c[k - 1], byte[k], Divisor16, 16)
  /\ t = [k \in 1 .. 8 |-> Plus(c[k - 1][1], byte[k])]
ShiftedBy(c, t, k) == t \in Bits(8) /\ \A i \in 1 .. 16 : c[k][i] = After(c[0], t, i, k)

LEMMA EightFed ==
  ASSUME NEW c, NEW byte, NEW t, EightSteps(c, byte, t), NEW k \in 0 .. 8
  PROVE  ShiftedBy(c, t, k)
<1> /\ c \in [0 .. 8 -> Bits(16)] /\ byte \in Bits(8)
    /\ \A j \in 1 .. 8 : c[j] = Fed(c[j - 1], byte[j], Divisor16, 16)
    /\ t = [j \in 1 .. 8 |-> Plus(c[j - 1][1], byte[j])]
  BY DEF EightSteps
<1> DEFINE Good(j) == \A i \in 1 .. 16 : c[j][i] = After(c[0], t, i, j)
           S == {j \in 0 .. 8 : Good(j)}
<1>1. \A j \in 0 .. 8, i \in 1 .. 16 : c[j][i] \in Bit
  BY DEF Bits
<1>2. t \in Bits(8) /\ \A j \in 1 .. 8 : t[j] = Plus(c[j - 1][1], byte[j])
  BY <1>1 DEF Bits, Plus, Bit
<1>3. Good(0)
  <2> SUFFICES ASSUME NEW i \in 1 .. 16 PROVE c[0][i] = After(c[0], t, i, 0)
    OBVIOUS
  <2>1. Window(t, i, 0, 4) = 0 /\ Window(t, i, 0, 11) = 0 /\ Window(t, i, 0, 16) = 0
    BY DEF Window
  <2>2. i + 0 = i /\ i <= 16 /\ c[0][i] \in Bit
    BY <1>1
  <2> QED BY <2>1, <2>2 DEF After, Plus, Bit
<1>4. ASSUME NEW j \in 1 .. 8, Good(j - 1) PROVE Good(j)
  <2> SUFFICES ASSUME NEW i \in 1 .. 16 PROVE c[j][i] = After(c[0], t, i, j)
    OBVIOUS
  <2> DEFINE base == IF i + j <= 16 THEN c[0][i + j] ELSE 0
             top == t[j]
             w4 == Window(t, i, j, 4)
             w11 == Window(t, i, j, 11)
             w16 == Window(t, i, j, 16)
  <2>1. After(c[0], t, i, j) = Plus(Plus(base, w4), Plus(w11, w16))
    BY DEF After
  <2>2. top \in Bit /\ base \in Bit /\ w4 \in Bit /\ w11 \in Bit /\ w16 \in Bit
    <3>1. base \in Bit
      <4>1. CASE i + j <= 16
        <5>1. i + j \in 1 .. 16
          BY <4>1
        <5> QED BY <1>1, <4>1, <5>1
      <4>2. CASE ~ (i + j <= 16)
        BY <4>2 DEF Bit
      <4> QED BY <4>1, <4>2
    <3>2. w4 \in Bit /\ w11 \in Bit /\ w16 \in Bit
      BY <1>2, WindowIs
    <3> QED BY <1>2, <3>1, <3>2 DEF Bits
  <2>3. c[j][i] = Plus(IF i = 16 THEN 0 ELSE c[j - 1][i + 1], IF i \in {4, 11, 16} THEN top ELSE 0)
    <3>1. c[j] = Fed(c[j - 1], byte[j], Divisor16, 16)
      OBVIOUS
    <3>2. Fed(c[j - 1], byte[j], Divisor16, 16)[i]
            = Plus(IF i = 16 THEN 0 ELSE c[j - 1][i + 1], IF Plus(c[j - 1][1], byte[j]) = 1 THEN Divisor16[i] ELSE 0)
      BY DEF Fed, Moved
    <3>3. Divisor16[i] = IF i \in {4, 11, 16} THEN 1 ELSE 0
      BY SixteenIs
    <3>4. top = Plus(c[j - 1][1], byte[j])
      BY <1>2
    <3>5. (IF top = 1 THEN Divisor16[i] ELSE 0) = IF i \in {4, 11, 16} THEN top ELSE 0
      BY <2>2, <3>3 DEF Bit
    <3> HIDE DEF top
    <3> QED BY <3>1, <3>2, <3>4, <3>5
  <2>4. \A place \in {4, 11, 16} : i # place /\ i # 16 => Window(t, i + 1, j - 1, place) = Window(t, i, j, place)
    <3> SUFFICES ASSUME NEW place \in {4, 11, 16}, i # place
                 PROVE  Window(t, i + 1, j - 1, place) = Window(t, i, j, place)
      OBVIOUS
    <3>1. (i + 1) + (j - 1) - place = i + j - place
      OBVIOUS
    <3>2. i + j - place \in 1 .. j - 1 <=> i + j - place \in 1 .. j
      OBVIOUS
    <3> QED BY <3>1, <3>2 DEF Window
  <2>5. \A place \in {4, 11, 16} : i = place => Window(t, i, j, place) = top /\ (i # 16 => Window(t, i + 1, j - 1, place) = 0)
    <3> SUFFICES ASSUME NEW place \in {4, 11, 16}, i = place
                 PROVE  Window(t, i, j, place) = top /\ Window(t, i + 1, j - 1, place) = 0
      OBVIOUS
    <3>1. (i + 1) + (j - 1) - place = j /\ i + j - place = j
      OBVIOUS
    <3>2. j \in 1 .. j /\ ~ (j \in 1 .. j - 1)
      OBVIOUS
    <3> QED BY <3>1, <3>2 DEF Window
  <2>6. CASE i = 16
    <3>1. base = 0 /\ w16 = top
      BY <2>5, <2>6
    <3>2. w4 = 0 /\ w11 = 0
      <4>1. ~ (i + j - 4 \in 1 .. j) /\ ~ (i + j - 11 \in 1 .. j)
        BY <2>6
      <4> QED BY <4>1 DEF Window
    <3>3. c[j][i] = Plus(0, top)
      BY <2>3, <2>6
    <3> HIDE DEF base, w4, w11, w16, top
    <3> QED BY <2>1, <2>2, <3>1, <3>2, <3>3 DEF Plus, Bit
  <2>7. CASE i # 16
    <3> DEFINE v4 == Window(t, i + 1, j - 1, 4)
               v11 == Window(t, i + 1, j - 1, 11)
               v16 == Window(t, i + 1, j - 1, 16)
    <3>1. i + 1 \in 1 .. 16 /\ (i + 1) + (j - 1) = i + j
      BY <2>7
    <3>2. c[j - 1][i + 1] = Plus(Plus(base, v4), Plus(v11, v16))
      <4>1. c[j - 1][i + 1] = After(c[0], t, i + 1, j - 1)
        BY <1>4, <3>1
      <4> QED BY <3>1, <4>1 DEF After
    <3>3. v16 = w16
      BY <2>4, <2>7
    <3> HIDE DEF base, top
    <3>4. CASE i = 4
      <4>1. v4 = 0 /\ w4 = top /\ v11 = w11
        BY <2>4, <2>5, <2>7, <3>4
      <4>2. c[j][i] = Plus(c[j - 1][i + 1], top)
        BY <2>3, <2>7, <3>4
      <4> HIDE DEF w4, w11, w16, v4, v11, v16
      <4> QED BY <2>1, <2>2, <3>2, <3>3, <4>1, <4>2 DEF Plus, Bit
    <3>5. CASE i = 11
      <4>1. v11 = 0 /\ w11 = top /\ v4 = w4
        BY <2>4, <2>5, <2>7, <3>5
      <4>2. c[j][i] = Plus(c[j - 1][i + 1], top)
        BY <2>3, <2>7, <3>5
      <4> HIDE DEF w4, w11, w16, v4, v11, v16
      <4> QED BY <2>1, <2>2, <3>2, <3>3, <4>1, <4>2 DEF Plus, Bit
    <3>6. CASE i # 4 /\ i # 11
      <4>1. v11 = w11 /\ v4 = w4
        BY <2>4, <2>7, <3>6
      <4>2. c[j][i] = Plus(c[j - 1][i + 1], 0)
        BY <2>3, <2>7, <3>6
      <4> HIDE DEF w4, w11, w16, v4, v11, v16
      <4> QED BY <2>1, <2>2, <3>2, <3>3, <4>1, <4>2 DEF Plus, Bit
    <3> QED BY <3>4, <3>5, <3>6
  <2> QED BY <2>6, <2>7
<1> HIDE DEF Good
<1>5. 0 \in S
  BY <1>3
<1>6. ASSUME NEW j \in 1 .. 8, j - 1 \in S PROVE j \in S
  BY <1>4, <1>6
<1> HIDE DEF S
<1>7. 0 .. 8 \subseteq S
  <2>1. 8 \in Nat
    OBVIOUS
  <2> QED BY <1>5, <1>6, <2>1, BoundedInduction
<1>8. Good(k)
  BY <1>7 DEF S
<1> QED BY <1>2, <1>8 DEF Good, ShiftedBy

LEMMA TopsAre ==
  ASSUME NEW c, NEW byte, NEW t, EightSteps(c, byte, t)
  PROVE  Tops(t, c[0], byte)
<1> /\ c \in [0 .. 8 -> Bits(16)] /\ byte \in Bits(8)
    /\ \A j \in 1 .. 8 : c[j] = Fed(c[j - 1], byte[j], Divisor16, 16)
    /\ t = [j \in 1 .. 8 |-> Plus(c[j - 1][1], byte[j])]
  BY DEF EightSteps
<1>1. t \in Bits(8)
  <2>1. 0 \in 0 .. 8
    OBVIOUS
  <2> QED BY <2>1, EightFed DEF ShiftedBy
<1>2. ASSUME NEW k \in 1 .. 8
      PROVE  t[k] = IF k <= 4 THEN Plus(c[0][k], byte[k]) ELSE Plus(Plus(c[0][k], byte[k]), t[k - 4])
  <2>1. k - 1 \in 0 .. 8 /\ 1 \in 1 .. 16 /\ 1 + (k - 1) = k /\ k <= 16 /\ k \in 1 .. 16
    OBVIOUS
  <2>2. c[k - 1][1] = After(c[0], t, 1, k - 1)
    <3>1. ShiftedBy(c, t, k - 1)
      BY <2>1, EightFed
    <3> QED BY <2>1, <3>1 DEF ShiftedBy
  <2>3. Window(t, 1, k - 1, 11) = 0 /\ Window(t, 1, k - 1, 16) = 0
    BY DEF Window
  <2>4. Window(t, 1, k - 1, 4) = IF k <= 4 THEN 0 ELSE t[k - 4]
    <3>1. 1 + (k - 1) - 4 = k - 4 /\ (k - 4 \in 1 .. k - 1 <=> ~ (k <= 4))
      OBVIOUS
    <3> QED BY <3>1 DEF Window
  <2>5. c[0][k] \in Bit /\ byte[k] \in Bit /\ (~ (k <= 4) => t[k - 4] \in Bit)
    <3>1. ~ (k <= 4) => k - 4 \in 1 .. 8
      OBVIOUS
    <3>2. c[0] \in Bits(16)
      OBVIOUS
    <3> QED BY <1>1, <2>1, <3>1, <3>2 DEF Bits
  <2>6. c[k - 1][1] = Plus(Plus(c[0][k], IF k <= 4 THEN 0 ELSE t[k - 4]), Plus(0, 0))
    BY <2>1, <2>2, <2>3, <2>4 DEF After
  <2>7. t[k] = Plus(c[k - 1][1], byte[k])
    OBVIOUS
  <2>8. CASE k <= 4
    BY <2>5, <2>6, <2>7, <2>8 DEF Plus, Bit
  <2>9. CASE ~ (k <= 4)
    BY <2>5, <2>6, <2>7, <2>9 DEF Plus, Bit
  <2> QED BY <2>8, <2>9
<1>3. \A k \in 1 .. 4 : k \in 1 .. 8 /\ k <= 4
  OBVIOUS
<1>4. \A k \in 5 .. 8 : k \in 1 .. 8 /\ ~ (k <= 4)
  OBVIOUS
<1> QED BY <1>1, <1>2, <1>3, <1>4 DEF Tops

\* The assignments of crc16 add the same.
LEMMA LowByteIs ==
  ASSUME NEW a \in Bits(16)
  PROVE  LowByte(a) \in Bits(16) /\ \A i \in 1 .. 16 : LowByte(a)[i] = IF i <= 8 THEN 0 ELSE a[i]
<1> DEFINE low == Byte(a, 2)
           z == [i \in 1 .. 8 |-> 0]
<1>1. low \in Bits(8) /\ \A i \in 1 .. 8 : low[i] = a[8 + i]
  <2>1. 16 \in Nat /\ 8 \in Nat /\ 8 + 8 <= 16 /\ 8 + 1 = 8 * 2 - 7 /\ 8 + 8 = 8 * 2
    OBVIOUS
  <2>2. SubSeq(a, 8 + 1, 8 + 8) \in Bits(8) /\ \A i \in 1 .. 8 : SubSeq(a, 8 + 1, 8 + 8)[i] = a[8 + i]
    BY <2>1, PartOfBits
  <2>3. low = SubSeq(a, 8 + 1, 8 + 8)
    BY <2>1 DEF Byte
  <2> HIDE DEF low
  <2> QED BY <2>2, <2>3
<1>2. z \in Bits(8) /\ \A i \in 1 .. 8 : z[i] = 0
  BY DEF Bits, Bit
<1>3. LowByte(a) = z \o low
  BY DEF LowByte, Zeros
<1> HIDE DEF low, z
<1>4. z \o low \in Bits(8 + 8) /\ \A i \in 1 .. 8 + 8 : (z \o low)[i] = IF i <= 8 THEN z[i] ELSE low[i - 8]
  <2>1. 8 \in Nat
    OBVIOUS
  <2> QED BY <1>1, <1>2, <2>1, JoinedBits
<1>5. 8 + 8 = 16
  OBVIOUS
<1>6. ASSUME NEW i \in 1 .. 16 PROVE (z \o low)[i] = IF i <= 8 THEN 0 ELSE a[i]
  <2>1. CASE i <= 8
    <3>1. i \in 1 .. 8
      BY <2>1
    <3> QED BY <1>2, <1>4, <1>5, <2>1, <3>1
  <2>2. CASE ~ (i <= 8)
    <3>1. i - 8 \in 1 .. 8 /\ 8 + (i - 8) = i
      BY <2>2
    <3> QED BY <1>1, <1>4, <1>5, <2>2, <3>1
  <2> QED BY <2>1, <2>2
<1> QED BY <1>3, <1>4, <1>5, <1>6

LEMMA Crc16ByteIs ==
  ASSUME NEW crc \in Bits(16), NEW byte \in Bits(8), NEW t, Tops(t, crc, byte)
  PROVE  /\ Crc16Byte(crc, byte) \in Bits(16)
         /\ \A i \in 1 .. 16 : Crc16Byte(crc, byte)[i] = After(crc, t, i, 8)
<1> DEFINE turned == Byte(crc, 2) \o Byte(crc, 1)
           z == [i \in 1 .. 8 |-> 0]
           lifted == Zeros(8) \o byte
           added == Xor(turned, lifted)
           third == Xor(added, Right(LowByte(added), 4))
           fourth == Xor(third, Left(third, 12))
           last == Xor(fourth, Left(LowByte(fourth), 5))
<1>1. Crc16Byte(crc, byte) = last
  BY DEF Crc16Byte
<1>2. 16 \in Nat /\ 8 \in Nat /\ 4 \in 0 .. 16 /\ 12 \in 0 .. 16 /\ 5 \in 0 .. 16
  OBVIOUS
<1>3. turned \in Bits(16) /\ \A i \in 1 .. 16 : turned[i] = IF i <= 8 THEN crc[i + 8] ELSE crc[i - 8]
  <2> DEFINE high == Byte(crc, 1)
             low == Byte(crc, 2)
  <2>1. low \in Bits(8) /\ \A i \in 1 .. 8 : low[i] = crc[8 + i]
    <3>1. 8 + 8 <= 16 /\ 8 + 1 = 8 * 2 - 7 /\ 8 + 8 = 8 * 2
      OBVIOUS
    <3>2. SubSeq(crc, 8 + 1, 8 + 8) \in Bits(8) /\ \A i \in 1 .. 8 : SubSeq(crc, 8 + 1, 8 + 8)[i] = crc[8 + i]
      BY <1>2, <3>1, PartOfBits
    <3>3. low = SubSeq(crc, 8 + 1, 8 + 8)
      BY <3>1 DEF Byte
    <3> HIDE DEF low
    <3> QED BY <3>2, <3>3
  <2>2. high \in Bits(8) /\ \A i \in 1 .. 8 : high[i] = crc[0 + i]
    <3>1. 0 \in Nat /\ 0 + 8 <= 16 /\ 0 + 1 = 8 * 1 - 7 /\ 0 + 8 = 8 * 1
      OBVIOUS
    <3>2. SubSeq(crc, 0 + 1, 0 + 8) \in Bits(8) /\ \A i \in 1 .. 8 : SubSeq(crc, 0 + 1, 0 + 8)[i] = crc[0 + i]
      BY <1>2, <3>1, PartOfBits
    <3>3. high = SubSeq(crc, 0 + 1, 0 + 8)
      BY <3>1 DEF Byte
    <3> HIDE DEF high
    <3> QED BY <3>2, <3>3
  <2> HIDE DEF high, low
  <2>3. low \o high \in Bits(8 + 8) /\ \A i \in 1 .. 8 + 8 : (low \o high)[i] = IF i <= 8 THEN low[i] ELSE high[i - 8]
    <3>1. 8 \in Nat /\ low \in Bits(8) /\ high \in Bits(8)
      BY <2>1, <2>2
    <3> QED BY ONLY <3>1, JoinedBits
  <2>4. 8 + 8 = 16
    OBVIOUS
  <2>5. ASSUME NEW i \in 1 .. 16 PROVE (low \o high)[i] = IF i <= 8 THEN crc[i + 8] ELSE crc[i - 8]
    <3>1. CASE i <= 8
      <4>1. i \in 1 .. 8 /\ 8 + i = i + 8
        BY <3>1
      <4> QED BY <2>1, <2>3, <2>4, <3>1, <4>1
    <3>2. CASE ~ (i <= 8)
      <4>1. i - 8 \in 1 .. 8 /\ 0 + (i - 8) = i - 8
        BY <3>2
      <4> QED BY <2>2, <2>3, <2>4, <3>2, <4>1
    <3> QED BY <3>1, <3>2
  <2> QED BY <2>3, <2>4, <2>5 DEF high, low
<1>4. lifted \in Bits(16) /\ \A i \in 1 .. 16 : lifted[i] = IF i <= 8 THEN 0 ELSE byte[i - 8]
  <2>1. z \in Bits(8) /\ \A i \in 1 .. 8 : z[i] = 0
    BY DEF Bits, Bit
  <2>2. lifted = z \o byte
    BY DEF Zeros
  <2> HIDE DEF z, lifted
  <2>3. z \o byte \in Bits(8 + 8) /\ \A i \in 1 .. 8 + 8 : (z \o byte)[i] = IF i <= 8 THEN z[i] ELSE byte[i - 8]
    BY <1>2, <2>1, JoinedBits
  <2>4. 8 + 8 = 16 /\ \A i \in 1 .. 16 : i <= 8 => i \in 1 .. 8
    OBVIOUS
  <2> QED BY <2>1, <2>2, <2>3, <2>4
<1> HIDE DEF turned, lifted
<1>5. added \in Bits(16) /\ \A i \in 1 .. 16 : added[i] = Plus(turned[i], lifted[i])
  <2>1. added = Sum2(turned, lifted, 16) /\ Sum2(turned, lifted, 16) \in Bits(16)
    BY <1>2, <1>3, <1>4, XorIs
  <2> HIDE DEF added
  <2> QED BY <2>1 DEF Sum2
<1>6. \A i \in 1 .. 16 : crc[i] \in Bit
  BY DEF Bits
<1>7. \A i \in 1 .. 8 : byte[i] \in Bit /\ t[i] \in Bit
  BY DEF Bits, Tops
<1>8. ASSUME NEW i \in 1 .. 16
      PROVE  added[i] = IF i <= 8 THEN crc[i + 8] ELSE Plus(crc[i - 8], byte[i - 8])
  <2>1. CASE i <= 8
    <3>1. turned[i] = crc[i + 8] /\ lifted[i] = 0 /\ crc[i + 8] \in Bit
      <4>1. i + 8 \in 1 .. 16
        BY <2>1
      <4> QED BY <1>3, <1>4, <1>6, <2>1, <4>1
    <3>2. added[i] = Plus(crc[i + 8], 0)
      BY <1>5, <3>1
    <3> QED BY <2>1, <3>1, <3>2 DEF Plus, Bit
  <2>2. CASE ~ (i <= 8)
    <3>1. turned[i] = crc[i - 8] /\ lifted[i] = byte[i - 8]
      BY <1>3, <1>4, <2>2
    <3>2. added[i] = Plus(turned[i], lifted[i])
      BY <1>5
    <3> QED BY <2>2, <3>1, <3>2
  <2> QED BY <2>1, <2>2
<1> HIDE DEF added
<1>9. third \in Bits(16) /\ \A i \in 1 .. 16 : third[i] = IF i <= 8 THEN crc[i + 8] ELSE t[i - 8]
  <2> DEFINE low == LowByte(added)
             right == Right(low, 4)
  <2>1. low \in Bits(16) /\ \A i \in 1 .. 16 : low[i] = IF i <= 8 THEN 0 ELSE added[i]
    BY <1>5, LowByteIs
  <2> HIDE DEF low
  <2>2. right \in Bits(16) /\ \A i \in 1 .. 16 : right[i] = IF i <= 4 THEN 0 ELSE low[i - 4]
    BY <1>2, <2>1, RightIs
  <2> HIDE DEF right
  <2>3. Xor(added, right) \in Bits(16) /\ \A i \in 1 .. 16 : Xor(added, right)[i] = Plus(added[i], right[i])
    <3>1. Xor(added, right) = Sum2(added, right, 16) /\ Sum2(added, right, 16) \in Bits(16)
      BY <1>2, <1>5, <2>2, XorIs
    <3> QED BY <3>1 DEF Sum2
  <2>4. third = Xor(added, right)
    BY DEF right, low
  <2> HIDE DEF third
  <2>5. ASSUME NEW i \in 1 .. 16 PROVE third[i] = IF i <= 8 THEN crc[i + 8] ELSE t[i - 8]
    <3>1. third[i] = Plus(added[i], right[i]) /\ added[i] \in Bit
      BY <1>5, <2>3, <2>4 DEF Bits
    <3>2. CASE i <= 12
      <4>1. right[i] = 0
        <5>1. CASE i <= 4
          BY <2>2, <5>1
        <5>2. CASE ~ (i <= 4)
          <6>1. i - 4 \in 1 .. 16 /\ i - 4 <= 8
            BY <3>2, <5>2
          <6> QED BY <2>1, <2>2, <5>2, <6>1
        <5> QED BY <5>1, <5>2
      <4>2. third[i] = added[i]
        BY <3>1, <4>1 DEF Plus, Bit
      <4>3. ~ (i <= 8) => t[i - 8] = Plus(crc[i - 8], byte[i - 8])
        <5>1. ~ (i <= 8) => i - 8 \in 1 .. 4
          BY <3>2
        <5> QED BY <5>1 DEF Tops
      <4> QED BY <1>8, <4>2, <4>3
    <3>3. CASE ~ (i <= 12)
      <4>1. i - 4 \in 1 .. 16 /\ ~ (i - 4 <= 8) /\ ~ (i <= 4) /\ ~ (i <= 8) /\ i - 4 - 8 = i - 8 - 4
            /\ i - 8 - 4 \in 1 .. 4 /\ i - 8 \in 5 .. 8
        BY <3>3
      <4>2. right[i] = added[i - 4]
        BY <2>1, <2>2, <4>1
      <4>3. added[i - 4] = Plus(crc[i - 8 - 4], byte[i - 8 - 4])
        <5>1. added[i - 4] = Plus(crc[i - 4 - 8], byte[i - 4 - 8])
          BY <1>8, <4>1
        <5> QED BY <4>1, <5>1
      <4>4. added[i - 4] = t[i - 8 - 4]
        BY <4>1, <4>3 DEF Tops
      <4>5. t[i - 8] = Plus(Plus(crc[i - 8], byte[i - 8]), t[i - 8 - 4])
        BY <4>1 DEF Tops
      <4>6. added[i] = Plus(crc[i - 8], byte[i - 8])
        BY <1>8, <4>1
      <4>7. third[i] = t[i - 8]
        BY <3>1, <4>2, <4>4, <4>5, <4>6
      <4> QED BY <4>1, <4>7
    <3> QED BY <3>2, <3>3
  <2> QED BY <2>3, <2>4, <2>5
<1> HIDE DEF third
<1>10. fourth \in Bits(16) /\ \A i \in 1 .. 16 : fourth[i] = Plus(third[i], IF i <= 4 THEN t[i + 4] ELSE 0)
  <2> DEFINE left == Left(third, 12)
  <2>1. left \in Bits(16) /\ \A i \in 1 .. 16 : left[i] = IF i + 12 <= 16 THEN third[i + 12] ELSE 0
    BY <1>2, <1>9, LeftIs
  <2> HIDE DEF left
  <2>2. fourth = Xor(third, left)
    BY DEF left
  <2>3. Xor(third, left) = Sum2(third, left, 16) /\ Sum2(third, left, 16) \in Bits(16)
    BY <1>2, <1>9, <2>1, XorIs
  <2> HIDE DEF fourth
  <2>4. ASSUME NEW i \in 1 .. 16 PROVE left[i] = IF i <= 4 THEN t[i + 4] ELSE 0
    <3>1. CASE i <= 4
      <4>1. i + 12 \in 1 .. 16 /\ i + 12 <= 16 /\ ~ (i + 12 <= 8) /\ i + 12 - 8 = i + 4
        BY <3>1
      <4>2. third[i + 12] = t[i + 12 - 8]
        BY <1>9, <4>1
      <4> QED BY <2>1, <3>1, <4>1, <4>2
    <3>2. CASE ~ (i <= 4)
      BY <2>1, <3>2
    <3> QED BY <3>1, <3>2
  <2> QED BY <2>2, <2>3, <2>4 DEF Sum2
<1> HIDE DEF fourth
<1>11. last \in Bits(16)
       /\ \A i \in 1 .. 16 : last[i] = Plus(fourth[i], IF i \in 4 .. 11 THEN t[i - 3] ELSE 0)
  <2> DEFINE low == LowByte(fourth)
             left == Left(low, 5)
  <2>1. low \in Bits(16) /\ \A i \in 1 .. 16 : low[i] = IF i <= 8 THEN 0 ELSE fourth[i]
    BY <1>10, LowByteIs
  <2> HIDE DEF low
  <2>2. left \in Bits(16) /\ \A i \in 1 .. 16 : left[i] = IF i + 5 <= 16 THEN low[i + 5] ELSE 0
    BY <1>2, <2>1, LeftIs
  <2> HIDE DEF left
  <2>3. last = Xor(fourth, left)
    BY DEF left, low
  <2>4. Xor(fourth, left) = Sum2(fourth, left, 16) /\ Sum2(fourth, left, 16) \in Bits(16)
    BY <1>2, <1>10, <2>2, XorIs
  <2> HIDE DEF last
  <2>5. ASSUME NEW i \in 1 .. 16 PROVE left[i] = IF i \in 4 .. 11 THEN t[i - 3] ELSE 0
    <3>1. CASE i \in 4 .. 11
      <4>1. i + 5 \in 1 .. 16 /\ i + 5 <= 16 /\ ~ (i + 5 <= 8) /\ ~ (i + 5 <= 4) /\ i + 5 - 8 = i - 3 /\ i - 3 \in 1 .. 8
        BY <3>1
      <4>2. third[i + 5] = t[i - 3]
        BY <1>9, <4>1
      <4>3. fourth[i + 5] = Plus(t[i - 3], 0)
        BY <1>10, <4>1, <4>2
      <4>4. fourth[i + 5] = t[i - 3]
        BY <1>7, <4>1, <4>3 DEF Plus, Bit
      <4> QED BY <2>1, <2>2, <3>1, <4>1, <4>4
    <3>2. CASE i < 4
      <4>1. i + 5 \in 1 .. 16 /\ i + 5 <= 8 /\ ~ (i \in 4 .. 11)
        BY <3>2
      <4> QED BY <2>1, <2>2, <4>1
    <3>3. CASE i > 11
      <4>1. ~ (i + 5 <= 16) /\ ~ (i \in 4 .. 11)
        BY <3>3
      <4> QED BY <2>2, <4>1
    <3> QED BY <3>1, <3>2, <3>3
  <2> QED BY <2>3, <2>4, <2>5 DEF Sum2
<1> HIDE DEF last
<1>12. ASSUME NEW i \in 1 .. 16 PROVE last[i] = After(crc, t, i, 8)
  <2> DEFINE base == IF i <= 8 THEN crc[i + 8] ELSE 0
             w4 == IF i <= 4 THEN t[i + 4] ELSE 0
             w11 == IF i \in 4 .. 11 THEN t[i - 3] ELSE 0
             w16 == IF i <= 8 THEN 0 ELSE t[i - 8]
  <2>1. base \in Bit /\ w4 \in Bit /\ w11 \in Bit /\ w16 \in Bit
    <3>1. i <= 8 => i + 8 \in 1 .. 16
      OBVIOUS
    <3>2. i <= 4 => i + 4 \in 1 .. 8
      OBVIOUS
    <3>3. i \in 4 .. 11 => i - 3 \in 1 .. 8
      OBVIOUS
    <3>4. ~ (i <= 8) => i - 8 \in 1 .. 8
      OBVIOUS
    <3>5. 0 \in Bit
      BY DEF Bit
    <3> QED BY <1>6, <1>7, <3>1, <3>2, <3>3, <3>4, <3>5
  <2>2. third[i] = Plus(base, w16)
    <3>1. third[i] = IF i <= 8 THEN crc[i + 8] ELSE t[i - 8]
      BY <1>9
    <3>2. CASE i <= 8
      <4>1. w16 = 0 /\ third[i] = base
        BY <3>1, <3>2
      <4> HIDE DEF base, w16
      <4> QED BY <2>1, <4>1 DEF Plus, Bit
    <3>3. CASE ~ (i <= 8)
      <4>1. base = 0 /\ third[i] = w16
        BY <3>1, <3>3
      <4> HIDE DEF base, w16
      <4> QED BY <2>1, <4>1 DEF Plus, Bit
    <3> QED BY <3>2, <3>3
  <2>3. last[i] = Plus(Plus(third[i], w4), w11)
    BY <1>10, <1>11
  <2>4. After(crc, t, i, 8) = Plus(Plus(base, w4), Plus(w11, w16))
    <3>1. (i + 8 <= 16 <=> i <= 8) /\ i + 8 - 4 = i + 4 /\ i + 8 - 11 = i - 3 /\ i + 8 - 16 = i - 8
      OBVIOUS
    <3>2. i + 4 \in 1 .. 8 <=> i <= 4
      OBVIOUS
    <3>3. i - 3 \in 1 .. 8 <=> i \in 4 .. 11
      OBVIOUS
    <3>4. i - 8 \in 1 .. 8 <=> ~ (i <= 8)
      OBVIOUS
    <3>5. Window(t, i, 8, 4) = w4
      BY <3>1, <3>2 DEF Window
    <3>6. Window(t, i, 8, 11) = w11
      BY <3>1, <3>3 DEF Window
    <3>7. Window(t, i, 8, 16) = w16
      BY <3>1, <3>4 DEF Window
    <3>8. (IF i + 8 <= 16 THEN crc[i + 8] ELSE 0) = base
      BY <3>1
    <3> HIDE DEF base, w4, w11, w16
    <3> QED BY <3>5, <3>6, <3>7, <3>8 DEF After
  <2> HIDE DEF base, w4, w11, w16
  <2> QED BY <2>1, <2>2, <2>3, <2>4 DEF Plus, Bit
<1> QED BY <1>1, <1>11, <1>12

\* A byte is added like its bits.
LEMMA ByteFed ==
  ASSUME NEW c \in [0 .. 8 -> Bits(16)], NEW byte \in Bits(8),
         \A k \in 1 .. 8 : c[k] = Fed(c[k - 1], byte[k], Divisor16, 16)
  PROVE  c[8] = Crc16Byte(c[0], byte)
<1> DEFINE t == [k \in 1 .. 8 |-> Plus(c[k - 1][1], byte[k])]
           next == Crc16Byte(c[0], byte)
<1>1. Tops(t, c[0], byte)
  <2> DEFINE s == t
  <2>1. s = [k \in 1 .. 8 |-> Plus(c[k - 1][1], byte[k])]
    OBVIOUS
  <2> HIDE DEF s
  <2>2. Tops(s, c[0], byte)
    <3>1. EightSteps(c, byte, s)
      BY <2>1 DEF EightSteps
    <3> QED BY <3>1, TopsAre
  <2> QED BY <2>2 DEF s
<1>2. \A i \in 1 .. 16 : c[8][i] = After(c[0], t, i, 8)
  <2> DEFINE s == t
  <2>1. s = [k \in 1 .. 8 |-> Plus(c[k - 1][1], byte[k])] /\ 8 \in 0 .. 8
    OBVIOUS
  <2> HIDE DEF s
  <2>2. \A i \in 1 .. 16 : c[8][i] = After(c[0], s, i, 8)
    <3>1. EightSteps(c, byte, s)
      BY <2>1 DEF EightSteps
    <3>2. ShiftedBy(c, s, 8)
      BY <2>1, <3>1, EightFed
    <3> QED BY <3>2 DEF ShiftedBy
  <2> QED BY <2>2 DEF s
<1> HIDE DEF t
<1>3. c[0] \in Bits(16) /\ c[8] \in Bits(16)
  OBVIOUS
<1>4. next \in Bits(16) /\ \A i \in 1 .. 16 : next[i] = After(c[0], t, i, 8)
  BY <1>1, <1>3, Crc16ByteIs
<1> HIDE DEF next
<1>5. c[8] = [i \in 1 .. 16 |-> c[8][i]] /\ next = [i \in 1 .. 16 |-> next[i]]
  BY <1>3, <1>4 DEF Bits
<1>6. \A i \in 1 .. 16 : c[8][i] = next[i]
  BY <1>2, <1>4
<1>7. c[8] = next
  BY <1>5, <1>6
<1> QED BY <1>7 DEF next

LEMMA Crc16Is ==
  ASSUME NEW bits \in Seq(Bit), NEW B \in Nat, Len(bits) = 8 * B, NEW c, Feeding(c, bits, Divisor16, 16)
  PROVE  Crc16(bits) = c[Len(bits)]
<1> DEFINE P(f) == f = [i \in 0 .. B |-> IF i = 0 THEN Zeros(16) ELSE Crc16Byte(f[i - 1], Byte(bits, i))]
           f == CHOOSE f : P(f)
           h == [i \in 0 .. B |-> c[8 * i]]
<1>1. Len(bits) \div 8 = B
  OBVIOUS
<1>2. Crc16(bits) = f[B]
  BY <1>1 DEF Crc16
<1>3. c[0] = Zeros(16) /\ c \in [0 .. 8 * B -> Bits(16)]
      /\ \A i \in 1 .. 8 * B : c[i] = Fed(c[i - 1], bits[i], Divisor16, 16)
  BY DEF Feeding, Zeros, NoBits
<1>4. ASSUME NEW i \in 1 .. B PROVE c[8 * i] = Crc16Byte(c[8 * (i - 1)], Byte(bits, i))
  <2> DEFINE m == 8 * (i - 1)
             byte == Byte(bits, i)
             e == [k \in 0 .. 8 |-> c[m + k]]
  <2>1. m \in Nat /\ m + 8 = 8 * i /\ m + 8 <= 8 * B /\ m + 1 = 8 * i - 7
    OBVIOUS
  <2>2. byte \in Bits(8) /\ \A k \in 1 .. 8 : byte[k] = bits[m + k]
    <3>1. bits \in Bits(8 * B) /\ 8 * B \in Nat /\ 8 \in Nat
      <4>1. 8 * B \in Nat /\ 8 \in Nat
        OBVIOUS
      <4> QED BY <4>1, BitsAreSeq
    <3> HIDE DEF m
    <3>2. SubSeq(bits, m + 1, m + 8) \in Bits(8) /\ \A k \in 1 .. 8 : SubSeq(bits, m + 1, m + 8)[k] = bits[m + k]
      BY <2>1, <3>1, PartOfBits
    <3>3. byte = SubSeq(bits, m + 1, m + 8)
      BY <2>1 DEF Byte
    <3> QED BY <3>2, <3>3
  <2> HIDE DEF byte, m
  <2>3. \A k \in 0 .. 8 : m + k \in 0 .. 8 * B /\ e[k] = c[m + k]
    BY <2>1
  <2>4. e \in [0 .. 8 -> Bits(16)]
    BY <1>3, <2>3
  <2>5. e[0] = c[m] /\ e[8] = c[8 * i]
    <3>1. 0 \in 0 .. 8 /\ 8 \in 0 .. 8 /\ m + 0 = m
      BY <2>1
    <3> QED BY <2>1, <2>3, <3>1
  <2> HIDE DEF e
  <2>6. ASSUME NEW k \in 1 .. 8 PROVE e[k] = Fed(e[k - 1], byte[k], Divisor16, 16)
    <3>1. k \in 0 .. 8 /\ k - 1 \in 0 .. 8 /\ m + k \in 1 .. 8 * B /\ (m + k) - 1 = m + (k - 1)
      BY <2>1
    <3>2. c[m + k] = Fed(c[(m + k) - 1], bits[m + k], Divisor16, 16)
      BY <1>3, <3>1
    <3> QED BY <2>2, <2>3, <3>1, <3>2
  <2>7. e[8] = Crc16Byte(e[0], byte)
    BY <2>2, <2>4, <2>6, ByteFed
  <2> QED BY <2>5, <2>7 DEF byte, m
<1>5. P(h)
  <2>1. ASSUME NEW i \in 0 .. B
        PROVE  h[i] = IF i = 0 THEN Zeros(16) ELSE Crc16Byte(h[i - 1], Byte(bits, i))
    <3>1. CASE i = 0
      <4>1. h[0] = c[8 * 0] /\ 8 * 0 = 0
        OBVIOUS
      <4> QED BY <1>3, <3>1, <4>1
    <3>2. CASE i # 0
      <4>1. i \in 1 .. B /\ i - 1 \in 0 .. B
        BY <3>2
      <4>2. h[i] = c[8 * i] /\ h[i - 1] = c[8 * (i - 1)]
        BY <4>1
      <4> HIDE DEF h
      <4> QED BY <1>4, <3>2, <4>1, <4>2
    <3> QED BY <3>1, <3>2
  <2>2. h = [i \in 0 .. B |-> h[i]]
    OBVIOUS
  <2> HIDE DEF h
  <2>3. h = [i \in 0 .. B |-> IF i = 0 THEN Zeros(16) ELSE Crc16Byte(h[i - 1], Byte(bits, i))]
    BY <2>1, <2>2
  <2> QED BY <2>3
<1>6. P(f)
  <2> HIDE DEF P, h
  <2> QED BY <1>5
<1>7. h[B] = c[Len(bits)]
  OBVIOUS
<1> HIDE DEF f, h
<1>8. \A i \in 0 .. B : f[i] = h[i]
  <2>1. /\ f[0] = Zeros(16) /\ \A i \in 1 .. B : f[i] = Crc16Byte(f[i - 1], Byte(bits, i))
        /\ h[0] = Zeros(16) /\ \A i \in 1 .. B : h[i] = Crc16Byte(h[i - 1], Byte(bits, i))
    BY <1>5, <1>6
  <2> DEFINE S == {i \in 0 .. B : f[i] = h[i]}
  <2>2. 0 \in S
    BY <2>1
  <2>3. ASSUME NEW i \in 1 .. B, i - 1 \in S PROVE i \in S
    BY <2>1, <2>3
  <2> HIDE DEF S
  <2>4. 0 .. B \subseteq S
    BY <2>2, <2>3, BoundedInduction
  <2> QED BY <2>4 DEF S
<1>9. f[B] = h[B]
  BY <1>8
<1> QED BY <1>2, <1>7, <1>9

-----------------------------------------------------------------------------
(* What damage does to a checksum *)

\* The registers of two messages of one length, and their sum.
Adding(t, c, a, e, b, g, n) ==
  /\ IsDivisor(g, n) /\ {a, b} \subseteq Seq(Bit) /\ Len(a) = Len(b)
  /\ Feeding(c, a, g, n) /\ Feeding(e, b, g, n)
  /\ t = [i \in 0 .. Len(a) |-> Sum2(c[i], e[i], n)]
Summed(t, a, b, g, n) ==
  /\ t \in [0 .. Len(a) -> Bits(n)] /\ t[0] = NoBits(n)
  /\ \A i \in 1 .. Len(a) : t[i] = Fed(t[i - 1], Plus(a[i], b[i]), g, n)

\* Two messages are told apart by the sum of their registers, which divides like
\* either, with the bits in which they differ.
LEMMA FeedingSum ==
  ASSUME NEW g, NEW n, NEW a, NEW b, NEW c, NEW e, NEW t, Adding(t, c, a, e, b, g, n)
  PROVE  Summed(t, a, b, g, n)
<1> DEFINE N == Len(a)
<1> /\ IsDivisor(g, n) /\ a \in Seq(Bit) /\ b \in Seq(Bit) /\ Len(a) = Len(b)
    /\ Feeding(c, a, g, n) /\ Feeding(e, b, g, n)
    /\ t = [i \in 0 .. Len(a) |-> Sum2(c[i], e[i], n)]
  BY DEF Adding
<1>1. N \in Nat /\ n \in Nat /\ \A i \in 1 .. N : a[i] \in Bit /\ b[i] \in Bit
  BY DEF IsDivisor
<1>2. \A i \in 0 .. N : c[i] \in Bits(n) /\ e[i] \in Bits(n)
  BY DEF Feeding
<1>3. \A i \in 0 .. N : t[i] = Sum2(c[i], e[i], n) /\ t[i] \in Bits(n)
  BY <1>1, <1>2, XorIs
<1>4. t[0] = NoBits(n)
  <2>1. t[0] = Sum2(NoBits(n), NoBits(n), n)
    BY <1>1, <1>3 DEF Feeding
  <2> QED BY <2>1 DEF Sum2, NoBits, Plus
<1>5. ASSUME NEW i \in 1 .. N PROVE t[i] = Fed(t[i - 1], Plus(a[i], b[i]), g, n)
  <2>1. i - 1 \in 0 .. N /\ i \in 0 .. N
    BY <1>1
  <2>2. c[i] = Fed(c[i - 1], a[i], g, n) /\ e[i] = Fed(e[i - 1], b[i], g, n)
    BY DEF Feeding
  <2>3. Fed(Sum2(c[i - 1], e[i - 1], n), Plus(a[i], b[i]), g, n)
          = Sum2(Fed(c[i - 1], a[i], g, n), Fed(e[i - 1], b[i], g, n), n)
    BY <1>1, <1>2, <2>1, FedSum
  <2> QED BY <1>3, <2>1, <2>2, <2>3
<1>6. t \in [0 .. N -> Bits(n)]
  BY <1>3
<1> QED BY <1>4, <1>5, <1>6 DEF Summed

\* A register that is not empty stays so, while nothing is added.
LEMMA StaysNonzero ==
  ASSUME NEW g, NEW n, IsDivisor(g, n), NEW r \in Bits(n), r # NoBits(n)
  PROVE  Fed(r, 0, g, n) # NoBits(n)
<1>1. n \in Nat \ {0} /\ n \in 1 .. n /\ 1 \in 1 .. n /\ g[n] = 1
  BY DEF IsDivisor
<1>2. \A i \in 1 .. n : r[i] \in Bit /\ g[i] \in Bit
  BY DEF Bits, IsDivisor
<1>3. \A i \in 1 .. n : NoBits(n)[i] = 0
  BY DEF NoBits
<1>4. \A i \in 1 .. n : Fed(r, 0, g, n)[i] = Plus(IF i = n THEN 0 ELSE r[i + 1], IF Plus(r[1], 0) = 1 THEN g[i] ELSE 0)
  BY DEF Fed, Moved
<1>5. CASE r[1] = 1
  <2>1. Fed(r, 0, g, n)[n] = 1
    BY <1>1, <1>4, <1>5 DEF Plus
  <2> QED BY <1>1, <1>3, <2>1
<1>6. CASE r[1] = 0
  <2>1. PICK i \in 1 .. n : r[i] # 0
    <3>1. r = [i \in 1 .. n |-> r[i]]
      BY DEF Bits
    <3> QED BY <3>1 DEF NoBits
  <2>2. i - 1 \in 1 .. n /\ i - 1 # n /\ (i - 1) + 1 = i
    BY <1>1, <1>6, <2>1
  <2>3. Fed(r, 0, g, n)[i - 1] = Plus(r[i], 0)
    BY <1>4, <1>6, <2>2 DEF Plus
  <2>4. Plus(r[i], 0) # 0
    BY <1>2, <2>1 DEF Plus, Bit
  <2> QED BY <1>3, <2>2, <2>3, <2>4
<1> QED BY <1>1, <1>2, <1>5, <1>6 DEF Bit

LEMMA NothingTurned ==
  ASSUME NEW g, NEW n, IsDivisor(g, n)
  PROVE  Fed(NoBits(n), 0, g, n) = NoBits(n) /\ Fed(NoBits(n), 1, g, n) = g
<1>1. n \in Nat \ {0} /\ n \in Nat /\ g \in Bits(n) /\ 1 \in 1 .. n
  BY DEF IsDivisor
<1>2. NoBits(n)[1] = 0 /\ Plus(0, 0) = 0 /\ Plus(0, 1) = 1
  BY <1>1 DEF NoBits, Plus
<1>3. ASSUME NEW i \in 1 .. n PROVE (IF i = n THEN 0 ELSE NoBits(n)[i + 1]) = 0
  BY <1>1 DEF NoBits
<1>4. Fed(NoBits(n), 0, g, n) = NoBits(n)
  <2>1. Fed(NoBits(n), 0, g, n) = [i \in 1 .. n |-> Plus(0, 0)]
    BY <1>2, <1>3 DEF Fed, Moved
  <2> QED BY <1>2, <2>1 DEF NoBits
<1>5. Fed(NoBits(n), 1, g, n) = g
  <2>1. Fed(NoBits(n), 1, g, n) = [i \in 1 .. n |-> Plus(0, g[i])]
    BY <1>2, <1>3 DEF Fed, Moved
  <2>2. ASSUME NEW i \in 1 .. n PROVE Plus(0, g[i]) = g[i]
    <3>1. g[i] \in Bit
      BY <1>1 DEF Bits
    <3> QED BY <3>1 DEF Plus, Bit
  <2>3. g = [i \in 1 .. n |-> g[i]]
    BY <1>1 DEF Bits
  <2> QED BY <2>1, <2>2, <2>3
<1> QED BY <1>4, <1>5

\* The divisor of crc7, turned up to fifteen times: the places of its ones.  It never
\* is the divisor again, and never a single bit in less than fifteen.
Turns7 ==
  << {4, 7}, {3, 6}, {2, 5}, {1, 4}, {3, 4, 7}, {2, 3, 6},
     {1, 2, 5}, {1, 7}, {4, 6, 7}, {3, 5, 6}, {2, 4, 5},
     {1, 3, 4}, {2, 3, 4, 7}, {1, 2, 3, 6}, {1, 2, 4, 5, 7}, {1, 3, 6, 7} >>
Ones(T) == [i \in 1 .. 7 |-> IF i \in T THEN 1 ELSE 0]
Turns(T, U) == \A i \in 1 .. 7 : i \in U <=> (i + 1 \in T /\ i # 7) # (1 \in T /\ i \in {4, 7})

LEMMA OnesTurned ==
  ASSUME NEW T, NEW U, Turns(T, U)
  PROVE  Fed(Ones(T), 0, Divisor7, 7) = Ones(U)
<1> DEFINE r == Ones(T)
<1>1. \A i \in 1 .. 7 : r[i] = IF i \in T THEN 1 ELSE 0
  BY DEF Ones
<1>2. ASSUME NEW i \in 1 .. 7 PROVE Fed(r, 0, Divisor7, 7)[i] = IF i \in U THEN 1 ELSE 0
  <2>1. Fed(r, 0, Divisor7, 7)[i]
          = Plus(IF i = 7 THEN 0 ELSE r[i + 1], IF Plus(r[1], 0) = 1 THEN Divisor7[i] ELSE 0)
    BY DEF Fed, Moved
  <2>2. Divisor7[i] = IF i \in {4, 7} THEN 1 ELSE 0
    BY SevenIs
  <2>3. r[1] = IF 1 \in T THEN 1 ELSE 0
    BY <1>1
  <2>4. (IF i = 7 THEN 0 ELSE r[i + 1]) = IF i + 1 \in T /\ i # 7 THEN 1 ELSE 0
    <3>1. i # 7 => i + 1 \in 1 .. 7
      OBVIOUS
    <3> QED BY <1>1, <3>1
  <2>5. (IF Plus(r[1], 0) = 1 THEN Divisor7[i] ELSE 0) = IF 1 \in T /\ i \in {4, 7} THEN 1 ELSE 0
    BY <2>2, <2>3 DEF Plus
  <2>6. i \in U <=> (i + 1 \in T /\ i # 7) # (1 \in T /\ i \in {4, 7})
    BY DEF Turns
  <2> DEFINE a == i + 1 \in T /\ i # 7
             b == 1 \in T /\ i \in {4, 7}
  <2>7. Fed(r, 0, Divisor7, 7)[i] = Plus(IF a THEN 1 ELSE 0, IF b THEN 1 ELSE 0)
    BY <2>1, <2>4, <2>5
  <2>8. (i \in U <=> a # b) /\ a \in BOOLEAN /\ b \in BOOLEAN
    BY <2>6
  <2> HIDE DEF a, b, r
  <2>9. CASE a
    BY <2>7, <2>8, <2>9 DEF Plus
  <2>10. CASE ~ a
    BY <2>7, <2>8, <2>10 DEF Plus
  <2> QED BY <2>9, <2>10
<1>3. Fed(r, 0, Divisor7, 7) = [i \in 1 .. 7 |-> Fed(r, 0, Divisor7, 7)[i]]
  BY DEF Fed, Moved
<1> QED BY <1>2, <1>3 DEF Ones

LEMMA TurnsAre ==
  /\ Ones(Turns7[1]) = Divisor7
  /\ \A k \in 1 .. 15 : Fed(Ones(Turns7[k]), 0, Divisor7, 7) = Ones(Turns7[k + 1])
  /\ \A k \in 2 .. 16 : Ones(Turns7[k]) # Divisor7
  /\ \A k \in 1 .. 15 : \E i, j \in Turns7[k] : i # j
  /\ \A k \in 1 .. 16 : Turns7[k] \subseteq 1 .. 7
<1>1. \A k \in 1 .. 16 : k \in {1, 2, 3, 4, 5, 6, 7, 8, 9, 10, 11, 12, 13, 14, 15, 16}
  OBVIOUS
<1>2. Turns7[1] = {4, 7}
  BY DEF Turns7
<1>3. Turns7[2] = {3, 6}
  BY DEF Turns7
<1>4. Turns7[3] = {2, 5}
  BY DEF Turns7
<1>5. Turns7[4] = {1, 4}
  BY DEF Turns7
<1>6. Turns7[5] = {3, 4, 7}
  BY DEF Turns7
<1>7. Turns7[6] = {2, 3, 6}
  BY DEF Turns7
<1>8. Turns7[7] = {1, 2, 5}
  BY DEF Turns7
<1>9. Turns7[8] = {1, 7}
  BY DEF Turns7
<1>10. Turns7[9] = {4, 6, 7}
  BY DEF Turns7
<1>11. Turns7[10] = {3, 5, 6}
  BY DEF Turns7
<1>12. Turns7[11] = {2, 4, 5}
  BY DEF Turns7
<1>13. Turns7[12] = {1, 3, 4}
  BY DEF Turns7
<1>14. Turns7[13] = {2, 3, 4, 7}
  BY DEF Turns7
<1>15. Turns7[14] = {1, 2, 3, 6}
  BY DEF Turns7
<1>16. Turns7[15] = {1, 2, 4, 5, 7}
  BY DEF Turns7
<1>17. Turns7[16] = {1, 3, 6, 7}
  BY DEF Turns7
<1>18. \A i \in 1 .. 7 : i \in {1, 2, 3, 4, 5, 6, 7}
  OBVIOUS
<1>19. ASSUME NEW k \in 1 .. 15 PROVE Fed(Ones(Turns7[k]), 0, Divisor7, 7) = Ones(Turns7[k + 1])
  <2>1. Turns(Turns7[1], Turns7[2])
    BY <1>2, <1>3, <1>18 DEF Turns
  <2>2. Turns(Turns7[2], Turns7[3])
    BY <1>3, <1>4, <1>18 DEF Turns
  <2>3. Turns(Turns7[3], Turns7[4])
    BY <1>4, <1>5, <1>18 DEF Turns
  <2>4. Turns(Turns7[4], Turns7[5])
    BY <1>5, <1>6, <1>18 DEF Turns
  <2>5. Turns(Turns7[5], Turns7[6])
    BY <1>6, <1>7, <1>18 DEF Turns
  <2>6. Turns(Turns7[6], Turns7[7])
    BY <1>7, <1>8, <1>18 DEF Turns
  <2>7. Turns(Turns7[7], Turns7[8])
    BY <1>8, <1>9, <1>18 DEF Turns
  <2>8. Turns(Turns7[8], Turns7[9])
    BY <1>9, <1>10, <1>18 DEF Turns
  <2>9. Turns(Turns7[9], Turns7[10])
    BY <1>10, <1>11, <1>18 DEF Turns
  <2>10. Turns(Turns7[10], Turns7[11])
    BY <1>11, <1>12, <1>18 DEF Turns
  <2>11. Turns(Turns7[11], Turns7[12])
    BY <1>12, <1>13, <1>18 DEF Turns
  <2>12. Turns(Turns7[12], Turns7[13])
    BY <1>13, <1>14, <1>18 DEF Turns
  <2>13. Turns(Turns7[13], Turns7[14])
    BY <1>14, <1>15, <1>18 DEF Turns
  <2>14. Turns(Turns7[14], Turns7[15])
    BY <1>15, <1>16, <1>18 DEF Turns
  <2>15. Turns(Turns7[15], Turns7[16])
    BY <1>16, <1>17, <1>18 DEF Turns
  <2>16. Turns(Turns7[k], Turns7[k + 1])
    BY <1>1, <2>1, <2>2, <2>3, <2>4, <2>5, <2>6, <2>7, <2>8, <2>9, <2>10, <2>11, <2>12, <2>13, <2>14, <2>15
  <2> QED BY <2>16, OnesTurned
<1>20. ASSUME NEW k \in 2 .. 16 PROVE Ones(Turns7[k]) # Divisor7
  <2>1. 3 \in 1 .. 7 /\ (3 \in Turns7[2]) # (3 \in {4, 7})
    BY <1>3
  <2>2. 2 \in 1 .. 7 /\ (2 \in Turns7[3]) # (2 \in {4, 7})
    BY <1>4
  <2>3. 1 \in 1 .. 7 /\ (1 \in Turns7[4]) # (1 \in {4, 7})
    BY <1>5
  <2>4. 3 \in 1 .. 7 /\ (3 \in Turns7[5]) # (3 \in {4, 7})
    BY <1>6
  <2>5. 2 \in 1 .. 7 /\ (2 \in Turns7[6]) # (2 \in {4, 7})
    BY <1>7
  <2>6. 1 \in 1 .. 7 /\ (1 \in Turns7[7]) # (1 \in {4, 7})
    BY <1>8
  <2>7. 1 \in 1 .. 7 /\ (1 \in Turns7[8]) # (1 \in {4, 7})
    BY <1>9
  <2>8. 6 \in 1 .. 7 /\ (6 \in Turns7[9]) # (6 \in {4, 7})
    BY <1>10
  <2>9. 3 \in 1 .. 7 /\ (3 \in Turns7[10]) # (3 \in {4, 7})
    BY <1>11
  <2>10. 2 \in 1 .. 7 /\ (2 \in Turns7[11]) # (2 \in {4, 7})
    BY <1>12
  <2>11. 1 \in 1 .. 7 /\ (1 \in Turns7[12]) # (1 \in {4, 7})
    BY <1>13
  <2>12. 2 \in 1 .. 7 /\ (2 \in Turns7[13]) # (2 \in {4, 7})
    BY <1>14
  <2>13. 1 \in 1 .. 7 /\ (1 \in Turns7[14]) # (1 \in {4, 7})
    BY <1>15
  <2>14. 1 \in 1 .. 7 /\ (1 \in Turns7[15]) # (1 \in {4, 7})
    BY <1>16
  <2>15. 1 \in 1 .. 7 /\ (1 \in Turns7[16]) # (1 \in {4, 7})
    BY <1>17
  <2>16. \E i \in 1 .. 7 : (i \in Turns7[k]) # (i \in {4, 7})
    BY <1>1, <2>1, <2>2, <2>3, <2>4, <2>5, <2>6, <2>7, <2>8, <2>9, <2>10, <2>11, <2>12, <2>13, <2>14, <2>15
  <2> QED BY <2>16, SevenIs DEF Ones
<1>21. ASSUME NEW k \in 1 .. 15 PROVE \E i, j \in Turns7[k] : i # j
  <2>1. 4 \in Turns7[1] /\ 7 \in Turns7[1]
    BY <1>2
  <2>2. 3 \in Turns7[2] /\ 6 \in Turns7[2]
    BY <1>3
  <2>3. 2 \in Turns7[3] /\ 5 \in Turns7[3]
    BY <1>4
  <2>4. 1 \in Turns7[4] /\ 4 \in Turns7[4]
    BY <1>5
  <2>5. 3 \in Turns7[5] /\ 4 \in Turns7[5]
    BY <1>6
  <2>6. 2 \in Turns7[6] /\ 3 \in Turns7[6]
    BY <1>7
  <2>7. 1 \in Turns7[7] /\ 2 \in Turns7[7]
    BY <1>8
  <2>8. 1 \in Turns7[8] /\ 7 \in Turns7[8]
    BY <1>9
  <2>9. 4 \in Turns7[9] /\ 6 \in Turns7[9]
    BY <1>10
  <2>10. 3 \in Turns7[10] /\ 5 \in Turns7[10]
    BY <1>11
  <2>11. 2 \in Turns7[11] /\ 4 \in Turns7[11]
    BY <1>12
  <2>12. 1 \in Turns7[12] /\ 3 \in Turns7[12]
    BY <1>13
  <2>13. 2 \in Turns7[13] /\ 3 \in Turns7[13]
    BY <1>14
  <2>14. 1 \in Turns7[14] /\ 2 \in Turns7[14]
    BY <1>15
  <2>15. 1 \in Turns7[15] /\ 2 \in Turns7[15]
    BY <1>16
  <2> QED BY <1>1, <2>1, <2>2, <2>3, <2>4, <2>5, <2>6, <2>7, <2>8, <2>9, <2>10, <2>11, <2>12, <2>13, <2>14, <2>15
<1>22. \A k \in 1 .. 16 : Turns7[k] \subseteq 1 .. 7
  BY <1>1, <1>2, <1>3, <1>4, <1>5, <1>6, <1>7, <1>8, <1>9, <1>10, <1>11, <1>12, <1>13, <1>14, <1>15, <1>16, <1>17
<1>23. Ones(Turns7[1]) = Divisor7
  BY <1>2, SevenIs DEF Ones
<1> QED BY <1>19, <1>20, <1>21, <1>22, <1>23

LEMMA OnesAre ==
  ASSUME NEW T PROVE Ones(T) \in Bits(7)
BY DEF Ones, Bits, Bit

\* The register that tells messages apart in which one or two bits differ.
Telling(t, N, p, q) ==
  /\ t \in [0 .. N -> Bits(7)] /\ t[0] = NoBits(7)
  /\ \A i \in 1 .. N : t[i] = Fed(t[i - 1], IF i \in {p, q} THEN 1 ELSE 0, Divisor7, 7)

LEMMA StaysTold ==
  ASSUME NEW N \in Nat, NEW p \in Nat, NEW q \in Nat, NEW t, Telling(t, N, p, q),
         NEW m \in 0 .. N, t[m] # NoBits(7), \A i \in m + 1 .. N : i \notin {p, q}
  PROVE  t[N] # NoBits(7)
<1> DEFINE S == {j \in 0 .. N - m : t[m + j] # NoBits(7)}
<1>1. N - m \in Nat
  OBVIOUS
<1>2. 0 \in S
  OBVIOUS
<1>3. ASSUME NEW j \in 1 .. N - m, j - 1 \in S PROVE j \in S
  <2>1. m + j \in 1 .. N /\ m + j \in m + 1 .. N /\ (m + j) - 1 = m + (j - 1) /\ (m + j) - 1 \in 0 .. N
    OBVIOUS
  <2>2. t[m + j] = Fed(t[(m + j) - 1], 0, Divisor7, 7)
    <3>1. m + j \notin {p, q}
      BY <2>1
    <3>2. t[m + j] = Fed(t[(m + j) - 1], IF m + j \in {p, q} THEN 1 ELSE 0, Divisor7, 7)
      BY <2>1 DEF Telling
    <3> QED BY <3>1, <3>2
  <2>3. t[(m + j) - 1] \in Bits(7) /\ t[(m + j) - 1] # NoBits(7)
    BY <1>3, <2>1 DEF Telling
  <2>4. Fed(t[(m + j) - 1], 0, Divisor7, 7) # NoBits(7)
    BY <2>3, SevenIs, StaysNonzero
  <2> QED BY <2>2, <2>4
<1> HIDE DEF S
<1>4. 0 .. N - m \subseteq S
  BY <1>1, <1>2, <1>3, BoundedInduction
<1>5. N - m \in S /\ m + (N - m) = N
  BY <1>1, <1>4
<1> QED BY <1>5 DEF S

\* Two bits that are no more than sixteen apart are told, and so are one in the
\* message and one in the checksum: no single bit of it makes up for the other.
LEMMA DamageTold ==
  ASSUME NEW N \in Nat, NEW p \in 1 .. N, NEW q \in Nat, q - p \in 0 .. 15, NEW t, Telling(t, N, p, q)
  PROVE  /\ p = q \/ q <= N => t[N] # NoBits(7)
         /\ q > N => \E i, j \in 1 .. 7 : i # j /\ t[N][i] = 1 /\ t[N][j] = 1
<1>1. ASSUME NEW i \in 0 .. p - 1 PROVE t[i] = NoBits(7)
  <2> DEFINE S == {j \in 0 .. p - 1 : t[j] = NoBits(7)}
  <2>1. p - 1 \in Nat
    OBVIOUS
  <2>2. 0 \in S
    BY DEF Telling
  <2>3. ASSUME NEW j \in 1 .. p - 1, j - 1 \in S PROVE j \in S
    <3>1. j \in 1 .. N /\ j \notin {p, q} /\ t[j - 1] = NoBits(7)
      BY <2>3
    <3>2. t[j] = Fed(t[j - 1], IF j \in {p, q} THEN 1 ELSE 0, Divisor7, 7)
      BY <3>1 DEF Telling
    <3>3. Fed(NoBits(7), 0, Divisor7, 7) = NoBits(7)
      BY SevenIs, NothingTurned
    <3> QED BY <3>1, <3>2, <3>3
  <2> HIDE DEF S
  <2>4. 0 .. p - 1 \subseteq S
    BY <2>1, <2>2, <2>3, BoundedInduction
  <2> QED BY <2>4 DEF S
<1>2. t[p] = Divisor7
  <2>1. t[p - 1] = NoBits(7)
    <3>1. p - 1 \in 0 .. p - 1
      OBVIOUS
    <3> QED BY <1>1, <3>1
  <2>2. t[p] = Fed(t[p - 1], IF p \in {p, q} THEN 1 ELSE 0, Divisor7, 7)
    BY DEF Telling
  <2>3. Fed(NoBits(7), 1, Divisor7, 7) = Divisor7
    BY SevenIs, NothingTurned
  <2> QED BY <2>1, <2>2, <2>3
<1>3. Divisor7 # NoBits(7)
  <2>1. 7 \in 1 .. 7 /\ Divisor7[7] = 1 /\ NoBits(7)[7] = 0
    BY SevenIs DEF NoBits
  <2> QED BY <2>1
<1>4. ASSUME p = q PROVE t[N] # NoBits(7)
  <2>1. p \in 0 .. N /\ t[p] # NoBits(7) /\ \A i \in p + 1 .. N : i \notin {p, q}
    BY <1>2, <1>3, <1>4
  <2> QED BY <2>1, StaysTold
<1>5. ASSUME NEW j \in 0 .. 15, p + j < q, p + j <= N PROVE t[p + j] = Ones(Turns7[j + 1])
  <2> DEFINE S == {k \in 0 .. j : t[p + k] = Ones(Turns7[k + 1])}
  <2>1. 0 \in S
    <3>1. p + 0 = p /\ 0 + 1 = 1
      OBVIOUS
    <3> QED BY <1>2, <3>1, TurnsAre
  <2>2. ASSUME NEW k \in 1 .. j, k - 1 \in S PROVE k \in S
    <3>1. p + k \in 1 .. N /\ p + k \notin {p, q} /\ (p + k) - 1 = p + (k - 1) /\ (k - 1) + 1 = k /\ k \in 1 .. 15
      BY <1>5
    <3>2. t[p + k] = Fed(t[(p + k) - 1], 0, Divisor7, 7)
      <4>1. t[p + k] = Fed(t[(p + k) - 1], IF p + k \in {p, q} THEN 1 ELSE 0, Divisor7, 7)
        BY <3>1 DEF Telling
      <4> QED BY <3>1, <4>1
    <3>3. t[(p + k) - 1] = Ones(Turns7[k])
      BY <2>2, <3>1
    <3>4. Fed(Ones(Turns7[k]), 0, Divisor7, 7) = Ones(Turns7[k + 1])
      BY <3>1, TurnsAre
    <3> QED BY <3>2, <3>3, <3>4
  <2> HIDE DEF S
  <2>3. 0 .. j \subseteq S
    BY <2>1, <2>2, BoundedInduction
  <2>4. j \in S
    BY <2>3
  <2> QED BY <2>4 DEF S
<1>6. ASSUME q <= N, p # q PROVE t[N] # NoBits(7)
  <2> DEFINE j == (q - 1) - p
  <2>1. j \in 0 .. 14 /\ j \in 0 .. 15 /\ p + j < q /\ p + j <= N /\ p + j = q - 1 /\ j + 1 \in 1 .. 15
        /\ (j + 1) + 1 \in 2 .. 16 /\ q \in 1 .. N
    BY <1>6
  <2> HIDE DEF j
  <2>2. t[q - 1] = Ones(Turns7[j + 1])
    BY <1>5, <2>1
  <2> DEFINE r == Ones(Turns7[(j + 1) + 1])
  <2>3. Fed(t[q - 1], 0, Divisor7, 7) = r
    BY <2>1, <2>2, TurnsAre
  <2>4. t[q] = Sum2(r, Divisor7, 7)
    <3>1. t[q] = Fed(t[q - 1], IF q \in {p, q} THEN 1 ELSE 0, Divisor7, 7)
      BY <2>1 DEF Telling
    <3>2. t[q - 1] \in Bits(7)
      BY <2>2, OnesAre
    <3>3. Fed(t[q - 1], 1, Divisor7, 7) = Sum2(Fed(t[q - 1], 0, Divisor7, 7), Divisor7, 7)
      BY <3>2, SevenIs, LowBit
    <3> QED BY <2>3, <3>1, <3>3
  <2>5. r # Divisor7 /\ r \in Bits(7)
    BY <2>1, TurnsAre, OnesAre
  <2> HIDE DEF r
  <2>6. PICK i \in 1 .. 7 : r[i] # Divisor7[i]
    <3>1. r = [i \in 1 .. 7 |-> r[i]] /\ Divisor7 = [i \in 1 .. 7 |-> Divisor7[i]]
      BY <2>5, SevenIs DEF Bits, IsDivisor
    <3> QED BY <2>5, <3>1
  <2>7. t[q][i] = 1 /\ NoBits(7)[i] = 0
    BY <2>4, <2>6 DEF Sum2, Plus, NoBits
  <2>8. q \in 0 .. N /\ t[q] # NoBits(7) /\ \A k \in q + 1 .. N : k \notin {p, q}
    BY <2>1, <2>7
  <2> QED BY <2>8, StaysTold
<1>7. ASSUME q > N PROVE \E i, j \in 1 .. 7 : i # j /\ t[N][i] = 1 /\ t[N][j] = 1
  <2> DEFINE k == N - p
  <2>1. k \in 0 .. 15 /\ p + k < q /\ p + k <= N /\ p + k = N /\ k + 1 \in 1 .. 15
    BY <1>7
  <2> HIDE DEF k
  <2>2. t[N] = Ones(Turns7[k + 1])
    BY <1>5, <2>1
  <2>3. PICK i, j \in Turns7[k + 1] : i # j
    BY <2>1, TurnsAre
  <2>4. i \in 1 .. 7 /\ j \in 1 .. 7
    <3>1. k + 1 \in 1 .. 16
      BY <2>1
    <3> QED BY <2>3, <3>1, TurnsAre
  <2>5. t[N][i] = 1 /\ t[N][j] = 1
    BY <2>2, <2>3, <2>4 DEF Ones
  <2> QED BY <2>3, <2>4, <2>5
<1> QED BY <1>4, <1>6, <1>7

-----------------------------------------------------------------------------
(* The register of a card, sent and damaged *)

LEMMA WidthsAre ==
  /\ DataBits \in Nat /\ DataBits >= 3 /\ \E B \in Nat : DataBits = 8 * B
  /\ {BlockBits, UnitBits, WordBits} \subseteq Nat
<1>1. DataBits \in Nat /\ DataBits % 8 = 0 /\ {BlockBits, UnitBits, WordBits} \subseteq Nat
  BY RegisterAssumption
<1>2. DataBits >= 3
  <2>1. MultField \in (3 .. DataBits) \X (3 .. DataBits)
    BY RegisterAssumption
  <2>2. MultField[1] \in 3 .. DataBits
    BY <2>1
  <2> QED BY <1>1, <2>2
<1>3. DataBits = 8 * (DataBits \div 8) /\ DataBits \div 8 \in Nat
  BY <1>1
<1> QED BY <1>1, <1>2, <1>3

\* A register of a card with its checksums: what is at which place.
LEMMA SentIs ==
  ASSUME NEW bits \in Bits(DataBits)
  PROVE  /\ Register(bits) \in Bits(DataBits + 8) /\ Sent(bits) \in Bits(DataBits + 24)
         /\ \A i \in 1 .. DataBits : Register(bits)[i] = bits[i]
         /\ Crc7(bits) \in Bits(7) /\ \A i \in 1 .. 7 : Register(bits)[DataBits + i] = Crc7(bits)[i]
         /\ \A i \in 1 .. DataBits + 8 : Sent(bits)[i] = Register(bits)[i]
         /\ Crc16(Register(bits)) \in Bits(16)
         /\ \A i \in 1 .. 16 : Sent(bits)[DataBits + 8 + i] = Crc16(Register(bits))[i]
<1> DEFINE N == DataBits
           rem == Remainder(bits, Divisor7)
           one == <<1>>
           reg == Register(bits)
           sum == Remainder(reg, Divisor16)
<1>1. N \in Nat /\ N + 7 \in Nat /\ N + 8 \in Nat /\ 1 \in Nat /\ 7 \in Nat /\ 16 \in Nat
      /\ (N + 7) + 1 = N + 8 /\ (N + 8) + 16 = N + 24
  BY WidthsAre
<1>2. bits \in Seq(Bit) /\ Len(bits) = N
  BY <1>1, BitsAreSeq
<1>3. PICK c : Feeding(c, bits, Divisor7, 7)
  BY <1>2, SevenIs, FeedingExists
<1>4. rem = Crc7(bits) /\ rem \in Bits(7)
  <2>1. Crc7(bits) = c[Len(bits)]
    BY <1>2, <1>3, Crc7Is
  <2>2. rem = c[Len(bits)]
    BY <1>2, <1>3, SevenIs, RemainderIs
  <2>3. c[Len(bits)] \in Bits(7)
    BY <1>1, <1>2, <1>3 DEF Feeding
  <2> HIDE DEF rem
  <2> QED BY <2>1, <2>2, <2>3
<1>5. one \in Bits(1)
  BY DEF Bits, Bit
<1>6. reg = (bits \o rem) \o one
  BY DEF Register
<1> HIDE DEF rem, one, reg, N
<1>7. bits \o rem \in Bits(N + 7) /\ \A i \in 1 .. N + 7 : (bits \o rem)[i] = IF i <= N THEN bits[i] ELSE rem[i - N]
  BY <1>1, <1>4, JoinedBits DEF N
<1> DEFINE both == bits \o rem
<1>8. reg \in Bits(N + 8) /\ \A i \in 1 .. N + 8 : reg[i] = IF i <= N + 7 THEN both[i] ELSE one[i - (N + 7)]
  <2> HIDE DEF both
  <2>1. both \o one \in Bits((N + 7) + 1)
        /\ \A i \in 1 .. (N + 7) + 1 : (both \o one)[i] = IF i <= N + 7 THEN both[i] ELSE one[i - (N + 7)]
    <3>1. both \in Bits(N + 7)
      BY <1>7 DEF both
    <3> QED BY <1>1, <1>5, <3>1, JoinedBits
  <2>2. reg = both \o one
    BY <1>6 DEF both
  <2> QED BY <1>1, <2>1, <2>2
<1>9. \A i \in 1 .. N : reg[i] = bits[i]
  <2>1. \A i \in 1 .. N : i \in 1 .. N + 7 /\ i \in 1 .. N + 8 /\ i <= N + 7 /\ i <= N
    BY <1>1
  <2> QED BY <1>7, <1>8, <2>1
<1>10. \A i \in 1 .. 7 : reg[N + i] = rem[i]
  <2>1. \A i \in 1 .. 7 : N + i \in 1 .. N + 7 /\ N + i \in 1 .. N + 8 /\ N + i <= N + 7 /\ ~ (N + i <= N) /\ (N + i) - N = i
    BY <1>1
  <2> QED BY <1>7, <1>8, <2>1
<1>11. reg \in Seq(Bit) /\ Len(reg) = N + 8
  BY <1>1, <1>8, BitsAreSeq
<1>12. PICK e : Feeding(e, reg, Divisor16, 16)
  BY <1>11, SixteenIs, FeedingExists
<1>13. sum = Crc16(reg) /\ sum \in Bits(16)
  <2>1. Crc16(reg) = e[Len(reg)]
    <3>1. PICK B \in Nat : N = 8 * B
      BY WidthsAre DEF N
    <3>2. B + 1 \in Nat /\ Len(reg) = 8 * (B + 1)
      BY <1>11, <3>1
    <3> QED BY <1>11, <1>12, <3>2, Crc16Is
  <2>2. sum = e[Len(reg)]
    BY <1>11, <1>12, SixteenIs, RemainderIs
  <2>3. e[Len(reg)] \in Bits(16)
    BY <1>1, <1>11, <1>12 DEF Feeding
  <2> HIDE DEF sum
  <2> QED BY <2>1, <2>2, <2>3
<1>14. Sent(bits) = reg \o sum
  BY DEF Sent, reg
<1> HIDE DEF sum
<1>15. reg \o sum \in Bits((N + 8) + 16)
       /\ \A i \in 1 .. (N + 8) + 16 : (reg \o sum)[i] = IF i <= N + 8 THEN reg[i] ELSE sum[i - (N + 8)]
  BY <1>1, <1>8, <1>13, JoinedBits
<1>16. \A i \in 1 .. N + 8 : (reg \o sum)[i] = reg[i]
  <2>1. \A i \in 1 .. N + 8 : i \in 1 .. (N + 8) + 16 /\ i <= N + 8
    BY <1>1
  <2> QED BY <1>15, <2>1
<1>17. \A i \in 1 .. 16 : (reg \o sum)[N + 8 + i] = sum[i]
  <2>1. \A i \in 1 .. 16 : N + 8 + i \in 1 .. (N + 8) + 16 /\ ~ (N + 8 + i <= N + 8) /\ (N + 8 + i) - (N + 8) = i
    BY <1>1
  <2> QED BY <1>15, <2>1
<1> QED BY <1>1, <1>4, <1>8, <1>9, <1>10, <1>13, <1>14, <1>15, <1>16, <1>17 DEF N, reg

\* What read_data takes from the line: the register, and the checksum behind it.
DataOf(s) == SubSeq(s, 1, DataBits + 8)
SumOf(s) == SubSeq(s, DataBits + 9, DataBits + 24)

LEMMA TakenIs ==
  ASSUME NEW s \in Bits(DataBits + 24)
  PROVE  /\ DataOf(s) \in Bits(DataBits + 8) /\ \A i \in 1 .. DataBits + 8 : DataOf(s)[i] = s[i]
         /\ SumOf(s) \in Bits(16) /\ \A i \in 1 .. 16 : SumOf(s)[i] = s[DataBits + 8 + i]
<1> DEFINE n == DataBits + 24
           m == DataBits + 8
<1>1. DataBits \in Nat
  BY WidthsAre
<1>2. n \in Nat /\ m \in Nat /\ 0 \in Nat /\ 16 \in Nat /\ 0 + m <= n /\ m + 16 <= n /\ m + 16 = n
      /\ 0 + 1 = 1 /\ 0 + m = m /\ m + 1 = DataBits + 9
  BY <1>1
<1>3. SubSeq(s, 0 + 1, 0 + m) \in Bits(m) /\ \A i \in 1 .. m : SubSeq(s, 0 + 1, 0 + m)[i] = s[0 + i]
  <2> HIDE DEF m
  <2> QED BY <1>2, PartOfBits
<1>4. SubSeq(s, m + 1, m + 16) \in Bits(16) /\ \A i \in 1 .. 16 : SubSeq(s, m + 1, m + 16)[i] = s[m + i]
  <2> HIDE DEF m
  <2> QED BY <1>2, PartOfBits
<1>5. DataOf(s) = SubSeq(s, 0 + 1, 0 + m) /\ SumOf(s) = SubSeq(s, m + 1, m + 16)
  BY <1>2 DEF DataOf, SumOf
<1>6. \A i \in 1 .. m : 0 + i = i
  BY <1>1
<1> HIDE DEF n
<1> QED BY <1>3, <1>4, <1>5, <1>6

\* A register without its checksum, and the checksum.
LEMMA PartsAre ==
  ASSUME NEW raw \in Bits(DataBits + 8)
  PROVE  /\ SubSeq(raw, 1, DataBits) \in Bits(DataBits)
         /\ \A i \in 1 .. DataBits : SubSeq(raw, 1, DataBits)[i] = raw[i]
         /\ SubSeq(raw, DataBits + 1, DataBits + 7) \in Bits(7)
         /\ \A i \in 1 .. 7 : SubSeq(raw, DataBits + 1, DataBits + 7)[i] = raw[DataBits + i]
<1> DEFINE n == DataBits + 8
           m == DataBits
<1>1. m \in Nat
  BY WidthsAre
<1>2. n \in Nat /\ 0 \in Nat /\ 7 \in Nat /\ 0 + m <= n /\ m + 7 <= n /\ 0 + 1 = 1 /\ 0 + m = m
  BY <1>1
<1>3. SubSeq(raw, 0 + 1, 0 + m) \in Bits(m) /\ \A i \in 1 .. m : SubSeq(raw, 0 + 1, 0 + m)[i] = raw[0 + i]
  BY <1>1, <1>2, PartOfBits
<1>4. SubSeq(raw, m + 1, m + 7) \in Bits(7) /\ \A i \in 1 .. 7 : SubSeq(raw, m + 1, m + 7)[i] = raw[m + i]
  BY <1>1, <1>2, PartOfBits
<1>5. \A i \in 1 .. m : 0 + i = i
  BY <1>1
<1> QED BY <1>2, <1>3, <1>4, <1>5

\* A register that comes as it was sent is accepted.
LEMMA UndamagedIs ==
  ASSUME NEW bits \in Bits(DataBits), VersionOf(bits) # "invalid", NEW useCrc \in BOOLEAN
  PROVE  /\ ReadCsd(DataOf(Sent(bits)), SumOf(Sent(bits)), useCrc)
         /\ DataOf(Sent(bits)) \in Bits(DataBits + 8)
         /\ \A i \in 1 .. DataBits : DataOf(Sent(bits))[i] = bits[i]
<1> DEFINE reg == Register(bits)
           data == DataOf(Sent(bits))
           sum == SumOf(Sent(bits))
           seven == SubSeq(reg, DataBits + 1, DataBits + 7)
           rest == SubSeq(reg, 1, DataBits)
<1>1. DataBits \in Nat /\ DataBits >= 3
  BY WidthsAre
<1>2. Sent(bits) \in Bits(DataBits + 24) /\ reg \in Bits(DataBits + 8)
  BY SentIs
<1>3. data = reg
  <2>1. data \in Bits(DataBits + 8) /\ \A i \in 1 .. DataBits + 8 : data[i] = reg[i]
    BY <1>2, SentIs, TakenIs
  <2> HIDE DEF data, reg
  <2>2. data = [i \in 1 .. DataBits + 8 |-> data[i]] /\ reg = [i \in 1 .. DataBits + 8 |-> reg[i]]
    BY <1>2, <2>1 DEF Bits
  <2> QED BY <2>1, <2>2
<1>4. sum = Crc16(reg)
  <2> DEFINE crc == Crc16(reg)
  <2>1. sum \in Bits(16) /\ crc \in Bits(16) /\ \A i \in 1 .. 16 : sum[i] = crc[i]
    BY <1>2, SentIs, TakenIs
  <2> HIDE DEF sum, crc
  <2>2. sum = [i \in 1 .. 16 |-> sum[i]] /\ crc = [i \in 1 .. 16 |-> crc[i]]
    BY <2>1 DEF Bits
  <2>3. sum = crc
    BY <2>1, <2>2
  <2> QED BY <2>3 DEF crc
<1>5. \A i \in 1 .. DataBits : reg[i] = bits[i]
  BY SentIs
<1>6. rest = bits
  <2>1. rest \in Bits(DataBits) /\ \A i \in 1 .. DataBits : rest[i] = bits[i]
    BY <1>2, <1>5, PartsAre
  <2> HIDE DEF rest
  <2>2. rest = [i \in 1 .. DataBits |-> rest[i]] /\ bits = [i \in 1 .. DataBits |-> bits[i]]
    BY <2>1 DEF Bits
  <2> QED BY <2>1, <2>2
<1>7. seven = Crc7(bits)
  <2> DEFINE crc == Crc7(bits)
  <2>1. seven \in Bits(7) /\ crc \in Bits(7) /\ \A i \in 1 .. 7 : seven[i] = crc[i]
    <3>1. crc \in Bits(7) /\ \A i \in 1 .. 7 : reg[DataBits + i] = crc[i]
      BY SentIs
    <3> HIDE DEF reg, crc
    <3>2. seven \in Bits(7) /\ \A i \in 1 .. 7 : seven[i] = reg[DataBits + i]
      BY <1>2, PartsAre
    <3> HIDE DEF seven
    <3> QED BY <3>1, <3>2
  <2> HIDE DEF seven, crc
  <2>2. seven = [i \in 1 .. 7 |-> seven[i]] /\ crc = [i \in 1 .. 7 |-> crc[i]]
    BY <2>1 DEF Bits
  <2>3. seven = crc
    BY <2>1, <2>2
  <2> QED BY <2>3 DEF crc
<1>8. VersionOf(reg) = VersionOf(bits)
  <2>1. 1 \in 1 .. DataBits /\ 2 \in 1 .. DataBits
    BY <1>1
  <2>2. reg[1] = bits[1] /\ reg[2] = bits[2]
    BY <1>5, <2>1
  <2> HIDE DEF reg
  <2> QED BY <2>2 DEF VersionOf
<1> HIDE DEF reg, data, sum
<1>9. IsCsd(reg)
  BY <1>6, <1>7, <1>8 DEF IsCsd, VerifyCrc7
<1>10. ReadCsd(data, sum, useCrc)
  BY <1>3, <1>4, <1>9 DEF ReadCsd, CrcMatches
<1>11. data \in Bits(DataBits + 8) /\ \A i \in 1 .. DataBits : data[i] = bits[i]
  BY <1>2, <1>3, <1>5
<1> QED BY <1>10, <1>11 DEF data, sum

\* One that is accepted has not been damaged before its checksum.
LEMMA DamagedIs ==
  ASSUME NEW bits \in Bits(DataBits), NEW d \in Damage,
         NEW data, data = DataOf(Damaged(Sent(bits), d)), IsCsd(data)
  PROVE  data \in Bits(DataBits + 8) /\ \A i \in 1 .. DataBits : data[i] = bits[i]
<1> DEFINE N == DataBits
           s == Sent(bits)
           dam == Damaged(s, d)
           p == d[1]
           q == d[2]
           crc == Crc7(bits)
           b == SubSeq(data, 1, DataBits)
           Flip(i, x) == IF i \in {p, q} THEN 1 - x ELSE x
<1>1. N \in Nat
  BY WidthsAre
<1>2. p \in 1 .. N + 24 /\ q \in 1 .. N + 24 /\ q - p \in 0 .. 15
  BY DEF Damage
<1>3. s \in Bits(N + 24)
  BY SentIs
<1>4. dam \in Bits(N + 24) /\ \A i \in 1 .. N + 24 : dam[i] = Flip(i, s[i])
  <2>1. DOMAIN s = 1 .. N + 24
    BY <1>3 DEF Bits
  <2>2. dam = [i \in 1 .. N + 24 |-> Flip(i, s[i])]
    BY <2>1 DEF Damaged
  <2>3. ASSUME NEW i \in 1 .. N + 24 PROVE Flip(i, s[i]) \in Bit
    <3>1. s[i] \in Bit
      BY <1>3 DEF Bits
    <3> HIDE DEF s
    <3> QED BY <3>1 DEF Bit
  <2> HIDE DEF dam, Flip
  <2> QED BY <2>2, <2>3 DEF Bits
<1>5. data \in Bits(N + 8) /\ \A i \in 1 .. N + 8 : data[i] = Flip(i, s[i])
  <2>1. data \in Bits(N + 8) /\ \A i \in 1 .. N + 8 : data[i] = dam[i]
    BY <1>4, TakenIs
  <2>2. \A i \in 1 .. N + 8 : i \in 1 .. N + 24
    BY <1>1
  <2> HIDE DEF dam, Flip, s
  <2> QED BY <1>4, <2>1, <2>2
<1>6. \A i \in 1 .. N : data[i] = Flip(i, bits[i])
  <2>1. \A i \in 1 .. N : i \in 1 .. N + 8 /\ s[i] = Register(bits)[i] /\ Register(bits)[i] = bits[i]
    BY <1>1, SentIs
  <2> HIDE DEF s, Flip
  <2> QED BY <1>5, <2>1
<1>7. crc \in Bits(7) /\ \A i \in 1 .. 7 : data[N + i] = Flip(N + i, crc[i])
  <2>1. \A i \in 1 .. 7 : N + i \in 1 .. N + 8
    BY <1>1
  <2>2. crc \in Bits(7) /\ \A i \in 1 .. 7 : s[N + i] = crc[i]
    BY <2>1, SentIs
  <2> HIDE DEF s, Flip, crc
  <2> QED BY <1>5, <2>1, <2>2
<1>8. CASE p > N
  <2>1. \A i \in 1 .. N : i \notin {p, q}
    BY <1>1, <1>2, <1>8
  <2> HIDE DEF p, q
  <2> QED BY <1>5, <1>6, <2>1
<1>9. CASE p <= N
  <2>1. b \in Bits(N) /\ \A i \in 1 .. N : b[i] = Flip(i, bits[i])
    <3>1. b \in Bits(N) /\ \A i \in 1 .. N : b[i] = data[i]
      BY <1>5, PartsAre
    <3> HIDE DEF b, Flip
    <3> QED BY <1>6, <3>1
  <2>2. Crc7(b) = SubSeq(data, DataBits + 1, DataBits + 7)
    BY DEF IsCsd, VerifyCrc7
  <2>3. \A i \in 1 .. 7 : Crc7(b)[i] = Flip(N + i, crc[i])
    <3>1. \A i \in 1 .. 7 : SubSeq(data, DataBits + 1, DataBits + 7)[i] = data[N + i]
      BY <1>5, PartsAre
    <3> HIDE DEF Flip, crc, b
    <3> QED BY <1>7, <2>2, <3>1
  <2> HIDE DEF b
  <2>4. bits \in Seq(Bit) /\ Len(bits) = N /\ b \in Seq(Bit) /\ Len(b) = N /\ Len(bits) = Len(b)
    BY <1>1, <2>1, BitsAreSeq
  <2>5. PICK c, e : Feeding(c, bits, Divisor7, 7) /\ Feeding(e, b, Divisor7, 7)
    BY <2>4, SevenIs, FeedingExists
  <2>6. crc = c[N] /\ Crc7(b) = e[N]
    BY <2>4, <2>5, Crc7Is
  <2> DEFINE t == [i \in 0 .. Len(bits) |-> Sum2(c[i], e[i], 7)]
             u == t
  <2>7. u = [i \in 0 .. Len(bits) |-> Sum2(c[i], e[i], 7)]
    OBVIOUS
  <2> HIDE DEF u
  <2>8. /\ u \in [0 .. Len(bits) -> Bits(7)] /\ u[0] = NoBits(7)
        /\ \A i \in 1 .. Len(bits) : u[i] = Fed(u[i - 1], Plus(bits[i], b[i]), Divisor7, 7)
    <3>1. IsDivisor(Divisor7, 7)
      BY SevenIs
    <3> HIDE DEF N
    <3>2. Adding(u, c, bits, e, b, Divisor7, 7)
      BY <2>4, <2>5, <2>7, <3>1 DEF Adding
    <3>3. Summed(u, bits, b, Divisor7, 7)
      BY <3>2, FeedingSum
    <3> QED BY <3>3 DEF Summed
  <2>9. ASSUME NEW i \in 1 .. N PROVE Plus(bits[i], b[i]) = IF i \in {p, q} THEN 1 ELSE 0
    <3>1. bits[i] \in Bit /\ b[i] = Flip(i, bits[i])
      BY <2>1 DEF Bits
    <3> QED BY <3>1 DEF Plus, Bit
  <2>10. Telling(u, N, p, q)
    <3> HIDE DEF p, q
    <3> QED BY <2>4, <2>8, <2>9 DEF Telling
  <2>11. ASSUME NEW i \in 1 .. 7 PROVE u[N][i] = IF N + i = q THEN 1 ELSE 0
    <3>1. u[N] = Sum2(crc, Crc7(b), 7)
      <4>1. N \in 0 .. Len(bits)
        BY <1>1, <2>4
      <4> HIDE DEF N, crc
      <4> QED BY <2>6, <2>7, <4>1
    <3>2. u[N][i] = Plus(crc[i], Crc7(b)[i])
      BY <3>1 DEF Sum2
    <3>3. crc[i] \in Bit
      BY <1>7 DEF Bits
    <3>4. N + i \in {p, q} <=> N + i = q
      BY <1>1, <1>2, <1>9
    <3>5. Crc7(b)[i] = IF N + i = q THEN 1 - crc[i] ELSE crc[i]
      BY <2>3, <3>4
    <3> HIDE DEF crc, q
    <3> QED BY <3>2, <3>3, <3>5 DEF Plus, Bit
  <2>12. /\ p = q \/ q <= N => u[N] # NoBits(7)
         /\ q > N => \E i, j \in 1 .. 7 : i # j /\ u[N][i] = 1 /\ u[N][j] = 1
    <3>1. N \in Nat /\ p \in 1 .. N /\ q \in Nat /\ q - p \in 0 .. 15
      BY <1>1, <1>2, <1>9
    <3>2. \A M \in Nat, x \in 1 .. N, y \in Nat :
            M = N /\ y - x \in 0 .. 15 /\ Telling(u, M, x, y) =>
              /\ x = y \/ y <= M => u[M] # NoBits(7)
              /\ y > M => \E i, j \in 1 .. 7 : i # j /\ u[M][i] = 1 /\ u[M][j] = 1
      BY DamageTold
    <3> HIDE DEF p, q, N
    <3> QED BY <2>10, <3>1, <3>2
  <2>13. CASE q > N
    <3>1. PICK i, j \in 1 .. 7 : i # j /\ u[N][i] = 1 /\ u[N][j] = 1
      BY <2>12, <2>13
    <3>2. N + i = q /\ N + j = q
      BY <2>11, <3>1
    <3>3. i = j
      BY <1>1, <3>2
    <3> QED BY <3>1, <3>3
  <2>14. CASE q <= N
    <3>1. \A i \in 1 .. 7 : u[N][i] = 0
      <4>1. \A i \in 1 .. 7 : N + i # q
        BY <1>1, <1>2, <2>14
      <4> QED BY <2>11, <4>1
    <3>2. u[N] \in Bits(7)
      <4>1. N \in 0 .. Len(bits)
        BY <1>1, <2>4
      <4> QED BY <2>8, <4>1
    <3>3. u[N] = NoBits(7)
      BY <3>1, <3>2 DEF Bits, NoBits
    <3> QED BY <2>12, <2>14, <3>3
  <2>15. q > N \/ q <= N
    BY <1>1, <1>2
  <2> QED BY <2>13, <2>14, <2>15
<1>10. p > N \/ p <= N
  BY <1>1, <1>2
<1> QED BY <1>8, <1>9, <1>10

-----------------------------------------------------------------------------
(* The size that a register gives *)

LEMMA FieldIs ==
  ASSUME NEW bits \in Bits(DataBits), NEW raw \in Bits(DataBits + 8),
         \A i \in 1 .. DataBits : raw[i] = bits[i],
         NEW field \in (3 .. DataBits) \X (3 .. DataBits)
  PROVE  Get(raw, field) = Get(bits, field) /\ Get(bits, field) \in Nat
<1> DEFINE a == field[1]
           z == field[2]
           s == SubSeq(bits, a, z)
           r == SubSeq(raw, a, z)
<1>1. DataBits \in Nat
  BY WidthsAre
<1>2. a \in 3 .. DataBits /\ z \in 3 .. DataBits /\ a \in Int /\ z \in Int
  BY <1>1
<1> HIDE DEF a, z
<1>3. \A i \in a .. z : i \in 1 .. DataBits /\ i \in 1 .. DataBits + 8 /\ bits[i] \in Bit /\ raw[i] \in Bit
  <2>1. \A i \in a .. z : i \in 1 .. DataBits /\ i \in 1 .. DataBits + 8
    BY <1>1, <1>2
  <2> QED BY <2>1 DEF Bits
<1>4. s \in Seq(Bit) /\ Len(s) = (IF a <= z THEN z - a + 1 ELSE 0) /\ \A i \in 1 .. z - a + 1 : s[i] = bits[a + i - 1]
  BY <1>2, <1>3, SubSeqProperties
<1>5. r \in Seq(Bit) /\ Len(r) = (IF a <= z THEN z - a + 1 ELSE 0) /\ \A i \in 1 .. z - a + 1 : r[i] = raw[a + i - 1]
  BY <1>2, <1>3, SubSeqProperties
<1> HIDE DEF s, r
<1>6. r = s
  <2>1. ASSUME NEW i \in 1 .. Len(r) PROVE r[i] = s[i]
    <3>1. i \in 1 .. z - a + 1 /\ a + i - 1 \in 1 .. DataBits
      BY <1>1, <1>2, <1>5
    <3> QED BY <1>4, <1>5, <3>1
  <2> QED BY <1>4, <1>5, <2>1, SeqEqual
<1>7. Get(raw, field) = Number(r) /\ Get(bits, field) = Number(s)
  BY DEF Get, r, s, a, z
<1> QED BY <1>4, <1>6, <1>7, NumberIs

\* num_blocks and num_bytes give the size of a card whose register it is, up to
\* as many blocks as a u32 counts.
LEMMA SizeOf ==
  ASSUME NEW bits \in Registers, NEW raw \in Bits(DataBits + 8), \A i \in 1 .. DataBits : raw[i] = bits[i]
  PROVE  /\ CapacityBytes(raw) = Memory(bits)
         /\ Memory(bits) \div BlockLen < Word =>
              CapacityBlocks(raw) \in Nat /\ CapacityBlocks(raw) * BlockLen = Memory(bits)
<1> DEFINE version == VersionOf(bits)
           mult == Get(bits, MultField)
           len == Get(bits, LenField)
           d == DeviceSize(bits) + 1
           x == IF version = "V1" THEN Exponent(bits) - BlockBits ELSE UnitBits
           e == IF version = "V1" THEN Exponent(bits) ELSE BlockBits + UnitBits
<1>1. bits \in Bits(DataBits) /\ version # "invalid" /\ (version = "V1" => Exponent(bits) >= BlockBits)
  BY LayoutAssumption DEF Bits
<1>2. VersionOf(raw) = version
  <2>1. 1 \in 1 .. DataBits /\ 2 \in 1 .. DataBits
    BY WidthsAre
  <2>2. raw[1] = bits[1] /\ raw[2] = bits[2]
    BY <2>1
  <2> QED BY <2>2 DEF VersionOf
<1>3. version \in Version
  BY <1>1 DEF VersionOf, Version
<1>4. DeviceSize(raw) = DeviceSize(bits) /\ d \in Nat \ {0}
  <2>1. SizeField[version] \in (3 .. DataBits) \X (3 .. DataBits)
    BY <1>3, RegisterAssumption
  <2>2. DeviceSize(raw) = Get(raw, SizeField[version]) /\ DeviceSize(bits) = Get(bits, SizeField[version])
    BY <1>2 DEF DeviceSize
  <2> HIDE DEF version
  <2>3. Get(raw, SizeField[version]) = Get(bits, SizeField[version]) /\ Get(bits, SizeField[version]) \in Nat
    BY <1>1, <2>1, FieldIs
  <2> QED BY <2>2, <2>3
<1>5. Exponent(raw) = Exponent(bits) /\ Exponent(bits) = mult + len + 2 /\ mult \in Nat /\ len \in Nat
  <2>1. MultField \in (3 .. DataBits) \X (3 .. DataBits) /\ LenField \in (3 .. DataBits) \X (3 .. DataBits)
    BY RegisterAssumption
  <2>2. Get(raw, MultField) = mult /\ mult \in Nat
    BY <1>1, <2>1, FieldIs
  <2>3. Get(raw, LenField) = len /\ len \in Nat
    BY <1>1, <2>1, FieldIs
  <2> QED BY <2>2, <2>3 DEF Exponent
<1>6. CapacityBytes(raw) = d * TwoTo(e) /\ CapacityBlocks(raw) = (d * TwoTo(x)) % Word
  BY <1>2, <1>4, <1>5 DEF CapacityBytes, CapacityBlocks
<1>7. BlockBits \in Nat /\ UnitBits \in Nat /\ BlockLen \in Nat \ {0} /\ Word \in Nat \ {0}
  BY WidthsAre, TwoToIs DEF BlockLen, Word
<1>8. x \in Nat /\ e = x + BlockBits
  BY <1>1, <1>5, <1>7
<1>9. Memory(bits) = d * TwoTo(e)
  <2>1. CASE version = "V1"
    <3>1. Memory(bits) = (d * TwoTo(mult + 2)) * TwoTo(len)
      BY <2>1 DEF Memory
    <3>2. e = (mult + 2) + len /\ mult + 2 \in Nat
      BY <1>5, <2>1
    <3> HIDE DEF mult, len, d, e
    <3>3. TwoTo(e) = TwoTo(mult + 2) * TwoTo(len) /\ TwoTo(mult + 2) \in Nat /\ TwoTo(len) \in Nat
      BY <1>5, <3>2, TwoToSum, TwoToIs
    <3>4. \A p, q, r \in Nat : (p * q) * r = p * (q * r)
      BY SMTT(30)
    <3> QED BY <1>4, <3>1, <3>3, <3>4
  <2>2. CASE version # "V1"
    <3>1. Memory(bits) = (d * TwoTo(UnitBits)) * BlockLen
      BY <2>2 DEF Memory
    <3>2. e = UnitBits + BlockBits
      BY <1>7, <2>2
    <3> HIDE DEF d, e
    <3>3. TwoTo(e) = TwoTo(UnitBits) * BlockLen /\ TwoTo(UnitBits) \in Nat
      BY <1>7, <3>2, TwoToSum, TwoToIs DEF BlockLen
    <3>4. \A p, q, r \in Nat : (p * q) * r = p * (q * r)
      BY SMTT(30)
    <3> QED BY <1>4, <1>7, <3>1, <3>3, <3>4
  <2> QED BY <2>1, <2>2
<1> HIDE DEF d, x, e
<1> DEFINE blocks == d * TwoTo(x)
<1>10. blocks \in Nat /\ d * TwoTo(e) = BlockLen * blocks + 0 /\ blocks * BlockLen = BlockLen * blocks
  <2>1. TwoTo(x) \in Nat /\ TwoTo(e) = TwoTo(x) * BlockLen
    BY <1>7, <1>8, TwoToIs, TwoToSum DEF BlockLen
  <2>2. \A p, q, r \in Nat : p * q \in Nat /\ p * (q * r) = r * (p * q) + 0 /\ (p * q) * r = r * (p * q)
    BY SMTT(30)
  <2> QED BY <1>4, <1>7, <2>1, <2>2
<1> HIDE DEF blocks
<1>11. ASSUME Memory(bits) \div BlockLen < Word
       PROVE  CapacityBlocks(raw) \in Nat /\ CapacityBlocks(raw) * BlockLen = Memory(bits)
  <2>1. Memory(bits) \in Nat /\ Memory(bits) = BlockLen * blocks + 0 /\ 0 \in 0 .. BlockLen - 1
    <3>1. BlockLen * blocks \in Nat
      BY <1>7, <1>10
    <3> QED BY <1>7, <1>9, <1>10, <3>1
  <2>2. Memory(bits) \div BlockLen = blocks
    BY <1>7, <1>10, <2>1, Quotient
  <2>3. blocks \in 0 .. Word - 1 /\ blocks = Word * 0 + blocks /\ 0 \in Nat
    BY <1>7, <1>10, <1>11, <2>2
  <2>4. blocks % Word = blocks
    BY <1>7, <1>10, <2>3, Quotient
  <2>5. CapacityBlocks(raw) = blocks
    BY <1>6, <2>4 DEF blocks
  <2>6. BlockLen * blocks + 0 = BlockLen * blocks
    BY <1>7, <1>10
  <2>7. blocks * BlockLen = Memory(bits)
    BY <1>10, <2>1, <2>6
  <2> HIDE DEF version, mult, len
  <2> QED BY <1>10, <2>5, <2>7
<1>12. CapacityBytes(raw) = Memory(bits)
  BY <1>6, <1>9
<1> QED BY <1>11, <1>12

-----------------------------------------------------------------------------
(* SizeKnown *)

\* One call of num_blocks: it is accepted only with the data that the card holds,
\* and fails only if the line has done something.
LEMMA ReturnedRight ==
  ASSUME NEW useCrc \in BOOLEAN, NEW data, NEW crc, Returned(data, crc, useCrc),
         SizeKnown, card \in Registers, card' = card, faults \in Nat, faults' \in Nat, faults' >= faults,
         IsCsd(data) => data \in Bits(DataBits + 8) /\ \A i \in 1 .. DataBits : data[i] = card[i],
         ReadCsd(data, crc, useCrc) \/ faults' > 0
  PROVE  SizeKnown'
<1>1. CASE ReadCsd(data, crc, useCrc)
  <2>1. size' = [known |-> TRUE, blocks |-> CapacityBlocks(data), bytes |-> CapacityBytes(data)]
        /\ ret' = [idx |-> Nowhere, result |-> "ok"]
    BY <1>1 DEF Returned
  <2>2. size'.blocks = CapacityBlocks(data) /\ size'.bytes = CapacityBytes(data) /\ ret'.result # "RegisterReadError"
    BY <2>1
  <2>3. data \in Bits(DataBits + 8) /\ \A i \in 1 .. DataBits : data[i] = card[i]
    BY <1>1 DEF ReadCsd
  <2>4. /\ CapacityBytes(data) = Memory(card)
        /\ Memory(card) \div BlockLen < Word =>
             CapacityBlocks(data) \in Nat /\ CapacityBlocks(data) * BlockLen = Memory(card)
    BY <2>3, SizeOf
  <2> QED BY <2>2, <2>4 DEF SizeKnown
<1>2. CASE ~ ReadCsd(data, crc, useCrc)
  <2>1. size' = size /\ faults' > 0
    BY <1>2 DEF Returned
  <2> QED BY <2>1 DEF SizeKnown
<1> QED BY <1>1, <1>2

LEMMA NumBlocksRight == IInv /\ SizeKnown /\ NumBlocks => SizeKnown'
<1> SUFFICES ASSUME IInv, SizeKnown, NumBlocks PROVE SizeKnown'
  OBVIOUS
<1>1. card \in Registers /\ faults \in Nat
  BY ConstantsAre DEF IInv, TypeOK
<1>2. card \in Bits(DataBits) /\ VersionOf(card) # "invalid"
  BY <1>1, LayoutAssumption DEF Bits
<1>3. card' = card /\ faults' = faults
  BY DEF NumBlocks, Works
<1> DEFINE data == DataOf(Sent(card))
           crc == SumOf(Sent(card))
<1>4. PICK useCrc \in BOOLEAN : Returned(data, crc, useCrc)
  BY DEF NumBlocks, DataOf, SumOf
<1>5. ReadCsd(data, crc, useCrc) /\ data \in Bits(DataBits + 8) /\ \A i \in 1 .. DataBits : data[i] = card[i]
  BY <1>2, UndamagedIs
<1> HIDE DEF data, crc
<1> QED BY <1>1, <1>3, <1>4, <1>5, ReturnedRight

LEMMA NumBlocksDamagedRight == IInv /\ SizeKnown /\ NumBlocksDamaged => SizeKnown'
<1> SUFFICES ASSUME IInv, SizeKnown, NumBlocksDamaged PROVE SizeKnown'
  OBVIOUS
<1>1. card \in Registers /\ faults \in Nat
  BY ConstantsAre DEF IInv, TypeOK
<1>2. card \in Bits(DataBits)
  BY <1>1, LayoutAssumption DEF Bits
<1>3. card' = card /\ faults' = faults + 1
  BY DEF NumBlocksDamaged
<1>4. PICK useCrc \in BOOLEAN, d \in Damage :
        Returned(DataOf(Damaged(Sent(card), d)), SumOf(Damaged(Sent(card), d)), useCrc)
  BY DEF NumBlocksDamaged, DataOf, SumOf
<1> DEFINE data == DataOf(Damaged(Sent(card), d))
           crc == SumOf(Damaged(Sent(card), d))
<1>5. IsCsd(data) => data \in Bits(DataBits + 8) /\ \A i \in 1 .. DataBits : data[i] = card[i]
  BY <1>2, DamagedIs
<1>6. Returned(data, crc, useCrc)
  BY <1>4
<1>7. faults' \in Nat /\ faults' >= faults /\ faults' > 0
  BY <1>1, <1>3
<1> HIDE DEF data, crc
<1> QED BY <1>1, <1>3, <1>5, <1>6, <1>7, ReturnedRight

\* The other calls leave the size alone, and their errors are others.
LEMMA StaysRight ==
  ASSUME SizeKnown, UNCHANGED <<card, size>>, ret'.result # "RegisterReadError"
  PROVE  SizeKnown'
BY DEF SizeKnown

LEMMA OpenRight == ASSUME SizeKnown, NEW idx, OpenVolume(idx) PROVE SizeKnown'
<1>1. UNCHANGED <<card, size>>
  BY DEF OpenVolume
<1>2. ret'.result # "RegisterReadError"
  <2>1. ASSUME ParseVolume(idx) PROVE ret'.result # "RegisterReadError"
    BY <2>1 DEF ParseVolume, Returns
  <2>2. ASSUME NEW result, Returns(idx, result) PROVE ret'.result = result
    BY <2>2 DEF Returns
  <2> QED BY <2>1, <2>2 DEF OpenVolume
<1> QED BY <1>1, <1>2, StaysRight

LEMMA InitRight == Init => SizeKnown
BY DEF Init, SizeKnown, Unknown, NoResult

LEMMA NextRight == IInv /\ SizeKnown /\ [Next]_vars => SizeKnown'
<1> SUFFICES ASSUME IInv, SizeKnown, [Next]_vars PROVE SizeKnown'
  OBVIOUS
<1>1. CASE NumBlocks
  BY <1>1, NumBlocksRight
<1>2. CASE NumBlocksDamaged
  BY <1>2, NumBlocksDamagedRight
<1>3. ASSUME NEW f \in Formats, NEW g \in Second, Partition(f, g) PROVE SizeKnown'
  BY <1>3, StaysRight DEF Partition, NoResult
<1>4. ASSUME NEW idx \in VolumeIdx \cup {4}, OpenVolume(idx) PROVE SizeKnown'
  BY <1>4, OpenRight
<1>5. ASSUME NEW v \in open, CloseVolume(v) PROVE SizeKnown'
  BY <1>5, StaysRight DEF CloseVolume, NoResult
<1>6. CASE UNCHANGED vars
  BY <1>6 DEF vars, SizeKnown
<1> QED BY <1>1, <1>2, <1>3, <1>4, <1>5, <1>6 DEF Next

-----------------------------------------------------------------------------
(* The theorems *)

LEMMA Placed == IInv => BlocksInPlace
<1> SUFFICES ASSUME IInv, NEW o \in open
             PROVE  InPlace(o.volume, parts[o.idx].format, parts[o.idx].lba)
  BY DEF BlocksInPlace, InPlace
<1>1. Accepted(o.idx) /\ o.volume = Parsed(parts[o.idx].format, parts[o.idx].lba)
  BY DEF IInv, Opened
<1>2. Partitioned
  BY <1>1, Unpartitioned DEF IInv
<1>3. /\ IsFormat(parts[o.idx].format) /\ parts[o.idx].format.type # "Fat12"
      /\ parts[o.idx].lba \in Nat
  BY <1>1, <1>2, PartitionIs DEF Accepted, Accepts
<1> QED BY <1>1, <1>3, ParsedInPlace

LEMMA OnCard == IInv /\ SizeKnown => BlocksOnCard
<1> SUFFICES ASSUME IInv, SizeKnown, Memory(card) \div BlockLen < Word,
                    NEW o \in open, NEW c \in 2 .. o.volume.clusterCount + 1, NEW b \in ClusterBlocks(o.volume, c)
             PROVE  b < size.blocks
  BY DEF BlocksOnCard
<1> DEFINE f == parts[o.idx].format
           lba == parts[o.idx].lba
<1>1. Accepted(o.idx) /\ o.volume = Parsed(f, lba)
  BY DEF IInv, Opened
<1>2. Partitioned
  BY <1>1, Unpartitioned DEF IInv
<1>3. IsFormat(f) /\ f.type # "Fat12" /\ lba \in Nat
  BY <1>1, <1>2, PartitionIs DEF Accepted, Accepts
<1>4. size.blocks \in Nat /\ Memory(card) = BlockLen * size.blocks + 0 /\ 0 \in 0 .. BlockLen - 1
  <2>1. size.bytes = Memory(card) /\ size.blocks \in Nat /\ size.blocks * BlockLen = size.bytes
    BY <1>2 DEF SizeKnown, Partitioned
  <2> HIDE DEF f, lba
  <2>2. size.blocks * BlockLen = BlockLen * size.blocks /\ BlockLen * size.blocks \in Nat
    BY <2>1, ConstantsAre
  <2> QED BY <2>1, <2>2, ConstantsAre
<1>5. Memory(card) \div BlockLen = size.blocks
  <2>1. Memory(card) \in Nat
    BY <1>4, ConstantsAre
  <2> QED BY <1>4, <2>1, ConstantsAre, Quotient
<1>6. lba + Length(f) <= size.blocks
  BY <1>1, <1>2, <1>4, <1>5, PartitionIs DEF Accepted
<1>7. b \in Nat /\ b < lba + Length(f)
  <2>1. o.volume.clusterCount = f.clusters
    BY <1>1, <1>3, ParsedIs
  <2>2. c \in 2 .. f.clusters + 1
    BY <2>1
  <2> QED BY <1>1, <1>3, <2>2, ClusterInPlace
<1>8. Length(f) \in Nat
  BY <1>3, SizesAre
<1> HIDE DEF f, lba
<1> QED BY <1>3, <1>4, <1>6, <1>7, <1>8

THEOREM Inductive == Spec => []IInv
BY InitIInv, NextKeeps, PTL DEF Spec

\* The table of volumes fits and has each partition once, and what a FAT32
\* volume has for a hint is a cluster (volume_mgr.rs, fat/info.rs), however many
\* volumes it has room for.
THEOREM TypeCorrect == Spec => []TypeOK
<1>1. IInv => TypeOK
  BY DEF IInv
<1> QED BY <1>1, Inductive, PTL

\* Where no FAT32 volume has another block size.
OneBlockSize == \A f \in Formats \cup Second : f.type = "Fat32" => f.flaw # "block size"

LEMMA AcceptsOnlySound == IInv /\ OneBlockSize => OpensNothingElse
<1> SUFFICES ASSUME IInv, OneBlockSize, NEW v \in open PROVE Sound(v.idx)
  BY DEF OpensNothingElse
<1>1. Accepted(v.idx)
  BY DEF IInv, Opened
<1>2. Partitioned
  BY <1>1, Unpartitioned DEF IInv
<1>3. v.idx \in {0, 1} /\ parts[v.idx].format \in Formats \cup Second
  BY <1>1, <1>2, PartitionIs DEF Accepted, Partitioned
<1> QED BY <1>1, <1>3 DEF Accepted, Accepts, Sound, Supported, OneBlockSize

\* No volume that the library supports is refused for its format; and none that it
\* does not support is opened, as long as no FAT32 volume has blocks of another
\* size: it is the one thing that parse_volume does not ask (fat/volume.rs,
\* fat/bpb.rs).
THEOREM OpensTheSound ==
  /\ Spec => []RefusesNoneSound
  /\ OneBlockSize => (Spec => []OpensWhatIsSound)
<1>1. IInv => RefusesNoneSound
  BY DEF IInv, RefusesRightly, RefusesNoneSound, Sound, Supported, Accepted, Accepts
<1>2. Spec => []RefusesNoneSound
  BY <1>1, Inductive, PTL
<1>3. ASSUME OneBlockSize PROVE Spec => []OpensWhatIsSound
  <2>1. IInv => OpensWhatIsSound
    BY <1>1, <1>3, AcceptsOnlySound DEF OpensWhatIsSound
  <2> QED BY <2>1, Inductive, PTL
<1> QED BY <1>2, <1>3

\* Whatever the sizes of a partition: every block that an open volume computes,
\* of a FAT, of the root directory, the info sector or a cluster, is the one that
\* its format has for this (fat/bpb.rs, parse_volume, cluster_to_block, update_fat).
THEOREM EverythingInPlace == Spec => []BlocksInPlace
BY Inductive, Placed, PTL

\* num_blocks and num_bytes say how large the card is (sdcard/csd.rs, read_csd of
\* spi.rs), whatever its register, and whichever bits of it the line turns over, of
\* those that Damage has: a register that comes as the card sent it is accepted, and
\* one whose data is damaged is not, with CRCs on or off.
THEOREM SizeRight == Spec => []SizeKnown
BY InitIInv, NextKeeps, InitRight, NextRight, PTL DEF Spec

\* And no block of an open volume is beyond the end of the card, as num_blocks
\* has it.
THEOREM NothingBeyondCard == Spec => []BlocksOnCard
BY Inductive, SizeRight, OnCard, PTL
=============================================================================

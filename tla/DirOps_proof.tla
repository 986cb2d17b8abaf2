---------------------------- MODULE DirOps_proof ----------------------------
(***************************************************************************)
(* Proofs about DirOps, for directories of every size, any names and any   *)
(* content of their clusters before, and any number of errors.             *)
(***************************************************************************)
EXTENDS DirOps, SequenceTheorems, Induction, TLAPS

-----------------------------------------------------------------------------
(* Slots, and what a directory lists *)

LEMMA SlotFacts ==
  /\ \A n : IsValid(File(n)) /\ IsFile(File(n)) /\ File(n) # End /\ File(n).name = n
  /\ \A n, m : File(n) = File(m) => n = m
  /\ ~ IsValid(End) /\ ~ IsValid(Deleted) /\ Deleted # End
  /\ \A e : IsValid(e) => e # End /\ e # Deleted
  /\ \A n : File(n) # Deleted
  /\ \A n \in ShortName : File(n) \in Slot
  /\ End \in Slot /\ Deleted \in Slot
BY DEF IsValid, IsFile, File, End, Deleted, Slot

LEMMA MinIs ==
  ASSUME NEW S, S \subseteq Nat, S # {}
  PROVE  Min(S) \in S /\ \A n \in S : Min(S) <= n
BY LeastExists DEF Min

\* The end markers of some slots of a directory, the files and what it lists
\* there, and that nothing comes after an end marker.
Marks(v, U) == {p \in U : v[p] = End}
FilesOf(v, U) == {p \in U : IsValid(v[p]) /\ (\A q \in Marks(v, U) : p < q) /\ IsFile(v[p])}
ListedIn(v, U) == {<<p, v[p].name>> : p \in FilesOf(v, U)}
EndsLast(v, U) == \A p \in Marks(v, U) : \A q \in U : q > p => v[q] = End

LEMMA ListedUsed ==
  /\ \A v : Ends(v) = Marks(v, Used) /\ Listing(v) = FilesOf(v, Used) /\ Listed(v) = ListedIn(v, Used)
  /\ Listed(slots)' = ListedIn(slots', Used')
  /\ Listed(View)' = ListedIn(View', Used')
  /\ NothingBeyondEnd = (~ spoilt => \A v \in {slots, View} : EndsLast(v, Used))
  /\ NothingBeyondEnd' = (~ spoilt' => \A v \in {slots', View'} : EndsLast(v, Used'))
BY DEF Listed, Listing, Seen, Before, Ends, ListedIn, FilesOf, Marks, NothingBeyondEnd, EndsLast

\* A file takes the first place that is free; an entry is marked as deleted.
Places(v, w, p, n, U) ==
  /\ U \subseteq Nat /\ EndsLast(v, U)
  /\ p \in U /\ ~ IsValid(v[p]) /\ \A q \in U : ~ IsValid(v[q]) => p <= q
  /\ w[p] = File(n) /\ \A q \in U : q # p => w[q] = v[q]
Strikes(v, w, p, n, U) ==
  /\ U \subseteq Nat /\ EndsLast(v, U)
  /\ p \in U /\ v[p] = File(n)
  /\ w[p] = Deleted /\ \A q \in U : q # p => w[q] = v[q]

LEMMA Added ==
  ASSUME NEW U, NEW v, NEW w, NEW p, NEW n, Places(v, w, p, n, U)
  PROVE  /\ EndsLast(w, U) /\ p \notin FilesOf(v, U)
         /\ ListedIn(w, U) = ListedIn(v, U) \cup {<<p, n>>}
<1> U \subseteq Nat /\ EndsLast(v, U) /\ p \in U /\ ~ IsValid(v[p]) /\ w[p] = File(n)
  BY DEF Places
<1> (\A q \in U : ~ IsValid(v[q]) => p <= q) /\ (\A q \in U : q # p => w[q] = v[q])
  BY DEF Places
<1>1. /\ ~ IsValid(End) /\ w[p] # End /\ IsValid(w[p]) /\ IsFile(w[p]) /\ w[p].name = n
      /\ p \in Nat /\ \A q \in U : q \in Nat
  BY SlotFacts
<1>2. \A q \in Marks(v, U) : q \in U /\ v[q] = End /\ p <= q
  BY <1>1 DEF Marks
<1>3. Marks(w, U) = Marks(v, U) \ {p}
  BY <1>1 DEF Marks
<1>4. EndsLast(w, U)
  <2> SUFFICES ASSUME NEW e \in Marks(v, U), e # p, NEW q \in U, q > e PROVE w[q] = End
    BY <1>3 DEF EndsLast
  <2>1. v[q] = End
    BY DEF EndsLast
  <2>2. e \in Nat /\ p <= e /\ q \in Nat
    BY <1>1, <1>2
  <2>3. q # p
    BY <1>1, <2>2
  <2> QED BY <2>1, <2>3
<1>5. p \notin FilesOf(v, U)
  BY DEF FilesOf
<1>6. p \in FilesOf(w, U)
  <2>1. ASSUME NEW e \in Marks(w, U) PROVE p < e
    <3>1. e \in Marks(v, U) /\ e # p
      BY <1>3
    <3>2. e \in Nat /\ p <= e
      BY <1>1, <1>2, <3>1
    <3> QED BY <1>1, <3>1, <3>2
  <2> QED BY <1>1, <2>1 DEF FilesOf
<1>7. ASSUME NEW q \in U, q # p PROVE q \in FilesOf(w, U) <=> q \in FilesOf(v, U)
  <2>1. w[q] = v[q]
    BY <1>7
  <2>2. CASE q \in FilesOf(v, U)
    BY <1>3, <2>1, <2>2 DEF FilesOf
  <2>3. CASE q \in FilesOf(w, U)
    <3>1. IsValid(v[q]) /\ IsFile(v[q]) /\ (\A e \in Marks(v, U) \ {p} : q < e)
      BY <1>3, <2>1, <2>3 DEF FilesOf
    <3>2. ASSUME p \in Marks(v, U) PROVE q < p
      <4> SUFFICES ASSUME ~ (q < p) PROVE FALSE
        OBVIOUS
      <4>1. q > p
        <5>1. p \in Nat /\ q \in Nat
          BY <1>1
        <5> QED BY <1>7, <5>1
      <4>2. v[q] = End
        BY <3>2, <4>1 DEF EndsLast
      <4> QED BY <1>1, <3>1, <4>2
    <3>3. \A e \in Marks(v, U) : q < e
      BY <3>1, <3>2
    <3>4. q \in FilesOf(v, U)
      BY <3>1, <3>3 DEF FilesOf
    <3> QED BY <2>3, <3>4
  <2> QED BY <2>2, <2>3
<1>8. FilesOf(w, U) = FilesOf(v, U) \cup {p}
  <2>1. FilesOf(w, U) \subseteq U /\ FilesOf(v, U) \subseteq U
    BY DEF FilesOf
  <2> QED BY <1>6, <1>7, <2>1
<1>9. \A q \in FilesOf(v, U) : q # p /\ w[q].name = v[q].name
  BY <1>5 DEF FilesOf
<1> QED BY <1>1, <1>4, <1>5, <1>8, <1>9 DEF ListedIn

LEMMA Removed ==
  ASSUME NEW U, NEW v, NEW w, NEW p, NEW n, Strikes(v, w, p, n, U)
  PROVE  /\ EndsLast(w, U) /\ p \in FilesOf(v, U)
         /\ ListedIn(w, U) = ListedIn(v, U) \ {<<p, n>>}
<1> U \subseteq Nat /\ EndsLast(v, U) /\ p \in U /\ v[p] = File(n) /\ w[p] = Deleted
  BY DEF Strikes
<1> \A q \in U : q # p => w[q] = v[q]
  BY DEF Strikes
<1>1. /\ v[p] # End /\ IsValid(v[p]) /\ IsFile(v[p]) /\ v[p].name = n /\ w[p] # End /\ ~ IsValid(w[p])
      /\ p \in Nat /\ \A q \in U : q \in Nat
  BY SlotFacts
<1>2. Marks(w, U) = Marks(v, U)
  BY <1>1 DEF Marks
<1>3. \A q \in Marks(v, U) : q \in U /\ p < q
  <2> SUFFICES ASSUME NEW q \in Marks(v, U), ~ (p < q) PROVE FALSE
    BY DEF Marks
  <2>1. q \in U /\ q # p
    BY <1>1 DEF Marks
  <2>2. p > q
    BY <1>1, <2>1
  <2>3. v[p] = End
    BY <2>2 DEF EndsLast
  <2> QED BY <1>1, <2>3
<1>4. EndsLast(w, U)
  <2> SUFFICES ASSUME NEW e \in Marks(v, U), NEW q \in U, q > e PROVE w[q] = End
    BY <1>2 DEF EndsLast
  <2>1. v[q] = End
    BY DEF EndsLast
  <2>2. q # p
    BY <1>1, <2>1
  <2> QED BY <2>1, <2>2
<1>5. p \in FilesOf(v, U) /\ p \notin FilesOf(w, U)
  BY <1>1, <1>3 DEF FilesOf
<1>6. ASSUME NEW q \in U, q # p PROVE q \in FilesOf(w, U) <=> q \in FilesOf(v, U)
  BY <1>2, <1>6 DEF FilesOf
<1>7. FilesOf(w, U) = FilesOf(v, U) \ {p}
  <2>1. FilesOf(w, U) \subseteq U /\ FilesOf(v, U) \subseteq U
    BY DEF FilesOf
  <2> QED BY <1>5, <1>6, <2>1
<1>8. \A q \in FilesOf(w, U) : q # p /\ w[q].name = v[q].name
  BY <1>5 DEF FilesOf
<1> QED BY <1>1, <1>4, <1>5, <1>7, <1>8 DEF ListedIn

-----------------------------------------------------------------------------
(* Blocks and clusters *)

LEMMA SizeFacts ==
  /\ SlotsPerBlock \in Nat /\ SlotsPerBlock > 0 /\ BlocksPerCluster \in Nat /\ BlocksPerCluster > 0
  /\ MaxClusters \in Nat /\ MaxClusters > 0
  /\ SlotsPerCluster \in Nat /\ SlotsPerCluster > 0
<1>1. /\ SlotsPerBlock \in Nat /\ SlotsPerBlock > 0 /\ BlocksPerCluster \in Nat /\ BlocksPerCluster > 0
      /\ MaxClusters \in Nat /\ MaxClusters > 0
  BY SizeAssumption
<1>2. SlotsPerBlock * BlocksPerCluster \in Nat
  BY <1>1
<1>3. SlotsPerBlock * BlocksPerCluster > 0
  BY <1>1, <1>2, SMTT(30)
<1> QED BY <1>1, <1>2, <1>3 DEF SlotsPerCluster

\* A later slot is in the same block or in a later one.
LEMMA BlockFacts ==
  /\ \A p \in Nat \ {0} : BlockOf(p) \in Nat \ {0}
  /\ \A p, q \in Nat \ {0} : p <= q => BlockOf(p) <= BlockOf(q)
<1> DEFINE n == SlotsPerBlock
<1>1. n \in Nat /\ n > 0
  BY SizeFacts
<1>2. ASSUME NEW p \in Nat \ {0} PROVE BlockOf(p) \in Nat \ {0} /\ n * (BlockOf(p) - 1) <= p - 1 /\ p - 1 < n * BlockOf(p)
  <2> DEFINE k == (p - 1) \div n
  <2>1. p - 1 \in Nat
    OBVIOUS
  <2>2. k \in Nat
    BY <1>1, <2>1, SMTT(30)
  <2>3. n * k <= p - 1 /\ p - 1 < n * (k + 1)
    BY <1>1, <2>1, SMTT(30)
  <2>4. BlockOf(p) = k + 1
    BY DEF BlockOf
  <2> HIDE DEF k
  <2> QED BY <2>2, <2>3, <2>4
<1>3. ASSUME NEW p \in Nat \ {0}, NEW q \in Nat \ {0}, p <= q PROVE BlockOf(p) <= BlockOf(q)
  <2> DEFINE i == BlockOf(p)
             j == BlockOf(q)
  <2>1. i \in Nat \ {0} /\ j \in Nat \ {0} /\ n * (i - 1) < n * j
    <3>1. n * (i - 1) <= p - 1 /\ q - 1 < n * j /\ i \in Nat \ {0} /\ j \in Nat \ {0}
      BY <1>2
    <3>2. n * (i - 1) \in Int /\ n * j \in Int
      BY <1>1, <3>1
    <3> HIDE DEF i, j
    <3> QED BY <1>3, <3>1, <3>2
  <2> HIDE DEF i, j
  <2>2. i - 1 < j
    <3> SUFFICES ASSUME j <= i - 1 PROVE FALSE
      BY <2>1
    <3>1. n * j <= n * (i - 1)
      BY <1>1, <2>1, SMTT(30)
    <3> QED BY <1>1, <2>1, <3>1
  <2>3. i <= j
    BY <2>1, <2>2
  <2> QED BY <2>3 DEF i, j
<1> QED BY <1>2, <1>3

\* The slots of the first s clusters, and of one more.
LEMMA ClusterFacts ==
  ASSUME NEW s \in Nat
  PROVE  /\ s * SlotsPerCluster \in Nat
         /\ (s + 1) * SlotsPerCluster = s * SlotsPerCluster + SlotsPerCluster
         /\ s <= MaxClusters => 1 .. s * SlotsPerCluster \subseteq Slots
         /\ \A p \in 1 .. s * SlotsPerCluster : BlockOf(p) < s * BlocksPerCluster + 1
<1> DEFINE c == SlotsPerCluster
<1>1. c \in Nat /\ MaxClusters \in Nat /\ s * c \in Nat /\ MaxClusters * c \in Nat
  BY SizeFacts
<1>2. (s + 1) * c = s * c + c
  BY <1>1
<1>3. ASSUME s <= MaxClusters PROVE 1 .. s * c \subseteq Slots
  <2>1. s * c <= MaxClusters * c
    BY <1>1, <1>3, SMTT(30)
  <2> QED BY <1>1, <2>1 DEF Slots
<1>4. ASSUME NEW p \in 1 .. s * c PROVE BlockOf(p) < s * BlocksPerCluster + 1
  <2> DEFINE n == SlotsPerBlock
             b == s * BlocksPerCluster
             k == (p - 1) \div n
  <2>1. n \in Nat /\ n > 0 /\ b \in Nat /\ p - 1 \in Nat /\ BlocksPerCluster \in Nat
    BY <1>1, <1>4, SizeFacts
  <2>2. k \in Nat /\ n * k <= p - 1
    BY <2>1, SMTT(30)
  <2>3. n * b = s * c
    <3>1. n * (s * BlocksPerCluster) = s * (n * BlocksPerCluster)
      BY <2>1, SMTT(30)
    <3> QED BY <3>1 DEF SlotsPerCluster
  <2>4. n * k < n * b
    <3>1. n * k \in Int
      BY <2>1, <2>2
    <3> HIDE DEF k, b, c
    <3> QED BY <1>1, <1>4, <2>2, <2>3, <3>1
  <2> HIDE DEF k, b
  <2>5. k < b
    <3> SUFFICES ASSUME b <= k PROVE FALSE
      BY <2>1, <2>2
    <3>1. n * b <= n * k
      BY <2>1, <2>2, SMTT(30)
    <3> QED BY <2>1, <2>2, <2>4, <3>1
  <2>6. BlockOf(p) = k + 1
    BY DEF BlockOf, k
  <2> QED BY <2>1, <2>2, <2>5, <2>6 DEF b
<1> QED BY <1>1, <1>2, <1>3, <1>4
-----------------------------------------------------------------------------
(* Long names *)

LEMMA PiecesAre ==
  ASSUME NEW long \in Seq(Unit)
  PROVE  /\ Pieces(long) \in Nat
         /\ \A j \in 1 .. Pieces(long) : Chunk(long, j) \in Seq(Unit)
<1>1. PieceLen \in Nat /\ PieceLen > 0 /\ Len(long) \in Nat /\ Len(long) + PieceLen - 1 \in Nat
  BY BufferAssumption
<1>2. Pieces(long) \in Nat
  BY <1>1, SMTT(30) DEF Pieces
<1>3. ASSUME NEW j \in 1 .. Pieces(long) PROVE Chunk(long, j) \in Seq(Unit)
  <2> DEFINE from == (j - 1) * PieceLen + 1
             ends == {j * PieceLen, Len(long)}
             to == Min(ends)
  <2>1. j \in Nat /\ j - 1 \in Nat
    BY <1>2, <1>3
  <2>2. j * PieceLen \in Nat /\ (j - 1) * PieceLen \in Nat
    BY <1>1, <2>1
  <2>3. ends \subseteq Nat /\ ends # {} /\ Len(long) \in ends
    BY <1>1, <2>2
  <2>4. to \in ends /\ to <= Len(long)
    <3> HIDE DEF ends
    <3> QED BY <2>3, MinIs
  <2>5. from \in Nat /\ from >= 1 /\ to \in Nat
    <3>1. to \in Nat
      BY <2>3, <2>4
    <3> HIDE DEF to, ends
    <3> QED BY <2>2, <3>1
  <2> HIDE DEF from, to, ends
  <2>6. \A i \in from .. to : long[i] \in Unit
    BY <1>1, <2>4, <2>5
  <2>7. SubSeq(long, from, to) \in Seq(Unit)
    BY <2>5, <2>6, SubSeqProperties
  <2> QED BY <2>7 DEF Chunk, from, to, ends
<1> QED BY <1>2, <1>3

\* The slots of a file are entries.
LEMMA RunIsEntries ==
  ASSUME NEW f \in Foreign,
         NEW run, run = Append(LongNameRun(f.long, Csum[f.short]), File(f.short))
  PROVE  /\ Len(run) \in Nat /\ Len(run) > 0
         /\ \A i \in 1 .. Len(run) : run[i] \in Slot /\ run[i] # End
<1> DEFINE k == Pieces(f.long)
           E == Slot \ {End}
           names == LongNameRun(f.long, Csum[f.short])
<1>1. f.short \in ShortName /\ f.long \in Seq(Unit) /\ Csum[f.short] \in Nat
  BY SizeAssumption
<1>2. k \in Nat
  BY <1>1, PiecesAre
<1> DEFINE piece(i) == Piece(i = 1, k - i + 1, Csum[f.short], Chunk(f.long, k - i + 1))
<1>3. ASSUME NEW i \in 1 .. k PROVE piece(i) \in E
  <2>1. k - i + 1 \in 1 .. k /\ k - i + 1 \in Nat
    BY <1>2
  <2>2. Chunk(f.long, k - i + 1) \in Seq(Unit)
    BY <1>1, <2>1, PiecesAre
  <2> HIDE DEF k
  <2> QED BY <1>1, <2>1, <2>2 DEF Piece, Slot, End
<1>4. names \in Seq(E)
  <2>1. names = [i \in 1 .. k |-> piece(i)]
    BY DEF LongNameRun
  <2> HIDE DEF E, names, k, piece
  <2>2. names \in [1 .. k -> E]
    BY <1>3, <2>1
  <2> QED BY <1>2, <2>2
<1>5. File(f.short) \in E
  BY <1>1, SlotFacts
<1> HIDE DEF E, names, k
<1>6. run \in Seq(E) /\ Len(run) = Len(names) + 1
  BY <1>4, <1>5, AppendProperties DEF names
<1>7. Len(names) \in Nat
  BY <1>4
<1> QED BY <1>6, <1>7 DEF E

LEMMA OwnPiecesBefore ==
  ASSUME NEW v, NEW p \in Nat
  PROVE  \A q \in OwnPieces(v, p) : q \in Int /\ q < p
<1>1. Longs \subseteq Seq(Unit) /\ NoName \in Seq(Unit)
  BY SizeAssumption DEF Longs, NoName
<1>2. OwnName(v, p) \in Seq(Unit)
  <2>1. CASE \E long \in Longs : IsNamed(v, p, long)
    <3>1. OwnName(v, p) \in Longs
      BY <2>1 DEF OwnName
    <3> QED BY <1>1, <3>1
  <2>2. CASE ~ \E long \in Longs : IsNamed(v, p, long)
    BY <1>1, <2>2 DEF OwnName
  <2> QED BY <2>1, <2>2
<1>3. Pieces(OwnName(v, p)) \in Nat
  BY <1>2, PiecesAre
<1> QED BY <1>3 DEF OwnPieces

-----------------------------------------------------------------------------
(* The inductive invariant *)

\* After a search that found nothing, the cache still has the first block only
\* if the scan ended there.
SearchScanned ==
  search # NoSearch /\ search.at = 0 /\ cache # NoCache =>
    \/ \E p \in Ends(View) : BlockOf(p) = 1
    \/ Fixed /\ \A p \in Used : BlockOf(p) = 1

\* The cache differs from the device in the names it has.
CacheNames ==
  ~ spoilt => \A n \in ShortName \ cache.names : \A p \in Slots :
    <<p, n>> \in Listed(View) <=> <<p, n>> \in Listed(slots)

\* As long as nothing has failed, what was found is still there.
NothingFailed ==
  faults = 0 /\ ~ spoilt =>
    /\ cache = NoCache
    /\ search.at # 0 => search.at = Min({p \in Seen(slots) : slots[p] = File(search.name)})

SearchType ==
  /\ search.name \in ShortName \cup {"none"}
  /\ search.at # 0 => search.name \in ShortName

IInv ==
  /\ TypeOK /\ NothingBeyondEnd
  /\ SearchScanned /\ CacheNames /\ NothingFailed /\ SearchType

\* What ListingFollowsCalls and OthersKept say of a step.
Follows ==
  LET entry == <<search.at, search.name>> IN
  faults' = 0 /\ ~ spoilt' /\ ret' # "elsewhere" =>
    /\ ret' # "ok" => Listed(slots)' = Listed(slots)
    /\ ret' = "ok" /\ search.at = 0 =>
         \E p \in Slots : /\ p \notin Listing(slots)
                         /\ Listed(slots)' = Listed(slots) \cup {<<p, search.name>>}
    /\ ret' = "ok" /\ search.at # 0 =>
         entry \in Listed(slots) /\ Listed(slots)' = Listed(slots) \ {entry}
Kept ==
  ~ spoilt' /\ ret' # "elsewhere" =>
    \A n \in ShortName \ (cache.names \cup {search.name}) : \A p \in Slots :
      <<p, n>> \in Listed(slots)' <=> <<p, n>> \in Listed(slots)

LEMMA Types ==
  ASSUME TypeOK
  PROVE  /\ size \in Nat /\ size >= 1 /\ size <= MaxClusters
         /\ slots \in [Slots -> Slot] /\ View \in [Slots -> Slot]
         /\ Used \subseteq Slots /\ Slots \subseteq Nat \ {0} /\ Used \subseteq Nat \ {0} /\ Used \subseteq Nat
         /\ \A p \in Slots : BlockOf(p) # 1 => View[p] = slots[p]
         /\ faults \in Nat
<1>1. MaxClusters \in Nat /\ size \in Nat /\ size >= 1 /\ size <= MaxClusters
  BY SizeFacts DEF TypeOK
<1>2. Used \subseteq Slots
  BY <1>1, ClusterFacts DEF Used
<1>3. Slots \subseteq Nat \ {0}
  BY DEF Slots
<1>4. slots \in [Slots -> Slot] /\ View \in [Slots -> Slot]
      /\ \A p \in Slots : BlockOf(p) # 1 => View[p] = slots[p]
  BY DEF TypeOK, View
<1>5. faults \in Nat
  BY SizeAssumption DEF TypeOK
<1> QED BY <1>1, <1>2, <1>3, <1>4, <1>5

\* When the cache is empty, what is seen is what is on the device; a step that
\* leaves it empty, and nothing looked up, has half of the invariant.
LEMMA NothingCached ==
  ASSUME cache' = NoCache, search' = NoSearch
  PROVE  /\ View' = slots' /\ SearchScanned' /\ CacheNames' /\ NothingFailed' /\ SearchType'
         /\ NothingBeyondEnd' = (~ spoilt' => EndsLast(slots', Used'))
<1>1. View' = slots'
  BY DEF View
<1>2. search'.at = 0 /\ search'.name = "none"
  BY DEF NoSearch
<1>3. Listed(View)' = Listed(slots)'
  BY <1>1, ListedUsed
<1>4. SearchScanned' /\ NothingFailed' /\ SearchType'
  BY <1>2 DEF SearchScanned, NothingFailed, SearchType
<1>5. CacheNames'
  BY <1>3 DEF CacheNames
<1>6. NothingBeyondEnd' = (~ spoilt' => EndsLast(slots', Used'))
  BY <1>1, ListedUsed
<1> QED BY <1>1, <1>4, <1>5, <1>6

LEMMA InitIInv == Init => IInv
<1> SUFFICES ASSUME Init PROVE IInv
  OBVIOUS
<1>1. View = slots /\ cache = NoCache /\ search = NoSearch /\ search.at = 0 /\ search.name = "none"
  BY DEF Init, View, NoSearch
<1>2. size \in 1 .. MaxClusters
  BY SizeFacts, SizeAssumption DEF Init
<1>3. Used \subseteq Slots
  BY <1>2, SizeFacts, ClusterFacts DEF Used
<1>4. slots \in [Slots -> Slot]
  BY SlotFacts, LeftoverAssumption DEF Init
<1>5. TypeOK
  <2>1. cache.names = {}
    BY <1>1 DEF NoCache
  <2>2. faults \in 0 .. MaxFaults /\ spoilt \in BOOLEAN
    <3>1. faults = 0 /\ spoilt = FALSE
      BY DEF Init
    <3>2. 0 \in 0 .. MaxFaults
      BY SizeAssumption
    <3> QED BY <3>1, <3>2
  <2>3. search.at \in {0} \cup Used /\ cache.names \subseteq ShortName
    BY <1>1, <2>1
  <2> QED BY <1>1, <1>2, <1>4, <2>2, <2>3, Zenon DEF TypeOK
<1>6. \A p \in Used : slots[p] = End
  BY <1>3 DEF Init, Used
<1>7. NothingBeyondEnd
  BY <1>1, <1>6, ListedUsed DEF EndsLast
<1>8. SearchScanned /\ CacheNames /\ NothingFailed /\ SearchType
  BY <1>1 DEF SearchScanned, CacheNames, NothingFailed, SearchType
<1> QED BY <1>5, <1>7, <1>8 DEF IInv

-----------------------------------------------------------------------------
(* Steps that write nothing *)

LEMMA Unwritten ==
  ASSUME UNCHANGED <<slots, size>>, ret' # "ok"
  PROVE  Used' = Used /\ Follows /\ Kept
<1>1. slots' = slots /\ Used' = Used
  BY DEF Used
<1>2. Listed(slots)' = Listed(slots)
  BY <1>1, ListedUsed
<1> QED BY <1>1, <1>2 DEF Follows, Kept

\* The manager stops, with an empty cache.
LEMMA StopKeeps ==
  ASSUME IInv, UNCHANGED <<slots, size, spoilt>>, ret' # "ok", cache' = NoCache,
         search' = NoSearch, faults' \in 0 .. MaxFaults
  PROVE  IInv' /\ Follows /\ Kept
<1>1. Used' = Used /\ Follows /\ Kept
  BY Unwritten
<1>2. search'.at = 0 /\ cache'.names = {}
  BY DEF NoSearch, NoCache
<1>3. TypeOK'
  <2>1. cache'.names \subseteq ShortName /\ search'.at \in {0} \cup Used'
    BY <1>2
  <2>2. slots' \in [Slots -> Slot] /\ size' \in 1 .. MaxClusters /\ spoilt' \in BOOLEAN
    BY DEF IInv, TypeOK
  <2> QED BY <2>1, <2>2, Zenon DEF TypeOK
<1>4. ~ spoilt' => EndsLast(slots', Used')
  BY <1>1, ListedUsed DEF IInv
<1>5. NothingBeyondEnd'
  BY <1>4, NothingCached
<1> QED BY <1>1, <1>3, <1>5, NothingCached DEF IInv

LEMMA Counted ==
  ASSUME TypeOK
  PROVE  (Fails => faults' \in 0 .. MaxFaults /\ faults' # 0) /\ (Works => faults' \in 0 .. MaxFaults)
BY SizeAssumption DEF TypeOK, Fails, Works

\* The same with a cache that is what a scan of the directory leaves.
LEMMA RestKeeps ==
  ASSUME IInv, UNCHANGED <<slots, size, spoilt>>, ret' # "ok", cache' = ScannedAll, Works,
         search' = NoSearch
  PROVE  IInv' /\ Follows /\ Kept
<1>1. faults' \in 0 .. MaxFaults /\ faults' = faults
  BY Counted DEF IInv, Works
<1>2. cache' = NoCache \/ cache' = cache
  BY DEF ScannedAll, ScannedTo
<1>3. CASE cache' = NoCache
  BY <1>1, <1>3, StopKeeps
<1>4. CASE cache' = cache
  <2>1. Used' = Used /\ Follows /\ Kept /\ View' = View /\ slots' = slots
    BY <1>4, Unwritten DEF View
  <2>2. search'.at = 0
    BY DEF NoSearch
  <2>3. TypeOK'
    BY <1>1, <1>4, <2>1, <2>2 DEF IInv, TypeOK
  <2>4. NothingBeyondEnd'
    <3>1. ~ spoilt => \A v \in {slots, View} : EndsLast(v, Used)
      BY ListedUsed DEF IInv
    <3>2. ~ spoilt' => \A v \in {slots', View'} : EndsLast(v, Used')
      BY <2>1, <3>1
    <3> QED BY <3>2, ListedUsed
  <2>5. Listed(View)' = Listed(View) /\ Listed(slots)' = Listed(slots)
    BY <2>1, ListedUsed
  <2>6. CacheNames'
    BY <1>4, <2>5 DEF IInv, CacheNames
  <2>7. SearchScanned' /\ SearchType' /\ NothingFailed'
    BY <1>1, <1>4, <2>2 DEF SearchScanned, SearchType, NoSearch, IInv, NothingFailed
  <2> QED BY <2>1, <2>3, <2>4, <2>6, <2>7 DEF IInv
<1> QED BY <1>2, <1>3, <1>4

LEMMA FindKeeps ==
  ASSUME IInv, NEW n \in GivenNames, FindDirectoryEntry(n)
  PROVE  IInv' /\ Follows /\ Kept
<1> DEFINE matches == {p \in Seen(View) : View[p] = File(n)}
           absent == [name |-> n, at |-> 0]
<1>1. /\ slots' = slots /\ size' = size /\ spoilt' = spoilt /\ n \in ShortName
      /\ ret' # "ok" /\ TypeOK /\ (Fails \/ Works)
  BY DEF FindDirectoryEntry, GivenNames, IInv
<1>2. cache' = cache \/ cache' = NoCache
  BY DEF FindDirectoryEntry, ScannedTo, ScannedAll
<1>3. Used' = Used /\ Follows /\ Kept
  BY <1>1, Unwritten
<1>4. (View' = View /\ cache' = cache) \/ (View' = slots /\ cache' = NoCache)
  <2>1. cache' = cache => View' = View
    BY <1>1 DEF View
  <2>2. cache' = NoCache => View' = slots
    BY <1>1 DEF View
  <2> QED BY <1>2, <2>1, <2>2
<1>5. matches \subseteq Used
  BY DEF Seen
<1>6. matches # {} => Min(matches) \in Used
  <2>1. matches \subseteq Nat
    BY <1>1, <1>5, Types
  <2> HIDE DEF matches
  <2> QED BY <1>5, <2>1, MinIs
<1>7. \/ /\ matches # {} /\ search' = [name |-> n, at |-> Min(matches)] /\ faults' = faults
      \/ /\ matches = {} /\ search' = absent /\ faults' = faults
         /\ cache' = IF Ends(View) = {} THEN ScannedAll ELSE ScannedTo(Min(Ends(View)))
      \/ search' = absent /\ cache' = NoCache /\ faults' # 0
  BY <1>1, Counted DEF FindDirectoryEntry, Works
<1>8. search'.name = n /\ search'.at \in {0} \cup Used
  <2> HIDE DEF matches
  <2> QED BY <1>6, <1>7
<1>9. faults' \in 0 .. MaxFaults
  BY <1>1, Counted
<1>10. TypeOK'
  <2>1. slots' \in [Slots -> Slot] /\ size' \in 1 .. MaxClusters /\ spoilt' \in BOOLEAN
    BY <1>1 DEF TypeOK
  <2>2. /\ cache' = NoCache \/ cache'.slots \in [Slots -> Slot]
        /\ cache' # NoCache => \A p \in Slots : BlockOf(p) # 1 => cache'.slots[p] = slots'[p]
        /\ cache'.names \subseteq ShortName
    BY <1>1, <1>2 DEF TypeOK, NoCache
  <2> QED BY <1>3, <1>8, <1>9, <2>1, <2>2, Zenon DEF TypeOK
<1>11. NothingBeyondEnd'
  <2>1. ~ spoilt => EndsLast(slots, Used) /\ EndsLast(View, Used)
    BY ListedUsed DEF IInv
  <2>2. ~ spoilt' => \A v \in {slots', View'} : EndsLast(v, Used')
    BY <1>1, <1>3, <1>4, <2>1
  <2> QED BY <2>2, ListedUsed
<1>12. SearchScanned'
  <2> SUFFICES ASSUME search'.at = 0, cache' # NoCache
               PROVE  (\E p \in Ends(View)' : BlockOf(p) = 1) \/ (Fixed /\ \A p \in Used' : BlockOf(p) = 1)
    BY DEF SearchScanned
  <2>1. View' = View /\ Ends(View)' = Ends(View)
    BY <1>3, <1>4 DEF Ends
  <2>2. ~ (matches # {} /\ search' = [name |-> n, at |-> Min(matches)])
    <3>1. 0 \notin Used
      BY <1>1, Types
    <3> HIDE DEF matches
    <3> QED BY <1>6, <3>1
  <2>3. cache' = IF Ends(View) = {} THEN ScannedAll ELSE ScannedTo(Min(Ends(View)))
    BY <1>7, <2>2
  <2>4. CASE Ends(View) # {}
    <3>1. BlockOf(Min(Ends(View))) = 1
      BY <2>3, <2>4 DEF ScannedTo
    <3>2. Min(Ends(View)) \in Ends(View)
      <4>1. Ends(View) \subseteq Nat
        BY <1>1, Types DEF Ends
      <4> QED BY <2>4, <4>1, MinIs
    <3> QED BY <2>1, <3>1, <3>2
  <2>5. CASE Ends(View) = {}
    <3>1. Fixed /\ BlockOf(size * SlotsPerCluster) = 1
      BY <2>3, <2>5 DEF ScannedAll, ScannedTo
    <3>2. ASSUME NEW p \in Used PROVE BlockOf(p) = 1
      <4> DEFINE last == size * SlotsPerCluster
      <4>1. last \in Nat /\ p \in Nat \ {0} /\ p <= last /\ last \in Nat \ {0}
        <5>1. last \in Nat
          BY <1>1, Types, ClusterFacts
        <5> HIDE DEF last
        <5> QED BY <5>1 DEF Used, last
      <4> HIDE DEF last
      <4>2. BlockOf(p) <= BlockOf(last) /\ BlockOf(p) \in Nat \ {0} /\ BlockOf(last) = 1
        BY <3>1, <4>1, BlockFacts DEF last
      <4> QED BY <4>2
    <3> QED BY <1>3, <3>1, <3>2
  <2> QED BY <2>4, <2>5
<1>13. CacheNames'
  <2>1. Listed(slots)' = Listed(slots)
    BY <1>1, <1>3, ListedUsed
  <2>2. CASE cache' = NoCache
    <3>1. View' = slots'
      BY <2>2 DEF View
    <3>2. Listed(View)' = Listed(slots)'
      BY <3>1, ListedUsed
    <3> QED BY <3>2 DEF CacheNames
  <2>3. CASE View' = View /\ cache' = cache
    <3>1. Listed(View)' = Listed(View)
      BY <1>3, <2>3, ListedUsed
    <3> QED BY <1>1, <2>1, <2>3, <3>1 DEF IInv, CacheNames
  <2> QED BY <1>4, <2>2, <2>3
<1>14. NothingFailed'
  <2> SUFFICES ASSUME faults' = 0, ~ spoilt'
               PROVE  /\ cache' = NoCache
                      /\ search'.at # 0 => search'.at = Min({p \in Seen(slots)' : slots'[p] = File(search'.name)})
    BY DEF NothingFailed
  <2>1. faults = 0 /\ cache = NoCache
    BY <1>1, <1>7, Counted DEF IInv, NothingFailed, Works, Fails
  <2>2. cache' = NoCache /\ View = slots
    BY <1>2, <2>1 DEF View
  <2>3. Seen(slots)' = Seen(slots)
    BY <1>1, <1>3 DEF Seen, Before, Ends
  <2>4. {p \in Seen(slots)' : slots'[p] = File(search'.name)} = matches
    BY <1>1, <1>8, <2>2, <2>3
  <2>5. search'.at # 0 => search'.at = Min(matches)
    <3> HIDE DEF matches
    <3> QED BY <1>7
  <2> QED BY <2>2, <2>4, <2>5
<1>15. SearchType'
  BY <1>1, <1>8 DEF SearchType
<1> QED BY <1>3, <1>10, <1>11, <1>12, <1>13, <1>14, <1>15 DEF IInv

LEMMA ForgetKeeps ==
  ASSUME IInv, Forget
  PROVE  IInv' /\ Follows /\ Kept
<1>1. /\ slots' = slots /\ size' = size /\ spoilt' = spoilt /\ faults' = faults /\ ret' # "ok" /\ TypeOK
      /\ \/ cache' = NoCache /\ search' = search
         \/ search' = NoSearch /\ cache' = cache
  BY DEF Forget, IInv
<1>2. Used' = Used /\ Follows /\ Kept
  BY <1>1, Unwritten
<1>3. cache' = NoCache => View' = slots'
  BY DEF View
<1>4. cache' = cache => View' = View
  BY <1>1 DEF View
<1>5. Seen(slots)' = Seen(slots) /\ Listed(slots)' = Listed(slots)
  BY <1>1, <1>2, ListedUsed DEF Seen, Before, Ends
<1>6. NothingBeyondEnd'
  <2>1. ~ spoilt => EndsLast(slots, Used) /\ EndsLast(View, Used)
    BY ListedUsed DEF IInv
  <2>2. ~ spoilt' => \A v \in {slots', View'} : EndsLast(v, Used')
    BY <1>1, <1>2, <1>3, <1>4, <2>1
  <2> QED BY <2>2, ListedUsed
<1>7. TypeOK'
  <2>1. slots' \in [Slots -> Slot] /\ size' \in 1 .. MaxClusters /\ spoilt' \in BOOLEAN /\ faults' \in 0 .. MaxFaults
    BY <1>1 DEF TypeOK
  <2>2. /\ cache' = NoCache \/ cache'.slots \in [Slots -> Slot]
        /\ cache' # NoCache => \A p \in Slots : BlockOf(p) # 1 => cache'.slots[p] = slots'[p]
        /\ cache'.names \subseteq ShortName
    BY <1>1 DEF TypeOK, NoCache
  <2>3. search'.at \in {0} \cup Used'
    BY <1>1, <1>2 DEF TypeOK, NoSearch
  <2> QED BY <2>1, <2>2, <2>3, Zenon DEF TypeOK
<1>8. CacheNames'
  <2>1. CASE cache' = NoCache
    <3>1. Listed(View)' = Listed(slots)'
      BY <1>3, <2>1, ListedUsed
    <3> QED BY <3>1 DEF CacheNames
  <2>2. CASE cache' = cache
    <3>1. Listed(View)' = Listed(View)
      BY <1>2, <1>4, <2>2, ListedUsed
    <3> QED BY <1>1, <1>5, <2>2, <3>1 DEF IInv, CacheNames
  <2> QED BY <1>1, <2>1, <2>2
<1>9. SearchScanned'
  BY <1>1 DEF SearchScanned
<1>10. NothingFailed'
  <2>1. search' = search => (faults' = 0 /\ ~ spoilt' /\ search'.at # 0
          => search'.at = Min({p \in Seen(slots)' : slots'[p] = File(search'.name)}))
    BY <1>1, <1>5 DEF IInv, NothingFailed
  <2>2. faults' = 0 /\ ~ spoilt' => cache' = NoCache
    BY <1>1 DEF IInv, NothingFailed
  <2>3. search' = NoSearch => search'.at = 0
    BY DEF NoSearch
  <2> QED BY <1>1, <2>1, <2>2, <2>3 DEF NothingFailed
<1>11. SearchType'
  BY <1>1 DEF IInv, SearchType, NoSearch
<1> QED BY <1>2, <1>6, <1>7, <1>8, <1>9, <1>10, <1>11 DEF IInv

-----------------------------------------------------------------------------
(* An entry is written *)

\* What a block is written from: the one in the cache, or what is on the device.
BaseOf(p) == IF BlockOf(p) = 1 THEN View ELSE slots
NextOf(p, e) == [BaseOf(p) EXCEPT ![p] = e]

LEMMA PutIs ==
  ASSUME TypeOK, NEW p \in Used, NEW e \in Slot, Put(View, p, e), search.name \in ShortName
  PROVE  /\ NextOf(p, e) \in [Slots -> Slot] /\ NextOf(p, e)[p] = e
         /\ \A q \in Slots : q # p => NextOf(p, e)[q] = BaseOf(p)[q]
         /\ \A q \in Slots : BlockOf(q) # 1 /\ BlockOf(p) = 1 => NextOf(p, e)[q] = slots[q]
         /\ \/ slots' = NextOf(p, e) /\ cache' = NoCache /\ ret' = "ok" /\ faults' = faults
            \/ /\ slots' \in {slots, NextOf(p, e)} /\ ret' = "error" /\ Fails
               /\ \/ cache' = NoCache
                  \/ /\ cache' = [slots |-> NextOf(p, e), names |-> cache.names \cup {search.name}]
                     /\ cache' # NoCache /\ BlockOf(p) = 1
<1> DEFINE next == NextOf(p, e)
           changed == [View EXCEPT ![p] = e]
           written == [q \in Slots |-> IF BlockOf(q) = BlockOf(p) THEN changed[q] ELSE slots[q]]
<1>1. /\ slots \in [Slots -> Slot] /\ View \in [Slots -> Slot] /\ p \in Slots
      /\ \A q \in Slots : BlockOf(q) # 1 => View[q] = slots[q]
  BY Types
<1>2. BaseOf(p) \in [Slots -> Slot]
  BY <1>1 DEF BaseOf
<1>3. next \in [Slots -> Slot] /\ next[p] = e /\ \A q \in Slots : q # p => next[q] = BaseOf(p)[q]
  BY <1>1, <1>2 DEF NextOf
<1>4. \A q \in Slots : BlockOf(q) # 1 /\ BlockOf(p) = 1 => next[q] = slots[q]
  <2> HIDE DEF next
  <2> QED BY <1>1, <1>3 DEF BaseOf
<1>5. BlockOf(p) = 1 => changed = next
  BY DEF NextOf, BaseOf
<1>6. changed[p] = e /\ \A q \in Slots : q # p => changed[q] = View[q]
  BY <1>1
<1>7. written = next
  <2>1. ASSUME NEW q \in Slots PROVE written[q] = next[q]
    <3>1. written[q] = IF BlockOf(q) = BlockOf(p) THEN changed[q] ELSE slots[q]
      OBVIOUS
    <3> HIDE DEF written, changed, next
    <3>2. CASE q = p
      BY <1>3, <1>6, <3>1, <3>2
    <3>3. CASE q # p /\ BlockOf(p) = 1
      <4>1. next[q] = View[q] /\ changed[q] = View[q]
        BY <1>3, <1>6, <3>3 DEF BaseOf
      <4> QED BY <1>1, <3>1, <3>3, <4>1
    <3>4. CASE q # p /\ BlockOf(p) # 1
      <4>1. next[q] = slots[q] /\ changed[q] = View[q]
        BY <1>3, <1>6, <3>4 DEF BaseOf
      <4> QED BY <1>1, <3>1, <3>4, <4>1
    <3> QED BY <3>2, <3>3, <3>4
  <2>2. written \in [Slots -> Slot]
    <3>1. changed \in [Slots -> Slot]
      BY <1>1
    <3> HIDE DEF changed
    <3> QED BY <1>1, <3>1
  <2> HIDE DEF written, next
  <2> QED BY <1>3, <2>1, <2>2
<1>8. \/ slots' = next /\ cache' = NoCache /\ ret' = "ok" /\ faults' = faults
      \/ slots' \in {slots, next} /\ cache' = Unsaved(changed, p) /\ ret' = "error" /\ Fails
  <2> HIDE DEF next
  <2> QED BY <1>7 DEF Put, Works
<1>9. \/ Unsaved(changed, p) = NoCache
      \/ /\ Unsaved(changed, p) = [slots |-> next, names |-> cache.names \cup {search.name}]
         /\ Unsaved(changed, p) # NoCache /\ BlockOf(p) = 1
  <2>1. ASSUME BlockOf(p) = 1
        PROVE  Unsaved(changed, p) = [slots |-> next, names |-> cache.names \cup {search.name}]
    <3> HIDE DEF changed, next
    <3> QED BY <1>5, <2>1 DEF Unsaved
  <2>2. ASSUME BlockOf(p) = 1 PROVE Unsaved(changed, p) # NoCache
    <3>1. Unsaved(changed, p).names = cache.names \cup {search.name} /\ NoCache.names = {}
      <4> HIDE DEF changed, next
      <4> QED BY <2>1, <2>2 DEF NoCache
    <3> QED BY <3>1
  <2>3. BlockOf(p) # 1 => Unsaved(changed, p) = NoCache
    BY DEF Unsaved
  <2> QED BY <2>1, <2>2, <2>3
<1> HIDE DEF next, changed, written
<1>10. \/ slots' = next /\ cache' = NoCache /\ ret' = "ok" /\ faults' = faults
       \/ /\ slots' \in {slots, next} /\ ret' = "error" /\ Fails
          /\ \/ cache' = NoCache
             \/ /\ cache' = [slots |-> next, names |-> cache.names \cup {search.name}]
                /\ cache' # NoCache /\ BlockOf(p) = 1
  BY <1>8, <1>9
<1> QED BY <1>3, <1>4, <1>10 DEF next

\* It keeps the invariant and the other names, when it leaves nothing after an
\* end marker and lists no others.
LEMMA PutKeeps ==
  ASSUME IInv, NEW p \in Used, NEW e \in Slot, Put(View, p, e), search.name \in ShortName,
         UNCHANGED <<size, spoilt>>, search' = NoSearch,
         ~ spoilt => EndsLast(NextOf(p, e), Used),
         ~ spoilt => \A m \in ShortName \ {search.name} : \A q \in Slots :
                       <<q, m>> \in ListedIn(NextOf(p, e), Used) <=> <<q, m>> \in ListedIn(BaseOf(p), Used)
  PROVE  IInv' /\ Kept
<1> DEFINE next == NextOf(p, e)
<1>1. TypeOK /\ next \in [Slots -> Slot] /\ Used' = Used /\ slots \in [Slots -> Slot]
      /\ \A q \in Slots : BlockOf(q) # 1 /\ BlockOf(p) = 1 => next[q] = slots[q]
  BY PutIs, Types DEF IInv, Used
<1>2. \/ slots' = next /\ cache' = NoCache /\ ret' = "ok" /\ faults' = faults
      \/ /\ slots' \in {slots, next} /\ ret' = "error" /\ Fails
         /\ \/ cache' = NoCache
            \/ /\ cache' = [slots |-> next, names |-> cache.names \cup {search.name}]
               /\ cache' # NoCache /\ BlockOf(p) = 1
  <2>1. TypeOK
    BY <1>1
  <2> QED BY <2>1, PutIs, Zenon DEF next
<1> HIDE DEF next
<1>3. slots' \in {slots, next} /\ faults' \in 0 .. MaxFaults
  BY <1>1, <1>2, Counted DEF Works
<1>4. cache' = NoCache => View' = slots'
  BY DEF View
<1>5. cache' # NoCache => View' = next /\ cache'.slots = next /\ cache'.names = cache.names \cup {search.name}
                          /\ BlockOf(p) = 1
  BY <1>2 DEF View
<1>6. TypeOK'
  <2>1. slots' \in [Slots -> Slot] /\ size' \in 1 .. MaxClusters /\ spoilt' \in BOOLEAN
    BY <1>1, <1>3 DEF TypeOK
  <2>2. cache' # NoCache => \A q \in Slots : BlockOf(q) # 1 => cache'.slots[q] = slots'[q]
    BY <1>1, <1>3, <1>5
  <2>3. cache'.names \subseteq ShortName
    <3>1. cache.names \subseteq ShortName /\ NoCache.names = {}
      BY <1>1 DEF TypeOK, NoCache
    <3> QED BY <1>5, <3>1
  <2>4. search'.at \in {0} \cup Used'
    BY DEF NoSearch
  <2>5. cache' = NoCache \/ cache'.slots \in [Slots -> Slot]
    BY <1>1, <1>5
  <2> QED BY <1>3, <2>1, <2>2, <2>3, <2>4, <2>5, Zenon DEF TypeOK
<1>7. ~ spoilt => EndsLast(slots, Used) /\ EndsLast(next, Used)
  BY ListedUsed DEF IInv, next
<1>8. NothingBeyondEnd'
  <2>1. View' \in {slots, next}
    BY <1>3, <1>4, <1>5
  <2>2. ~ spoilt' => \A v \in {slots', View'} : EndsLast(v, Used')
    BY <1>1, <1>3, <1>7, <2>1
  <2> QED BY <2>2, ListedUsed
<1>9. SearchScanned' /\ SearchType'
  BY DEF NoSearch, SearchScanned, SearchType
<1>10. NothingFailed'
  <2>1. faults' = 0 => cache' = NoCache
    BY <1>1, <1>2, Counted
  <2> QED BY <2>1 DEF NothingFailed, NoSearch
<1>11. ASSUME ~ spoilt, NEW m \in ShortName \ (cache.names \cup {search.name}), NEW q \in Slots
       PROVE  <<q, m>> \in ListedIn(next, Used) <=> <<q, m>> \in ListedIn(slots, Used)
  <2>1. <<q, m>> \in ListedIn(next, Used) <=> <<q, m>> \in ListedIn(BaseOf(p), Used)
    BY <1>11 DEF next
  <2>2. <<q, m>> \in ListedIn(View, Used) <=> <<q, m>> \in ListedIn(slots, Used)
    BY <1>11, ListedUsed DEF IInv, CacheNames
  <2>3. BaseOf(p) = View \/ BaseOf(p) = slots
    BY DEF BaseOf
  <2> QED BY <2>1, <2>2, <2>3
<1>12. CacheNames'
  <2>1. CASE cache' = NoCache
    <3>1. Listed(View)' = Listed(slots)'
      BY <1>4, <2>1, ListedUsed
    <3> QED BY <3>1 DEF CacheNames
  <2>2. CASE cache' # NoCache
    <3> SUFFICES ASSUME ~ spoilt', NEW m \in ShortName \ cache'.names, NEW q \in Slots
                 PROVE  <<q, m>> \in Listed(View)' <=> <<q, m>> \in Listed(slots)'
      BY DEF CacheNames
    <3>1. m \in ShortName \ (cache.names \cup {search.name})
      BY <1>5, <2>2
    <3>2. Listed(View)' = ListedIn(next, Used) /\ Listed(slots)' = ListedIn(slots', Used)
      BY <1>1, <1>5, <2>2, ListedUsed
    <3> QED BY <1>3, <1>11, <3>1, <3>2
  <2> QED BY <2>1, <2>2
<1>13. Kept
  <2> SUFFICES ASSUME ~ spoilt', NEW m \in ShortName \ (cache.names \cup {search.name}), NEW q \in Slots
               PROVE  <<q, m>> \in Listed(slots)' <=> <<q, m>> \in Listed(slots)
    BY DEF Kept
  <2>1. Listed(slots)' = ListedIn(slots', Used) /\ Listed(slots) = ListedIn(slots, Used)
    BY <1>1, ListedUsed
  <2> QED BY <1>3, <1>11, <2>1
<1> QED BY <1>6, <1>8, <1>9, <1>10, <1>12, <1>13 DEF IInv

\* After a search that found nothing, a place that is free where one looks is
\* free on the device too: the first is in the block that the cache has, or it
\* has none.
LEMMA ScannedAgain ==
  ASSUME IInv, search # NoSearch, search.at = 0, NEW free, free = {p \in Used : ~ IsValid(View[p])}
  PROVE  /\ free # {} => Min(free) \in free /\ BaseOf(Min(free)) = View
                         /\ \A q \in free : Min(free) <= q
         /\ free = {} /\ ~ Fixed => cache = NoCache
<1>1. TypeOK /\ Used \subseteq Nat \ {0} /\ free \subseteq Nat /\ free \subseteq Used
  BY Types DEF IInv
<1>2. free # {} => Min(free) \in free /\ \A q \in free : Min(free) <= q
  BY <1>1, MinIs
<1>3. Ends(View) \subseteq free
  BY SlotFacts DEF Ends
<1>4. ASSUME free = {}, ~ Fixed PROVE cache = NoCache
  BY <1>3, <1>4 DEF IInv, SearchScanned
<1>5. ASSUME free # {} PROVE BaseOf(Min(free)) = View
  <2> DEFINE p == Min(free)
  <2>1. p \in Used /\ \A q \in free : p <= q
    BY <1>1, <1>2, <1>5
  <2> HIDE DEF p
  <2>2. CASE cache = NoCache
    <3>1. View = slots
      BY <2>2 DEF View
    <3> QED BY <3>1 DEF BaseOf, p
  <2>3. CASE cache # NoCache
    <3>1. PICK q \in Used : BlockOf(q) = 1 /\ p <= q
      <4>1. CASE \E q \in Ends(View) : BlockOf(q) = 1
        BY <1>1, <1>3, <2>1, <4>1
      <4>2. CASE \A q \in Used : BlockOf(q) = 1
        <5>1. p <= p
          BY <1>1, <2>1
        <5> QED BY <2>1, <4>2, <5>1
      <4> QED BY <2>3, <4>1, <4>2 DEF IInv, SearchScanned
    <3>2. BlockOf(p) <= 1 /\ BlockOf(p) \in Nat \ {0}
      BY <1>1, <2>1, <3>1, BlockFacts
    <3>3. BlockOf(p) = 1
      BY <3>2
    <3> QED BY <3>3 DEF BaseOf, p
  <2> QED BY <2>2, <2>3
<1> QED BY <1>2, <1>4, <1>5

LEMMA Named ==
  ASSUME NEW n \in GivenNames
  PROVE  n \in ShortName /\ File(n) \in Slot /\ \A at : [name |-> n, at |-> at] # NoSearch
BY SizeAssumption, SlotFacts DEF GivenNames, NoSearch

\* An entry in a place of the directory that is free.
LEMMA PlaceKeeps ==
  ASSUME IInv, NEW n \in GivenNames, search = [name |-> n, at |-> 0],
         NEW free, free = {p \in Used : ~ IsValid(View[p])}, free # {},
         Put(View, Min(free), File(n)), UNCHANGED <<size, spoilt>>, search' = NoSearch
  PROVE  IInv' /\ Follows /\ Kept
<1> DEFINE p == Min(free)
           next == NextOf(p, File(n))
<1>1. search # NoSearch /\ search.at = 0 /\ search.name = n /\ n \in ShortName /\ File(n) \in Slot
  BY Named
<1>2. TypeOK /\ Used \subseteq Slots /\ Used \subseteq Nat /\ Used' = Used
  BY Types DEF IInv, Used
<1>3. p \in Used /\ ~ IsValid(View[p]) /\ BaseOf(p) = View /\ \A q \in Used : ~ IsValid(View[q]) => p <= q
  BY <1>1, ScannedAgain
<1>4. Put(View, p, File(n))
  OBVIOUS
<1> HIDE DEF p
<1>5. next[p] = File(n) /\ \A q \in Used : q # p => next[q] = View[q]
  BY <1>1, <1>2, <1>3, <1>4, PutIs
<1> HIDE DEF next
<1>6. ASSUME ~ spoilt
      PROVE  /\ EndsLast(next, Used) /\ p \notin FilesOf(View, Used)
             /\ ListedIn(next, Used) = ListedIn(View, Used) \cup {<<p, n>>}
  <2>1. EndsLast(View, Used)
    BY <1>6, ListedUsed DEF IInv
  <2>2. \A q \in Used : ~ IsValid(View[q]) => p <= q
    BY <1>3
  <2>3. \A q \in Used : q # p => next[q] = View[q]
    BY <1>5
  <2>4. Used \subseteq Nat /\ p \in Used /\ ~ IsValid(View[p]) /\ next[p] = File(n)
    BY <1>2, <1>3, <1>5
  <2>5. Places(View, next, p, n, Used)
    BY <2>1, <2>2, <2>3, <2>4 DEF Places
  <2> QED BY <2>5, Added
<1>7. IInv' /\ Kept
  <2>1. ~ spoilt => EndsLast(next, Used)
    BY <1>6
  <2>2. ASSUME ~ spoilt, NEW m \in ShortName \ {search.name}, NEW q \in Slots
        PROVE  <<q, m>> \in ListedIn(next, Used) <=> <<q, m>> \in ListedIn(BaseOf(p), Used)
    BY <1>1, <1>3, <1>6, <2>2
  <2> QED BY <1>1, <1>3, <1>4, <2>1, <2>2, PutKeeps DEF next
<1>8. Follows
  <2> SUFFICES ASSUME faults' = 0, ~ spoilt'
               PROVE  /\ ret' = "ok"
                      /\ p \notin Listing(slots)
                      /\ Listed(slots)' = Listed(slots) \cup {<<p, n>>}
    BY <1>1, <1>2, <1>3 DEF Follows
  <2>1. slots' = next /\ ret' = "ok" /\ faults' = faults
    BY <1>1, <1>2, <1>3, <1>4, PutIs, Counted DEF next
  <2>2. View = slots
    BY <2>1 DEF IInv, NothingFailed, View
  <2>3. Listed(slots)' = ListedIn(next, Used) /\ Listed(slots) = ListedIn(slots, Used) /\ Listing(slots) = FilesOf(slots, Used)
    BY <1>2, <2>1, ListedUsed
  <2> QED BY <1>6, <2>1, <2>2, <2>3
<1> QED BY <1>7, <1>8

LEMMA DeleteKeeps ==
  ASSUME IInv, NEW n \in GivenNames, DeleteDirectoryEntry(n)
  PROVE  IInv' /\ Follows /\ Kept
<1> DEFINE matches == DeleteMatches(View, n)
           p == Min(matches)
           next == NextOf(p, Deleted)
<1>1. n \in ShortName /\ search.name = n /\ search.at # 0 /\ search' = NoSearch
  BY Named DEF DeleteDirectoryEntry
<1>2. TypeOK /\ Used \subseteq Slots /\ Used \subseteq Nat /\ Deleted \in Slot
  BY Types, SlotFacts DEF IInv
<1>3. matches \subseteq Used /\ \A q \in matches : View[q] = File(n)
  BY DEF DeleteMatches
<1>4. CASE matches # {} /\ Put(View, p, Marked(p)) /\ UNCHANGED <<size, spoilt>>
  <2>1. Put(View, p, Deleted) /\ Used' = Used
    BY <1>4 DEF Marked, Used
  <2>2. p \in matches
    <3>1. matches \subseteq Nat
      BY <1>2, <1>3
    <3> HIDE DEF matches
    <3> QED BY <1>4, <3>1, MinIs
  <2>3. p \in Used /\ View[p] = File(n)
    BY <1>3, <2>2
  <2> HIDE DEF p, matches
  <2>4. next[p] = Deleted /\ \A q \in Used : q # p => next[q] = BaseOf(p)[q]
    BY <1>1, <1>2, <2>1, <2>3, PutIs
  <2>5. BaseOf(p)[p] = File(n) /\ (BaseOf(p) = View \/ BaseOf(p) = slots)
    BY <1>2, <2>3, Types DEF BaseOf
  <2> HIDE DEF next
  <2>6. ASSUME ~ spoilt
        PROVE  /\ EndsLast(next, Used) /\ p \in FilesOf(BaseOf(p), Used)
               /\ ListedIn(next, Used) = ListedIn(BaseOf(p), Used) \ {<<p, n>>}
    <3>1. EndsLast(BaseOf(p), Used)
      BY <2>5, <2>6, ListedUsed DEF IInv
    <3>2. \A q \in Used : q # p => next[q] = BaseOf(p)[q]
      BY <2>4
    <3>3. Used \subseteq Nat /\ p \in Used /\ BaseOf(p)[p] = File(n) /\ next[p] = Deleted
      BY <1>2, <2>3, <2>4, <2>5
    <3>4. Strikes(BaseOf(p), next, p, n, Used)
      BY <3>1, <3>2, <3>3 DEF Strikes
    <3> QED BY <3>4, Removed
  <2>7. IInv' /\ Kept
    <3>1. ~ spoilt => EndsLast(next, Used)
      BY <2>6
    <3>2. ASSUME ~ spoilt, NEW m \in ShortName \ {search.name}, NEW q \in Slots
          PROVE  <<q, m>> \in ListedIn(next, Used) <=> <<q, m>> \in ListedIn(BaseOf(p), Used)
      BY <1>1, <2>6, <3>2
    <3> QED BY <1>1, <1>2, <1>4, <2>1, <2>3, <3>1, <3>2, PutKeeps DEF next
  <2>8. Follows
    <3> SUFFICES ASSUME faults' = 0, ~ spoilt'
                 PROVE  /\ ret' = "ok"
                        /\ <<search.at, n>> \in Listed(slots)
                        /\ Listed(slots)' = Listed(slots) \ {<<search.at, n>>}
      BY <1>1 DEF Follows
    <3>1. slots' = next /\ ret' = "ok" /\ faults' = faults
      BY <1>1, <1>2, <2>1, <2>3, PutIs, Counted DEF next
    <3>2. View = slots /\ search.at = Min({q \in Seen(slots) : slots[q] = File(n)}) /\ ~ spoilt
      BY <1>1, <1>4, <3>1 DEF IInv, NothingFailed, View
    <3>3. matches = {q \in Seen(slots) : slots[q] = File(n)}
      <4>1. EndsLast(slots, Used)
        BY <3>2, ListedUsed DEF IInv
      <4>2. ASSUME NEW q \in Used, slots[q] = File(n) PROVE q \in Seen(slots) /\ \A e \in Ends(slots) : q < e
        <5>1. ASSUME NEW e \in Ends(slots), ~ (q < e) PROVE FALSE
          <6>1. e \in Used /\ slots[e] = End /\ slots[q] # End
            BY <4>2, SlotFacts DEF Ends
          <6>2. e # q /\ e \in Nat /\ q \in Nat
            BY <1>2, <6>1
          <6>3. q > e
            BY <5>1, <6>2
          <6>4. e \in Marks(slots, Used)
            BY <6>1 DEF Marks
          <6> QED BY <4>1, <6>1, <6>3, <6>4 DEF EndsLast
        <5>2. IsValid(slots[q])
          BY <4>2, SlotFacts
        <5> QED BY <5>1, <5>2 DEF Seen, Before
      <4>3. Seen(slots) \subseteq Used
        BY DEF Seen
      <4> QED BY <3>2, <4>2, <4>3 DEF matches, DeleteMatches
    <3>4. p = search.at
      BY <3>2, <3>3 DEF p
    <3>5. Listed(slots)' = ListedIn(next, Used) /\ Listed(slots) = ListedIn(slots, Used)
      BY <2>1, <3>1, ListedUsed
    <3>6. BaseOf(p) = slots
      BY <2>5, <3>2
    <3>7. <<p, n>> \in ListedIn(slots, Used)
      <4>1. p \in FilesOf(slots, Used) /\ slots[p] = File(n)
        BY <2>5, <2>6, <3>2, <3>6
      <4>2. slots[p].name = n
        BY <4>1, SlotFacts
      <4> QED BY <4>1, <4>2 DEF ListedIn
    <3> QED BY <2>6, <3>1, <3>2, <3>4, <3>5, <3>6, <3>7
  <2> QED BY <2>7, <2>8
<1>5. CASE /\ matches = {} /\ ret' = "NotFound" /\ cache' = ScannedAll
           /\ Works /\ UNCHANGED <<slots, size, spoilt>>
  <2>1. search' = NoSearch /\ ret' # "ok" /\ faults' \in 0 .. MaxFaults
    BY <1>1, <1>2, <1>5, Counted
  <2> QED BY <1>5, <2>1, RestKeeps
<1>6. CASE Stopped
  <2>1. /\ search' = NoSearch /\ ret' # "ok" /\ faults' \in 0 .. MaxFaults /\ cache' = NoCache
        /\ UNCHANGED <<slots, size, spoilt>>
    BY <1>1, <1>2, <1>6, Counted DEF Stopped
  <2> QED BY <2>1, StopKeeps
<1> QED BY <1>4, <1>5, <1>6 DEF DeleteDirectoryEntry

\* The directory becomes longer: blank beyond the entries that are there.
LEMMA GrowKeeps ==
  ASSUME IInv, NEW n \in GivenNames, search = [name |-> n, at |-> 0], search' = NoSearch,
         {p \in Used : ~ IsValid(View[p])} = {}, ~ Fixed, Grow(n), cache' = NoCache
  PROVE  IInv' /\ Follows /\ Kept
<1> DEFINE last == (size + 1) * BlocksPerCluster
           blank == BlankedTo(last + 1)
           new == size * SlotsPerCluster + 1
           entry == [blank EXCEPT ![new] = File(n)]
<1>1. search # NoSearch /\ search.at = 0 /\ search.name = n /\ n \in ShortName /\ File(n) \in Slot
  BY Named
<1>2. TypeOK /\ Used \subseteq Slots /\ slots \in [Slots -> Slot] /\ size \in Nat /\ size >= 1
  BY Types DEF IInv
<1>3. cache = NoCache /\ View = slots
  <2>1. cache = NoCache
    BY <1>1, ScannedAgain
  <2> QED BY <2>1 DEF View
<1>4. \A p \in Used : IsValid(slots[p]) /\ slots[p] # End
  BY <1>3, SlotFacts
<1>5. \A b : BlankedTo(b) \in [Slots -> Slot]
  BY <1>2, SlotFacts DEF BlankedTo
<1>6. entry \in [Slots -> Slot]
  BY <1>1, <1>5
<1> HIDE DEF last
<1>7. /\ slots' \in [Slots -> Slot] /\ size' \in 1 .. MaxClusters /\ spoilt' \in BOOLEAN
      /\ Fails \/ Works
  <2>1. slots' \in {slots, blank, entry} \/ \E b : slots' = BlankedTo(b)
    BY DEF Grow, last
  <2>2. slots' \in [Slots -> Slot]
    <3> HIDE DEF blank, entry
    <3> QED BY <1>2, <1>5, <1>6, <2>1 DEF blank
  <2>3. size' \in 1 .. MaxClusters
    BY <1>2, Types, SizeFacts DEF Grow
  <2>4. spoilt' \in BOOLEAN
    BY <1>2 DEF Grow, TypeOK
  <2>5. Fails \/ Works
    BY DEF Grow
  <2> QED BY <2>2, <2>3, <2>4, <2>5
<1>8. TypeOK'
  <2>1. faults' \in 0 .. MaxFaults
    BY <1>2, <1>7, Counted
  <2>2. search'.at \in {0} \cup Used' /\ cache'.names \subseteq ShortName
    BY DEF NoSearch, NoCache
  <2> QED BY <1>7, <2>1, <2>2, Zenon DEF TypeOK
<1>9. ASSUME ~ spoilt'
      PROVE  \/ slots' = slots /\ size' = size /\ spoilt' = spoilt /\ ret' # "ok"
             \/ /\ size' = size + 1 /\ size < MaxClusters /\ spoilt' = spoilt
                /\ \/ slots' = entry /\ ret' = "ok" /\ Works
                   \/ slots' \in {blank, entry} /\ ret' = "error" /\ Fails
  BY <1>9 DEF Grow, last
<1>10. CASE slots' = slots /\ size' = size /\ spoilt' = spoilt /\ ret' # "ok"
  <2>1. faults' \in 0 .. MaxFaults
    BY <1>2, <1>7, Counted
  <2> QED BY <1>10, <2>1, StopKeeps
<1>11. CASE /\ size' = size + 1 /\ size < MaxClusters /\ spoilt' = spoilt /\ ~ spoilt
            /\ \/ slots' = entry /\ ret' = "ok" /\ Works
               \/ slots' \in {blank, entry} /\ ret' = "error" /\ Fails
  <2> DEFINE c == size * SlotsPerCluster
  <2>1. c \in Nat /\ SlotsPerCluster \in Nat /\ SlotsPerCluster > 0
    BY <1>2, ClusterFacts, SizeFacts
  <2>2. (size + 1) * SlotsPerCluster = c + SlotsPerCluster
    BY <1>2, ClusterFacts
  <2>3. /\ 1 .. (size + 1) * SlotsPerCluster \subseteq Slots
        /\ \A p \in 1 .. (size + 1) * SlotsPerCluster : BlockOf(p) < last + 1
    <3>1. size + 1 \in Nat /\ size + 1 <= MaxClusters
      BY <1>2, <1>11, SizeFacts
    <3> QED BY <3>1, ClusterFacts DEF last
  <2>4. Used = 1 .. c /\ Used' = 1 .. (size + 1) * SlotsPerCluster
    BY <1>11 DEF Used
  <2> HIDE DEF c
  <2>5. Used' = Used \cup (c + 1) .. (c + SlotsPerCluster) /\ Used' \subseteq Slots /\ Used' \subseteq Nat
    BY <2>1, <2>2, <2>3, <2>4
  <2>6. \A p \in Used' : blank[p] = IF p > c THEN End ELSE slots[p]
    BY <2>3, <2>4, <2>5 DEF BlankedTo, c
  <2>7. \A p \in Used : blank[p] = slots[p] /\ ~ (p > c)
    <3>1. \A p \in Used : p \in Used' /\ ~ (p > c)
      BY <2>1, <2>4, <2>5
    <3> HIDE DEF blank
    <3> QED BY <2>6, <3>1
  <2>8. new = c + 1 /\ new \in Used' /\ new > c
    BY <2>1, <2>5 DEF c
  <2>9. blank \in [Slots -> Slot]
    BY <1>5
  <2> HIDE DEF blank, new
  <2>10. entry[new] = File(n) /\ \A q \in Used' : q # new => entry[q] = blank[q]
    BY <2>5, <2>8, <2>9
  <2> HIDE DEF entry
  <2>11. Marks(blank, Used') = {p \in Used' : p > c}
    <3>1. ASSUME NEW p \in Used' PROVE blank[p] = End <=> p > c
      <4>1. CASE p > c
        BY <2>6, <4>1
      <4>2. CASE ~ (p > c)
        <5>1. p \in Used
          BY <2>1, <2>4, <2>5, <4>2
        <5> QED BY <1>4, <2>7, <4>2, <5>1
      <4> QED BY <4>1, <4>2
    <3> QED BY <3>1 DEF Marks
  <2>12. EndsLast(blank, Used')
    <3> SUFFICES ASSUME NEW e \in Used', e > c, NEW q \in Used', q > e PROVE blank[q] = End
      BY <2>11 DEF EndsLast
    <3>1. e \in Nat /\ q \in Nat
      BY <2>5
    <3>2. q > c
      BY <2>1, <3>1
    <3> QED BY <2>6, <3>2
  <2>13. FilesOf(blank, Used') = FilesOf(slots, Used)
    <3>1. Marks(slots, Used) = {}
      BY <1>4 DEF Marks
    <3>2. ASSUME NEW p \in Used PROVE p \in FilesOf(blank, Used') <=> p \in FilesOf(slots, Used)
      <4>1. p \in Used' /\ blank[p] = slots[p]
        BY <2>5, <2>7
      <4>2. \A q \in Marks(blank, Used') : p < q
        <5> SUFFICES ASSUME NEW q \in Used', q > c PROVE p < q
          BY <2>11
        <5>1. p \in Nat /\ q \in Nat /\ ~ (p > c)
          BY <2>5, <2>7, <4>1
        <5> QED BY <2>1, <5>1
      <4> QED BY <3>1, <4>1, <4>2 DEF FilesOf
    <3>3. ASSUME NEW p \in Used', p \notin Used PROVE p \notin FilesOf(blank, Used')
      <4>1. p > c
        BY <2>1, <2>4, <2>5, <3>3
      <4>2. blank[p] = End
        BY <2>6, <4>1
      <4> QED BY <4>2, SlotFacts DEF FilesOf
    <3>4. FilesOf(blank, Used') \subseteq Used' /\ FilesOf(slots, Used) \subseteq Used
      BY DEF FilesOf
    <3> QED BY <3>2, <3>3, <3>4
  <2>14. ListedIn(blank, Used') = ListedIn(slots, Used)
    <3>1. \A p \in FilesOf(slots, Used) : blank[p].name = slots[p].name
      BY <2>7 DEF FilesOf
    <3> QED BY <2>13, <3>1 DEF ListedIn
  <2>15. ~ IsValid(blank[new]) /\ \A q \in Used' : ~ IsValid(blank[q]) => new <= q
    <3>1. blank[new] = End
      BY <2>6, <2>8
    <3>2. ASSUME NEW q \in Used', ~ IsValid(blank[q]) PROVE new <= q
      <4>1. q \notin Used
        BY <1>4, <2>7, <3>2
      <4> QED BY <2>1, <2>4, <2>5, <2>8, <4>1
    <3> QED BY <3>1, <3>2, SlotFacts
  <2>16. Places(blank, entry, new, n, Used')
    BY <2>5, <2>8, <2>10, <2>12, <2>15 DEF Places
  <2>17. /\ EndsLast(entry, Used') /\ new \notin FilesOf(slots, Used)
         /\ ListedIn(entry, Used') = ListedIn(slots, Used) \cup {<<new, n>>}
    BY <2>13, <2>14, <2>16, Added
  <2>18. slots' \in {blank, entry}
    BY <1>11
  <2>19. EndsLast(slots', Used')
    BY <2>12, <2>17, <2>18
  <2>20. IInv'
    BY <1>8, <2>19, NothingCached DEF IInv
  <2>21. Listed(slots)' = ListedIn(slots', Used') /\ Listed(slots) = ListedIn(slots, Used) /\ Listing(slots) = FilesOf(slots, Used)
    BY ListedUsed
  <2>22. Kept
    <3> SUFFICES ASSUME NEW m \in ShortName \ (cache.names \cup {search.name}), NEW p \in Slots
                 PROVE  <<p, m>> \in Listed(slots)' <=> <<p, m>> \in Listed(slots)
      BY DEF Kept
    <3> QED BY <1>1, <2>14, <2>17, <2>18, <2>21
  <2>23. Follows
    <3> SUFFICES ASSUME faults' = 0
                 PROVE  /\ ret' = "ok" /\ new \in Slots
                        /\ new \notin Listing(slots)
                        /\ Listed(slots)' = Listed(slots) \cup {<<new, n>>}
      BY <1>1 DEF Follows
    <3>1. slots' = entry /\ ret' = "ok"
      BY <1>2, <1>11, Counted
    <3> QED BY <2>5, <2>8, <2>17, <2>21, <3>1
  <2> QED BY <2>20, <2>22, <2>23
<1>12. CASE spoilt'
  <2>1. IInv'
    BY <1>8, <1>12, NothingCached DEF IInv
  <2> QED BY <1>12, <2>1 DEF Follows, Kept
<1> HIDE DEF entry, blank
<1> QED BY <1>9, <1>10, <1>11, <1>12

LEMMA WriteKeeps ==
  ASSUME IInv, NEW n \in GivenNames, WriteNewDirectoryEntry(n)
  PROVE  IInv' /\ Follows /\ Kept
<1> DEFINE free == {p \in Used : ~ IsValid(View[p])}
<1>1. search = [name |-> n, at |-> 0] /\ search' = NoSearch /\ TypeOK
  BY DEF WriteNewDirectoryEntry, IInv
<1>2. CASE free # {} /\ Put(View, Min(free), File(n)) /\ UNCHANGED <<size, spoilt>>
  <2> HIDE DEF free
  <2> QED BY <1>1, <1>2, PlaceKeeps DEF free
<1>3. CASE free = {} /\ ~ Fixed /\ Grow(n) /\ cache' = NoCache
  BY <1>1, <1>3, GrowKeeps
<1>4. CASE /\ free = {} /\ Fixed /\ ret' = "NotEnoughSpace" /\ cache' = ScannedAll
           /\ Works /\ UNCHANGED <<slots, size, spoilt>>
  <2>1. ret' # "ok"
    BY <1>4
  <2> QED BY <1>1, <1>4, <2>1, RestKeeps
<1>5. CASE Stopped
  <2>1. ret' # "ok" /\ faults' \in 0 .. MaxFaults /\ cache' = NoCache /\ UNCHANGED <<slots, size, spoilt>>
    BY <1>1, <1>5, Counted DEF Stopped
  <2> QED BY <1>1, <2>1, StopKeeps
<1> QED BY <1>2, <1>3, <1>4, <1>5 DEF WriteNewDirectoryEntry

-----------------------------------------------------------------------------
(* The other computer *)

LEMMA ElsewhereKeeps ==
  ASSUME IInv, PutBack, UNCHANGED <<size, faults, spoilt>>, slots' \in [Slots -> Slot],
         ~ spoilt => EndsLast(slots', Used)
  PROVE  IInv' /\ Follows /\ Kept
<1>1. cache' = NoCache /\ search' = NoSearch /\ ret' = "elsewhere" /\ Used' = Used
  BY DEF PutBack, Used
<1>2. TypeOK'
  <2>1. search'.at \in {0} \cup Used' /\ cache'.names \subseteq ShortName
    BY <1>1 DEF NoSearch, NoCache
  <2>2. size' \in 1 .. MaxClusters /\ faults' \in 0 .. MaxFaults /\ spoilt' \in BOOLEAN
    BY DEF IInv, TypeOK
  <2> QED BY <1>1, <2>1, <2>2, Zenon DEF TypeOK
<1>3. ~ spoilt' => EndsLast(slots', Used')
  BY <1>1
<1>4. Follows /\ Kept
  BY <1>1 DEF Follows, Kept
<1> QED BY <1>1, <1>2, <1>3, <1>4, NothingCached DEF IInv

\* The first place that is long enough is not behind an end marker, or the end
\* marker would be one.
LEMMA WrittenElsewhereKeeps ==
  ASSUME IInv, NEW f \in Foreign, WrittenElsewhere(f)
  PROVE  IInv' /\ Follows /\ Kept
<1> DEFINE run == Append(LongNameRun(f.long, Csum[f.short]), File(f.short))
           Fits(p) == \A i \in 0 .. Len(run) - 1 : p + i \in Used /\ ~ IsValid(slots[p + i])
           fitting == {p \in Used : Fits(p)}
           at == Min(fitting)
<1>1. TypeOK /\ Used \subseteq Slots /\ Used \subseteq Nat /\ Slots \subseteq Nat /\ slots \in [Slots -> Slot]
  BY Types DEF IInv
<1>2. Len(run) \in Nat /\ Len(run) > 0 /\ \A i \in 1 .. Len(run) : run[i] \in Slot /\ run[i] # End
  BY RunIsEntries
<1>3. fitting # {}
  BY DEF WrittenElsewhere
<1>4. slots' = [p \in Slots |-> IF p - at \in 0 .. Len(run) - 1 THEN run[p - at + 1] ELSE slots[p]]
  BY DEF WrittenElsewhere
<1>5. PutBack /\ UNCHANGED <<size, faults, spoilt>>
  BY DEF WrittenElsewhere
<1> HIDE DEF run, Fits
<1>6. at \in fitting /\ \A p \in fitting : at <= p
  <2>1. fitting \subseteq Nat
    BY <1>1
  <2> HIDE DEF fitting
  <2> QED BY <1>3, <2>1, MinIs
<1> HIDE DEF at
<1>7. at \in Used /\ at \in Nat /\ Fits(at)
  BY <1>1, <1>6
<1>8. slots' \in [Slots -> Slot]
  <2>1. ASSUME NEW p \in Slots
        PROVE  (IF p - at \in 0 .. Len(run) - 1 THEN run[p - at + 1] ELSE slots[p]) \in Slot
    <3>1. p - at \in 0 .. Len(run) - 1 => p - at + 1 \in 1 .. Len(run)
      BY <1>1, <1>2, <1>7
    <3> QED BY <1>1, <1>2, <3>1
  <2> QED BY <1>4, <2>1
<1>9. ASSUME ~ spoilt PROVE EndsLast(slots', Used)
  <2> SUFFICES ASSUME NEW e \in Used, slots'[e] = End, NEW q \in Used, q > e, slots'[q] # End PROVE FALSE
    BY DEF EndsLast, Marks
  <2>1. e \in Nat /\ q \in Nat /\ e \in Slots /\ q \in Slots
    BY <1>1
  <2>2. EndsLast(slots, Used)
    BY <1>9, ListedUsed DEF IInv
  <2>3. ~ (e - at \in 0 .. Len(run) - 1) /\ slots[e] = End
    <3>1. e - at \in 0 .. Len(run) - 1 => e - at + 1 \in 1 .. Len(run)
      BY <1>2, <1>7, <2>1
    <3>2. slots'[e] = IF e - at \in 0 .. Len(run) - 1 THEN run[e - at + 1] ELSE slots[e]
      BY <1>4, <2>1
    <3> QED BY <1>2, <3>1, <3>2
  <2>4. \A p \in Used : p >= e => slots[p] = End
    <3>1. e \in Marks(slots, Used)
      BY <2>3 DEF Marks
    <3>2. ASSUME NEW p \in Used, p >= e PROVE slots[p] = End
      <4>1. p \in Nat
        BY <1>1
      <4>2. p = e \/ p > e
        BY <2>1, <3>2, <4>1
      <4> QED BY <2>2, <2>3, <3>1, <4>2 DEF EndsLast
    <3> QED BY <3>2
  <2>5. q - at \in 0 .. Len(run) - 1
    <3>1. slots[q] = End
      BY <2>1, <2>4
    <3>2. slots'[q] = IF q - at \in 0 .. Len(run) - 1 THEN run[q - at + 1] ELSE slots[q]
      BY <1>4, <2>1
    <3> QED BY <3>1, <3>2
  <2>6. e < at
    BY <1>2, <1>7, <2>1, <2>3, <2>5
  <2>7. Fits(e)
    <3> SUFFICES ASSUME NEW i \in 0 .. Len(run) - 1 PROVE e + i \in Used /\ ~ IsValid(slots[e + i])
      BY DEF Fits
    <3>1. i \in Nat /\ e + i \in Nat /\ e + i >= e /\ i <= Len(run) - 1
      BY <1>2, <2>1
    <3>2. at + (Len(run) - 1) \in Used
      <4>1. Len(run) - 1 \in 0 .. Len(run) - 1
        BY <1>2
      <4> QED BY <1>7, <4>1 DEF Fits
    <3>3. e + i <= at + (Len(run) - 1)
      BY <1>2, <1>7, <2>1, <2>6, <3>1
    <3>4. e + i \in Used
      <4>1. size * SlotsPerCluster \in Nat /\ Used = 1 .. size * SlotsPerCluster
        BY <1>1, Types, ClusterFacts DEF Used
      <4>2. e >= 1
        BY <4>1
      <4>3. at + (Len(run) - 1) <= size * SlotsPerCluster
        BY <3>2, <4>1
      <4>4. at + (Len(run) - 1) \in Nat
        BY <1>2, <1>7
      <4> HIDE DEF at
      <4> QED BY <3>1, <3>3, <4>1, <4>2, <4>3, <4>4
    <3> QED BY <2>4, <3>1, <3>4, SlotFacts
  <2>8. at <= e
    BY <1>6, <2>7
  <2> QED BY <1>7, <2>1, <2>6, <2>8
<1> QED BY <1>5, <1>8, <1>9, ElsewhereKeeps

LEMMA DeletedElsewhereKeeps ==
  ASSUME IInv, NEW p \in Used, DeletedElsewhere(p)
  PROVE  IInv' /\ Follows /\ Kept
<1> DEFINE gone == {p} \cup OwnPieces(slots, p)
<1>1. TypeOK /\ Used \subseteq Slots /\ Used \subseteq Nat /\ slots \in [Slots -> Slot] /\ Deleted \in Slot
  BY Types, SlotFacts DEF IInv
<1>2. /\ p \in Listing(slots) /\ PutBack /\ UNCHANGED <<size, faults, spoilt>>
      /\ slots' = [q \in Slots |-> IF q \in gone THEN Deleted ELSE slots[q]]
  BY DEF DeletedElsewhere
<1>3. p \in Nat /\ \A q \in gone : q \in Int /\ q <= p
  BY <1>1, OwnPiecesBefore
<1> HIDE DEF gone
<1>4. slots' \in [Slots -> Slot] /\ \A q \in Used : slots'[q] = IF q \in gone THEN Deleted ELSE slots[q]
  BY <1>1, <1>2
<1>5. ASSUME ~ spoilt PROVE EndsLast(slots', Used)
  <2> SUFFICES ASSUME NEW e \in Used, slots'[e] = End, NEW q \in Used, q > e PROVE slots'[q] = End
    BY DEF EndsLast, Marks
  <2>1. EndsLast(slots, Used)
    BY <1>5, ListedUsed DEF IInv
  <2>2. slots[e] = End
    BY <1>4, SlotFacts
  <2>3. p < e
    BY <1>2, <2>2, ListedUsed DEF FilesOf, Marks
  <2>4. slots[q] = End
    BY <2>1, <2>2 DEF EndsLast, Marks
  <2>5. q \notin gone
    BY <1>1, <1>3, <2>3
  <2> QED BY <1>4, <2>4, <2>5
<1> QED BY <1>2, <1>4, <1>5, ElsewhereKeeps

-----------------------------------------------------------------------------
(* The theorems *)

LEMMA StepKeeps == IInv /\ [Next]_vars => IInv' /\ [Follows]_vars /\ [Kept]_vars
<1> SUFFICES ASSUME IInv, [Next]_vars PROVE IInv' /\ [Follows]_vars /\ [Kept]_vars
  OBVIOUS
<1>1. ASSUME NEW n \in GivenNames, FindDirectoryEntry(n) PROVE IInv' /\ Follows /\ Kept
  BY <1>1, FindKeeps
<1>2. ASSUME NEW n \in GivenNames, WriteNewDirectoryEntry(n) PROVE IInv' /\ Follows /\ Kept
  BY <1>2, WriteKeeps
<1>3. ASSUME NEW n \in GivenNames, DeleteDirectoryEntry(n) PROVE IInv' /\ Follows /\ Kept
  BY <1>3, DeleteKeeps
<1>4. CASE Forget
  BY <1>4, ForgetKeeps
<1>5. ASSUME NEW f \in Foreign, WrittenElsewhere(f) PROVE IInv' /\ Follows /\ Kept
  BY <1>5, WrittenElsewhereKeeps
<1>6. ASSUME NEW p \in Used, DeletedElsewhere(p) PROVE IInv' /\ Follows /\ Kept
  BY <1>6, DeletedElsewhereKeeps
<1>7. CASE UNCHANGED vars
  <2>1. /\ slots' = slots /\ size' = size /\ cache' = cache /\ search' = search /\ faults' = faults
        /\ spoilt' = spoilt
    BY <1>7 DEF vars
  <2>2. Used' = Used /\ View' = View
    BY <2>1 DEF Used, View
  <2>3. Listed(slots)' = Listed(slots) /\ Listed(View)' = Listed(View) /\ Seen(slots)' = Seen(slots)
        /\ Ends(View)' = Ends(View)
    BY <2>1, <2>2, ListedUsed DEF Seen, Before, Ends
  <2>4. TypeOK' /\ SearchScanned' /\ CacheNames' /\ NothingFailed' /\ SearchType'
    BY <2>1, <2>2, <2>3 DEF IInv, TypeOK, SearchScanned, CacheNames, NothingFailed, SearchType
  <2>5. NothingBeyondEnd'
    BY <2>1, <2>2, ListedUsed DEF IInv
  <2> QED BY <1>7, <2>4, <2>5 DEF IInv
<1> QED BY <1>1, <1>2, <1>3, <1>4, <1>5, <1>6, <1>7 DEF Next

THEOREM Inductive == Spec => []IInv
<1>1. Init => IInv
  BY InitIInv
<1>2. IInv /\ [Next]_vars => IInv'
  BY StepKeeps
<1> QED BY <1>1, <1>2, PTL DEF Spec

\* The variables keep their types, and what the cache has is the first block: a
\* block that could not be written differs from the device in no other.
THEOREM TypeCorrect == Spec => []TypeOK
<1>1. IInv => TypeOK
  BY DEF IInv
<1> QED BY <1>1, Inductive, PTL

\* write_new_directory_entry puts no entry behind an end marker, and none in the
\* place of one that has something behind it, whatever fails: unless a cluster of
\* the directory could not be made blank.
THEOREM NothingBehind == Spec => []NothingBeyondEnd
<1>1. IInv => NothingBeyondEnd
  BY DEF IInv
<1> QED BY <1>1, Inductive, PTL

\* While nothing fails, a call that creates or deletes an entry and returns Ok
\* changes the listing by that entry, and no other call changes it.
THEOREM CallsDoWhatTheySay == Spec => ListingFollowsCalls
<1>1. IInv /\ [Next]_vars => [Follows]_vars
  BY StepKeeps
<1> QED BY <1>1, Inductive, PTL DEF Spec, ListingFollowsCalls, Follows

\* Whatever fails, a call changes the listing of no name but its own, and those
\* with changes that the cache still has.
THEOREM OthersStay == Spec => OthersKept
<1>1. IInv /\ [Next]_vars => [Kept]_vars
  BY StepKeeps
<1> QED BY <1>1, Inductive, PTL DEF Spec, OthersKept, Kept

-----------------------------------------------------------------------------
(* Searching by long name *)

\* The last slot that a scan looks at.
LastSlot(v) == IF Ends(v) = {} THEN size * SlotsPerCluster ELSE Min(Ends(v)) - 1

LEMMA LastIs ==
  ASSUME NEW v, size \in 1 .. MaxClusters
  PROVE  /\ LastSlot(v) \in Nat /\ 1 .. LastSlot(v) \subseteq Used /\ Used \subseteq Slots
         /\ \A q \in 1 .. LastSlot(v) : IsValid(v[q]) => q \in Seen(v)
<1> DEFINE e == Ends(v)
           last == LastSlot(v)
<1> USE DEF LastSlot
<1>1. size \in Nat /\ size <= MaxClusters
  BY SizeFacts
<1>2. size * SlotsPerCluster \in Nat /\ Used \subseteq Slots
  BY <1>1, ClusterFacts DEF Used
<1>3. CASE e = {}
  <2>1. last = size * SlotsPerCluster
    BY <1>3
  <2>2. 1 .. last = Used
    BY <2>1 DEF Used
  <2>3. \A q \in Used : IsValid(v[q]) => q \in Seen(v)
    BY <1>3 DEF Seen, Before
  <2> QED BY <1>2, <2>1, <2>2, <2>3
<1>4. CASE e # {}
  <2>1. e \subseteq Used /\ e \subseteq Nat
    BY <1>2 DEF Ends, Used
  <2>2. Min(e) \in e /\ \A q \in e : Min(e) <= q
    <3> HIDE DEF e
    <3> QED BY <1>4, <2>1, MinIs
  <2>3. Min(e) \in 1 .. size * SlotsPerCluster
    BY <2>1, <2>2 DEF Used
  <2>4. last = Min(e) - 1
    BY <1>4
  <2>5. \A q \in e : q \in Nat
    BY <2>1
  <2>6. ASSUME NEW q \in 1 .. last PROVE q \in Used /\ \A w \in e : q < w
    <3> HIDE DEF e, last, LastSlot
    <3>1. q \in Used
      BY <1>2, <2>3, <2>4 DEF Used
    <3>2. ASSUME NEW w \in e PROVE q < w
      BY <1>2, <2>2, <2>3, <2>4, <2>5
    <3> QED BY <3>1, <3>2
  <2>7. ASSUME NEW q \in 1 .. last, IsValid(v[q]) PROVE q \in Seen(v)
    <3>1. q \in Used /\ \A w \in e : q < w
      BY <2>6
    <3> QED BY <2>7, <3>1 DEF Seen, Before
  <2>8. last \in Nat /\ 1 .. last \subseteq Used
    <3> HIDE DEF last, e, LastSlot
    <3> QED BY <1>2, <2>3, <2>4, <2>6
  <2> QED BY <1>2, <2>7, <2>8
<1> QED BY <1>3, <1>4

\* A text that a name ends in is what is left out without it.
LEMMA SuffixIs ==
  ASSUME NEW name \in Seq(Unit), NEW text \in Seq(Unit), EndsIn(name, text)
  PROVE  /\ WithoutSuffix(name, text) \in Seq(Unit)
         /\ WithoutSuffix(name, text) \o text = name
<1> DEFINE l == Len(name)
           k == Len(text)
           rest == WithoutSuffix(name, text)
<1>1. l \in Nat /\ k \in Nat
  OBVIOUS
<1>2. Reverse(name) \in Seq(Unit) /\ Len(Reverse(name)) = l /\ \A i \in 1 .. l : Reverse(name)[i] = name[l - i + 1]
  BY DEF Reverse
<1>3. Reverse(text) \in Seq(Unit) /\ Len(Reverse(text)) = k /\ \A i \in 1 .. k : Reverse(text)[i] = text[k - i + 1]
  BY DEF Reverse
<1>4. k <= l /\ SubSeq(Reverse(text), 1, k) = SubSeq(Reverse(name), 1, k)
  BY <1>2, <1>3 DEF EndsIn, IsSuffix, IsPrefix
<1>5. ASSUME NEW i \in 1 .. k PROVE text[i] = name[l - k + i]
  <2>1. k - i + 1 \in 1 .. k /\ k - i + 1 \in 1 .. l
    BY <1>1, <1>4
  <2>2. SubSeq(Reverse(text), 1, k)[k - i + 1] = Reverse(text)[k - i + 1]
    BY <1>1, <1>3, <2>1
  <2>3. SubSeq(Reverse(name), 1, k)[k - i + 1] = Reverse(name)[k - i + 1]
    BY <1>1, <1>2, <1>4, <2>1
  <2>4. k - (k - i + 1) + 1 = i /\ l - (k - i + 1) + 1 = l - k + i
    BY <1>1
  <2>5. Reverse(text)[k - i + 1] = text[i] /\ Reverse(name)[k - i + 1] = name[l - k + i]
    BY <1>2, <1>3, <2>1, <2>4
  <2> QED BY <1>4, <2>2, <2>3, <2>5
<1>6. rest = SubSeq(name, 1, l - k)
  BY DEF WithoutSuffix
<1>7. l - k \in 0 .. l
  BY <1>1, <1>4
<1>8. rest \in Seq(Unit) /\ Len(rest) = l - k /\ \A i \in 1 .. l - k : rest[i] = name[i]
  <2> HIDE DEF rest
  <2> QED BY <1>1, <1>6, <1>7
<1>9. rest \o text \in Seq(Unit) /\ Len(rest \o text) = l
        /\ \A i \in 1 .. l : (rest \o text)[i] = IF i <= l - k THEN rest[i] ELSE text[i - (l - k)]
  <2> HIDE DEF rest
  <2>1. Len(rest) + Len(text) = l
    BY <1>1, <1>8
  <2> QED BY <1>8, <2>1, ConcatProperties
<1>10. ASSUME NEW i \in 1 .. l PROVE (rest \o text)[i] = name[i]
  <2>1. CASE i <= l - k
    <3>1. i \in 1 .. l - k
      BY <1>1, <2>1
    <3> HIDE DEF rest, l, k
    <3> QED BY <1>8, <1>9, <2>1, <3>1
  <2>2. CASE ~ (i <= l - k)
    <3>1. i - (l - k) \in 1 .. k /\ l - k + (i - (l - k)) = i
      BY <1>1, <1>4, <2>2
    <3>2. text[i - (l - k)] = name[i]
      BY <1>5, <3>1
    <3> HIDE DEF rest, l, k
    <3> QED BY <1>9, <2>2, <3>2
  <2> QED BY <2>1, <2>2
<1>11. rest \o text = name
  <2> HIDE DEF rest
  <2> QED BY <1>9, <1>10, SeqEqual
<1> QED BY <1>8, <1>11

\* How many pieces a name has, and where each of them lies in it.
LEMMA ChunksAre ==
  ASSUME NEW long \in Seq(Unit)
  PROVE  /\ Pieces(long) \in Nat
         /\ Pieces(long) = 0 <=> long = << >>
         /\ \A j \in 1 .. Pieces(long) :
              /\ (j - 1) * PieceLen \in Nat /\ (j - 1) * PieceLen < Len(long)
              /\ Chunk(long, j) = SubSeq(long, (j - 1) * PieceLen + 1,
                                         IF j = Pieces(long) THEN Len(long) ELSE j * PieceLen)
         /\ \A j \in 1 .. Pieces(long) - 1 : j * PieceLen \in Nat /\ j * PieceLen < Len(long)
         /\ Len(long) <= Pieces(long) * PieceLen
<1> DEFINE l == Len(long)
           w == PieceLen
           k == Pieces(long)
<1>1. l \in Nat /\ w \in Nat /\ w > 0 /\ l + w - 1 \in Nat
  BY BufferAssumption
<1>2. k \in Nat /\ k * w <= l + w - 1 /\ l + w - 1 < (k + 1) * w
  <2> DEFINE n == l + w - 1
  <2>1. n \in Nat
    BY <1>1
  <2> HIDE DEF n
  <2>2. (n \div w) \in Nat /\ w * (n \div w) <= n /\ n < w * (n \div w) + w
    BY <1>1, <2>1, SMTT(30)
  <2> DEFINE m == n \div w
  <2>3. k = m
    BY DEF Pieces, n
  <2> HIDE DEF k, m
  <2>4. m \in Nat /\ w * m <= n /\ n < w * m + w
    BY <2>2 DEF m
  <2>5. m * w = w * m /\ (m + 1) * w = w * m + w
    BY <1>1, <2>4, SMTT(30)
  <2> QED BY <2>3, <2>4, <2>5 DEF n
<1> HIDE DEF k
<1>3. (k + 1) * w = k * w + w /\ k * w \in Nat
  BY <1>1, <1>2, SMTT(30)
<1>4. l <= k * w
  <2> DEFINE kw == k * w
  <2>1. kw \in Nat /\ l + w - 1 < kw + w
    BY <1>2, <1>3
  <2> HIDE DEF kw
  <2>2. l <= kw
    BY <1>1, <2>1
  <2> QED BY <2>2 DEF kw
<1>5. ASSUME NEW j \in 1 .. k
      PROVE  (j - 1) * w \in Nat /\ (j - 1) * w < l /\ j * w = (j - 1) * w + w
  <2>1. j \in Nat /\ j - 1 \in Nat /\ j <= k
    BY <1>2
  <2>2. j * w = (j - 1) * w + w /\ (j - 1) * w \in Nat
    BY <1>1, <2>1, SMTT(30)
  <2>3. j * w <= k * w
    BY <1>1, <1>2, <2>1, SMTT(30)
  <2> DEFINE a == (j - 1) * w
             b == k * w
  <2>4. a \in Nat /\ b \in Nat /\ a + w <= b /\ b <= l + w - 1
    BY <1>2, <1>3, <2>2, <2>3
  <2> HIDE DEF a, b
  <2>5. a < l
    BY <1>1, <2>4
  <2> QED BY <2>2, <2>5 DEF a
<1>6. ASSUME NEW j \in 1 .. k - 1 PROVE j * w \in Nat /\ j * w < l
  <2>1. j + 1 \in 1 .. k /\ (j + 1) - 1 = j
    BY <1>2
  <2> QED BY <1>5, <2>1
<1>7. k = 0 <=> long = << >>
  <2>1. ASSUME k = 0 PROVE l = 0
    <3>1. k * w = 0
      BY <1>1, <2>1
    <3> QED BY <1>1, <1>4, <3>1
  <2>2. ASSUME k # 0 PROVE l # 0
    <3>1. k \in 1 .. k
      BY <1>2, <2>2
    <3>2. (k - 1) * w \in Nat /\ (k - 1) * w < l
      BY <1>5, <3>1
    <3> QED BY <1>1, <3>2
  <2>3. l = 0 <=> long = << >>
    OBVIOUS
  <2> QED BY <2>1, <2>2, <2>3
<1>8. ASSUME NEW j \in 1 .. k
      PROVE  Chunk(long, j) = SubSeq(long, (j - 1) * w + 1, IF j = k THEN l ELSE j * w)
  <2> DEFINE ends == {j * w, l}
             to == IF j = k THEN l ELSE j * w
  <2>1. j * w \in Nat /\ (j = k => l <= j * w) /\ (j # k => j * w < l)
    <3>1. j * w \in Nat
      BY <1>1, <1>2, SMTT(30)
    <3>2. j # k => j \in 1 .. k - 1
      BY <1>2
    <3> QED BY <1>4, <1>6, <3>1, <3>2
  <2>2. to \in ends /\ to \in Nat /\ \A n \in ends : to <= n
    <3> DEFINE jw == j * w
    <3>1. jw \in Nat /\ (j = k => l <= jw) /\ (j # k => jw < l)
      BY <2>1
    <3> HIDE DEF jw
    <3>2. \A n \in {jw, l} : (IF j = k THEN l ELSE jw) <= n
      BY <1>1, <3>1
    <3>3. (IF j = k THEN l ELSE jw) \in {jw, l} /\ (IF j = k THEN l ELSE jw) \in Nat
      BY <1>1, <3>1
    <3> QED BY <3>2, <3>3 DEF jw
  <2>3. ends \subseteq Nat /\ ends # {}
    BY <1>1, <2>1
  <2>4. Min(ends) \in ends /\ \A n \in ends : Min(ends) <= n
    <3> HIDE DEF ends
    <3> QED BY <2>3, MinIs
  <2>5. Min(ends) = to
    <3> HIDE DEF ends, to
    <3>1. Min(ends) \in Nat /\ Min(ends) <= to /\ to <= Min(ends)
      BY <2>2, <2>3, <2>4
    <3> QED BY <2>2, <3>1
  <2>6. Chunk(long, j) = SubSeq(long, (j - 1) * w + 1, Min(ends))
    BY DEF Chunk
  <2> HIDE DEF ends
  <2> QED BY <2>5, <2>6
<1> QED BY <1>2, <1>4, <1>5, <1>6, <1>7, <1>8 DEF k

\* The slots before an entry with a long name.
LEMMA OwnPiecesAre ==
  ASSUME NEW v \in [Slots -> Slot], NEW p \in Slots, NEW q \in OwnPieces(v, p)
  PROVE  LET own == OwnName(v, p)
             j   == p - q
         IN  /\ own \in Longs /\ j \in 1 .. Pieces(own)
             /\ v[q] = Piece(j = Pieces(own), j, Csum[v[p].name], Chunk(own, j))
<1> DEFINE own == OwnName(v, p)
           k == Pieces(own)
           c == Csum[v[p].name]
<1>1. own \in Longs /\ IsNamed(v, p, own)
  <2>1. CASE \E long \in Longs : IsNamed(v, p, long)
    BY <2>1 DEF OwnName
  <2>2. CASE ~ \E long \in Longs : IsNamed(v, p, long)
    <3>1. own = NoName /\ NoName \in Seq(Unit)
      BY <2>2 DEF OwnName, NoName
    <3>2. k = 0
      BY <3>1, ChunksAre DEF NoName
    <3>3. p \in Nat
      BY DEF Slots
    <3>4. OwnPieces(v, p) = p - 0 .. p - 1
      BY <3>2 DEF OwnPieces
    <3>5. FALSE
      <4> HIDE DEF k
      <4> QED BY <3>2, <3>3, <3>4
    <3> QED BY <3>5
  <2> QED BY <2>1, <2>2
<1>2. own \in Seq(Unit)
  BY <1>1, SizeAssumption DEF Longs
<1>3. k \in Nat
  BY <1>2, ChunksAre
<1>4. p \in Nat /\ p >= 1
  BY DEF Slots
<1>5. q \in p - k .. p - 1
  BY DEF OwnPieces
<1>6. p > k /\ SubSeq(v, p - k, p - 1) = LongNameRun(own, c)
  BY <1>1 DEF IsNamed
<1> DEFINE i == q - (p - k) + 1
           run == LongNameRun(own, c)
           slice == SubSeq(v, p - k, p - 1)
<1> HIDE DEF k
<1>7. i \in 1 .. k /\ p - q \in 1 .. k /\ k - i + 1 = p - q /\ q = (p - k) + i - 1
  BY <1>3, <1>4, <1>5
<1>8. \A x \in p - k .. p - 1 : v[x] \in Slot
  <2> SUFFICES ASSUME NEW x \in p - k .. p - 1 PROVE x \in Slots
    OBVIOUS
  <2>1. x \in 1 .. p
    BY <1>3, <1>4, <1>6
  <2> QED BY <1>4, <2>1, SizeFacts, ClusterFacts DEF Slots
<1>9. slice[i] = v[q]
  <2>1. p - k \in Int /\ p - 1 \in Int
    BY <1>3, <1>4
  <2>2. \A x \in 1 .. (p - 1) - (p - k) + 1 : slice[x] = v[(p - k) + x - 1]
    BY <1>8, <2>1, SubSeqProperties
  <2>3. (p - 1) - (p - k) + 1 = k
    BY <1>3, <1>4
  <2> HIDE DEF slice, i
  <2> QED BY <1>7, <2>2, <2>3
<1>10. run[i] = Piece(i = 1, k - i + 1, c, Chunk(own, k - i + 1))
  <2>1. run = [x \in 1 .. k |-> Piece(x = 1, k - x + 1, c, Chunk(own, k - x + 1))]
    BY DEF LongNameRun, k
  <2> HIDE DEF run, i
  <2> QED BY <1>7, <2>1
<1>11. (i = 1) = (p - q = k)
  BY <1>3, <1>4, <1>5, <1>7
<1>12. v[q] = Piece(p - q = k, p - q, c, Chunk(own, p - q))
  <2> HIDE DEF i, run, slice
  <2> QED BY <1>6, <1>7, <1>9, <1>10, <1>11 DEF run, slice
<1> QED BY <1>1, <1>7, <1>12 DEF k

-----------------------------------------------------------------------------
(* The search by long name *)

FindState ==
  [at : {"waiting", "scanning", "found"}, remaining : Seq(Unit), seq : Int, csum : Nat, found : Nat]

LEMMA PieceIs ==
  ASSUME NEW e \in Slot, IsPiece(e)
  PROVE  e.start \in BOOLEAN /\ e.seq \in Nat /\ e.csum \in Nat /\ e.text \in Seq(Unit) /\ IsValid(e)
BY DEF Slot, IsPiece, End, Deleted, IsValid

LEMMA FileIs ==
  ASSUME NEW e \in Slot, IsFile(e)
  PROVE  e.name \in ShortName /\ IsValid(e)
BY DEF Slot, IsFile, End, Deleted, IsValid

LEMMA FittedIs ==
  ASSUME NEW rest \in Seq(Unit), NEW e \in Slot, IsPiece(e)
  PROVE  /\ Fitted(rest, e) \in FindState
         /\ Fitted(rest, e).found = 0
         /\ Fitted(rest, e) # AtStart =>
              /\ Fitted(rest, e).remaining = rest /\ Fitted(rest, e).seq = e.seq - 1
              /\ Fitted(rest, e).csum = e.csum
              /\ Fitted(rest, e).at = (IF e.seq = 1 THEN "found" ELSE "scanning")
              /\ e.seq = 1 => rest = << >>
<1>1. e.seq \in Nat /\ e.csum \in Nat
  BY PieceIs
<1>2. e.seq - 1 \in Int
  BY <1>1
<1>3. AtStart \in FindState
  BY DEF AtStart, FindState
<1> QED BY <1>1, <1>2, <1>3 DEF Fitted, AtStart, FindState

LEMMA LookIs ==
  ASSUME NEW v \in [Slots -> Slot], NEW name \in Seq(Unit), NEW p \in Slots, NEW s \in FindState
  PROVE  LET e == v[p]
             to == Look(s, v, p, name)
         IN  /\ to \in FindState
             /\ \/ to = AtStart
                \/ to = s
                \/ /\ IsPiece(e) /\ e.start /\ EndsIn(name, e.text) /\ s.at = "waiting"
                   /\ to = Fitted(WithoutSuffix(name, e.text), e)
                \/ /\ IsPiece(e) /\ EndsIn(s.remaining, e.text) /\ s.at = "scanning"
                   /\ e.seq = s.seq /\ e.csum = s.csum
                   /\ to = Fitted(WithoutSuffix(s.remaining, e.text), e)
                \/ /\ s.at = "found" /\ IsFile(e) /\ Csum[e.name] = s.csum
                   /\ to = [s EXCEPT !.found = p]
<1> DEFINE e == v[p]
           to == Look(s, v, p, name)
<1>1. e \in Slot
  OBVIOUS
<1>2. CASE s.at = "waiting" /\ IsPiece(e) /\ e.start /\ EndsIn(name, e.text)
  <2>1. to = Fitted(WithoutSuffix(name, e.text), e)
    BY <1>2 DEF Look
  <2>2. WithoutSuffix(name, e.text) \in Seq(Unit)
    BY <1>1, <1>2, PieceIs, SuffixIs
  <2> QED BY <1>1, <1>2, <2>1, <2>2, FittedIs
<1>3. CASE s.at = "scanning" /\ IsPiece(e) /\ ~ e.start
  <2>1. to = IF e.seq # s.seq \/ e.csum # s.csum THEN AtStart
             ELSE IF EndsIn(s.remaining, e.text)
             THEN Fitted(WithoutSuffix(s.remaining, e.text), e)
             ELSE s
    BY <1>3 DEF Look
  <2>2. AtStart \in FindState
    BY DEF AtStart, FindState
  <2>3. CASE e.seq # s.seq \/ e.csum # s.csum
    <3>1. to = AtStart
      BY <2>1, <2>3
    <3> HIDE DEF to
    <3> QED BY <2>2, <3>1 DEF to
  <2>4. CASE ~ (e.seq # s.seq \/ e.csum # s.csum) /\ EndsIn(s.remaining, e.text)
    <3>1. to = Fitted(WithoutSuffix(s.remaining, e.text), e)
      BY <2>1, <2>4
    <3>2. s.remaining \in Seq(Unit)
      BY DEF FindState
    <3>3. WithoutSuffix(s.remaining, e.text) \in Seq(Unit)
      BY <1>1, <1>3, <2>4, <3>2, PieceIs, SuffixIs
    <3> QED BY <1>1, <1>3, <2>4, <3>1, <3>3, FittedIs
  <2>5. CASE ~ (e.seq # s.seq \/ e.csum # s.csum) /\ ~ EndsIn(s.remaining, e.text)
    <3>1. to = s
      BY <2>1, <2>5
    <3> QED BY <3>1
  <2> QED BY <2>3, <2>4, <2>5
<1>4. CASE s.at = "found" /\ IsFile(e) /\ Csum[e.name] = s.csum /\ s.found = 0
  <2>1. to = [s EXCEPT !.found = p]
    BY <1>4 DEF Look
  <2>2. p \in Nat
    BY DEF Slots
  <2>3. to \in FindState
    <3> HIDE DEF to
    <3> QED BY <2>1, <2>2 DEF FindState
  <2> QED BY <1>4, <2>1, <2>3
<1>5. CASE /\ ~ (s.at = "waiting" /\ IsPiece(e) /\ e.start /\ EndsIn(name, e.text))
           /\ ~ (s.at = "scanning" /\ IsPiece(e) /\ ~ e.start)
           /\ ~ (s.at = "found" /\ IsFile(e) /\ Csum[e.name] = s.csum /\ s.found = 0)
  <2>1. to = s
    BY <1>5 DEF Look
  <2> QED BY <2>1
<1> QED BY <1>2, <1>3, <1>4, <1>5

\* The states of a search, slot by slot.
Scans(g, v, name) ==
  /\ g \in [0 .. LastSlot(v) -> FindState]
  /\ g[0] = AtStart /\ \A q \in 1 .. LastSlot(v) : g[q] = Look(g[q - 1], v, q, name)
  /\ FindByLfn(v, name) = g[LastSlot(v)].found

LEMMA ScanExists ==
  ASSUME NEW v \in [Slots -> Slot], NEW name \in Seq(Unit), size \in 1 .. MaxClusters
  PROVE  \E g : Scans(g, v, name)
<1> DEFINE n == LastSlot(v)
           step == [q \in 1 .. n |-> [s \in FindState |-> Look(s, v, q, name)]]
           P(g) == g = [q \in 0 .. n |-> IF q = 0 THEN AtStart ELSE Look(g[q - 1], v, q, name)]
           f == CHOOSE g : P(g)
<1>1. n \in Nat /\ 1 .. n \subseteq Slots
  BY LastIs
<1>2. AtStart \in FindState
  BY DEF AtStart, FindState
<1>3. step \in [1 .. n -> [FindState -> FindState]]
  BY <1>1, LookIs
<1>4. PICK h \in [0 .. n -> FindState] : StepsFrom(h, n, AtStart, step)
  <2> HIDE DEF n, step
  <2> QED BY <1>1, <1>2, <1>3, StepsExist
<1>5. ASSUME NEW q \in 1 .. n PROVE h[q] = Look(h[q - 1], v, q, name)
  <2>1. h[q - 1] \in FindState
    BY <1>1, <1>4
  <2>2. h[q] = step[q][h[q - 1]]
    BY <1>4 DEF StepsFrom
  <2> QED BY <2>1, <2>2
<1>6. h[0] = AtStart
  BY <1>4 DEF StepsFrom
<1>7. P(h)
  <2>1. \A q \in 0 .. n : h[q] = IF q = 0 THEN AtStart ELSE Look(h[q - 1], v, q, name)
    BY <1>1, <1>5, <1>6
  <2> HIDE DEF n
  <2> QED BY <1>4, <2>1
<1>8. P(f)
  <2> HIDE DEF P
  <2> QED BY <1>7
<1>9. f[0] = AtStart /\ \A q \in 1 .. n : f[q] = Look(f[q - 1], v, q, name)
  <2> HIDE DEF f, n
  <2> QED BY <1>1, <1>8
<1>10. f \in [0 .. n -> FindState]
  <2> DEFINE S == {q \in 0 .. n : f[q] \in FindState}
  <2> HIDE DEF f, n
  <2>1. 0 \in S
    BY <1>1, <1>2, <1>9
  <2>2. ASSUME NEW q \in 1 .. n, q - 1 \in S PROVE q \in S
    <3>1. q \in Slots /\ f[q - 1] \in FindState /\ f[q] = Look(f[q - 1], v, q, name)
      BY <1>1, <1>9, <2>2
    <3>2. f[q] \in FindState
      BY <3>1, LookIs
    <3> QED BY <1>1, <3>2
  <2> HIDE DEF S
  <2>3. 0 .. n \subseteq S
    BY <1>1, <2>1, <2>2, BoundedInduction
  <2>4. \A q \in 0 .. n : f[q] \in FindState
    BY <2>3 DEF S
  <2> HIDE DEF P
  <2>5. f = [q \in 0 .. n |-> IF q = 0 THEN AtStart ELSE Look(f[q - 1], v, q, name)]
    BY <1>8 DEF P
  <2> QED BY <2>4, <2>5
<1>11. FindByLfn(v, name) = f[n].found
  BY DEF FindByLfn, LastSlot
<1> QED BY <1>9, <1>10, <1>11 DEF Scans

\* What a name has after its first j pieces.
AfterPieces(long, j) == SubSeq(long, j * PieceLen + 1, Len(long))

\* What a search that has met pieces of one name knows: those that are still to
\* come are what is left of the name, and nothing is when none are.
Tells(s, own, name) ==
  /\ s.seq \in 0 .. Pieces(own) - 1
  /\ s.remaining \o AfterPieces(own, s.seq) = name
  /\ s.at = "found" => s.seq = 0 /\ s.remaining = << >>

LEMMA Associative == \A x, y, z \in Seq(Unit) : (x \o y) \o z = x \o (y \o z)
<1> TAKE x, y, z \in Seq(Unit)
<1> QED BY SMT

\* A piece that is taken from the end of what is left.
Taken(own, j, rest, left) ==
  /\ {own, rest, left} \subseteq Seq(Unit) /\ j \in 1 .. Pieces(own)
  /\ rest \o Chunk(own, j) = left

LEMMA PieceTells ==
  ASSUME NEW own, NEW j, NEW rest, NEW left, Taken(own, j, rest, left)
  PROVE  rest \o AfterPieces(own, j - 1)
           = IF j = Pieces(own) THEN left ELSE left \o AfterPieces(own, j)
<1> DEFINE k == Pieces(own)
           l == Len(own)
           a == (j - 1) * PieceLen
           b == j * PieceLen
           tail == SubSeq(own, b + 1, l)
           chunk == Chunk(own, j)
<1> /\ own \in Seq(Unit) /\ rest \in Seq(Unit) /\ left \in Seq(Unit)
    /\ j \in 1 .. Pieces(own) /\ rest \o Chunk(own, j) = left
  BY DEF Taken
<1>1. k \in Nat /\ l \in Nat /\ a \in Nat /\ a < l
  BY ChunksAre
<1>2. CASE j = k
  BY <1>2, ChunksAre DEF AfterPieces
<1>3. CASE j # k
  <2>1. j \in 1 .. k - 1
    BY <1>1, <1>3
  <2>2. b \in Nat /\ b < l /\ chunk = SubSeq(own, a + 1, b)
    BY <1>3, <2>1, ChunksAre
  <2>3. a <= b
    <3>1. b = a + PieceLen
      BY BufferAssumption, SMTT(30)
    <3> HIDE DEF a, b
    <3> QED BY <1>1, <2>2, <3>1, BufferAssumption
  <2>4. a + 1 \in 1 .. l + 1 /\ b \in (a + 1) - 1 .. l /\ l \in b .. l
    <3> HIDE DEF a, b, l
    <3> QED BY <1>1, <2>2, <2>3
  <2>5. chunk \o tail = SubSeq(own, a + 1, l)
    <3> HIDE DEF a, b, chunk
    <3> QED BY <2>2, <2>4, ConcatAdjacentSubSeq
  <2>6. chunk \in Seq(Unit) /\ tail \in Seq(Unit)
    <3>1. chunk \in Seq(Unit)
      BY PiecesAre
    <3>2. \A x \in b + 1 .. l : own[x] \in Unit
      <4> HIDE DEF b
      <4> QED BY <2>2
    <3>3. tail \in Seq(Unit)
      <4> HIDE DEF b, l
      <4> QED BY <1>1, <2>2, <3>2, SubSeqProperties
    <3> QED BY <3>1, <3>3
  <2>7. (rest \o chunk) \o tail = rest \o (chunk \o tail)
    <3> HIDE DEF chunk, tail
    <3>1. rest \in Seq(Unit)
      OBVIOUS
    <3> QED BY ONLY <2>6, <3>1, Associative
  <2> QED BY <1>3, <2>5, <2>7 DEF AfterPieces
<1> QED BY <1>2, <1>3

\* When all pieces with the checksum of the entry in p are its own, a search that
\* has that checksum knows what belongs to its long name.
LEMMA SearchTells ==
  ASSUME NEW v \in [Slots -> Slot], NEW name \in Seq(Unit), size \in 1 .. MaxClusters,
         NEW g, Scans(g, v, name), NEW p \in Slots, NoOrphans(v, p),
         NEW q \in 0 .. LastSlot(v)
  PROVE  g[q].at # "waiting" /\ g[q].csum = Csum[v[p].name] =>
           OwnName(v, p) \in Longs /\ Tells(g[q], OwnName(v, p), name)
<1> DEFINE n == LastSlot(v)
           own == OwnName(v, p)
           c == Csum[v[p].name]
           Knows(s) == s.at # "waiting" /\ s.csum = c => own \in Longs /\ Tells(s, own, name)
           S == {x \in 0 .. n : Knows(g[x])}
<1>1. n \in Nat /\ 1 .. n \subseteq Slots /\ \A x \in 1 .. n : IsValid(v[x]) => x \in Seen(v)
  BY LastIs
<1>2. g \in [0 .. n -> FindState] /\ g[0] = AtStart /\ \A x \in 1 .. n : g[x] = Look(g[x - 1], v, x, name)
  BY DEF Scans
<1>3. Knows(AtStart)
  BY DEF AtStart
<1>4. Longs \subseteq Seq(Unit)
  BY SizeAssumption DEF Longs
<1>5. ASSUME NEW x \in 1 .. n, IsPiece(v[x]), v[x].csum = c
      PROVE  /\ own \in Longs /\ own \in Seq(Unit) /\ v[x].seq \in 1 .. Pieces(own)
             /\ v[x].start = (v[x].seq = Pieces(own)) /\ v[x].text = Chunk(own, v[x].seq)
  <2>1. x \in Seen(v)
    BY <1>1, <1>5, PieceIs
  <2>2. x \in OwnPieces(v, p)
    BY <1>5, <2>1 DEF NoOrphans
  <2>3. /\ own \in Longs /\ p - x \in 1 .. Pieces(own)
        /\ v[x] = Piece(p - x = Pieces(own), p - x, c, Chunk(own, p - x))
    BY <2>2, OwnPiecesAre
  <2>4. /\ v[x].seq = p - x /\ v[x].start = (p - x = Pieces(own))
        /\ v[x].text = Chunk(own, p - x)
    BY <2>3 DEF Piece
  <2> HIDE DEF own
  <2> QED BY <1>4, <2>3, <2>4
<1>6. ASSUME NEW x \in 1 .. n, NEW rest \in Seq(Unit), NEW left \in Seq(Unit), IsPiece(v[x]), v[x].csum = c,
             rest \o v[x].text = left,
             v[x].seq = Pieces(own) => left = name,
             v[x].seq # Pieces(own) => left \o AfterPieces(own, v[x].seq) = name
      PROVE  Knows(Fitted(rest, v[x]))
  <2> DEFINE e == v[x]
             to == Fitted(rest, e)
  <2>1. /\ own \in Longs /\ own \in Seq(Unit) /\ e.seq \in 1 .. Pieces(own)
        /\ e.text = Chunk(own, e.seq)
    BY <1>5, <1>6
  <2>2. rest \o AfterPieces(own, e.seq - 1) = name
    <3> DEFINE j == e.seq
               a == rest \o AfterPieces(own, j - 1)
               b == left \o AfterPieces(own, j)
    <3>1. Taken(own, j, rest, left)
      BY <1>6, <2>1 DEF Taken
    <3>2. (j = Pieces(own) => left = name) /\ (j # Pieces(own) => b = name)
      BY <1>6
    <3> HIDE DEF j
    <3>3. a = IF j = Pieces(own) THEN left ELSE b
      BY <3>1, PieceTells
    <3>4. a = name
      <4> HIDE DEF a, b, own
      <4> QED BY <3>2, <3>3
    <3> QED BY <3>4 DEF j
  <2>3. Pieces(own) \in Nat
    BY <2>1, ChunksAre
  <2>4. e \in Slot
    BY <1>1
  <2>5. CASE to = AtStart
    <3> HIDE DEF to, Knows
    <3> QED BY <1>3, <2>5 DEF to
  <2>6. CASE to # AtStart
    <3>1. /\ to.remaining = rest /\ to.seq = e.seq - 1
          /\ to.at = (IF e.seq = 1 THEN "found" ELSE "scanning")
          /\ e.seq = 1 => rest = << >>
      BY <1>6, <2>4, <2>6, FittedIs
    <3> HIDE DEF to
    <3>2. to.seq \in 0 .. Pieces(own) - 1
      BY <2>1, <2>3, <3>1
    <3>3. to.at = "found" => to.seq = 0 /\ to.remaining = << >>
      BY <2>1, <2>3, <3>1
    <3>4. to.remaining \o AfterPieces(own, to.seq) = name
      BY <2>2, <3>1
    <3>5. Tells(to, own, name)
      BY <3>2, <3>3, <3>4 DEF Tells
    <3> QED BY <2>1, <3>5 DEF to
  <2> QED BY <2>5, <2>6
<1>7. ASSUME NEW x \in 1 .. n, x - 1 \in S PROVE x \in S
  <2> DEFINE e == v[x]
             s == g[x - 1]
             to == g[x]
  <2>1. x \in Slots /\ e \in Slot /\ s \in FindState /\ to = Look(s, v, x, name) /\ Knows(s)
    BY <1>1, <1>2, <1>7
  <2> SUFFICES Knows(to)
    BY <1>1
  <2> HIDE DEF S, Knows, s, to, e
  <2>2. CASE to = AtStart
    BY <1>3, <2>2
  <2>3. CASE to = s
    BY <2>1, <2>3
  <2>4. CASE /\ IsPiece(e) /\ e.start /\ EndsIn(name, e.text) /\ s.at = "waiting"
             /\ to = Fitted(WithoutSuffix(name, e.text), e)
    <3> DEFINE rest == WithoutSuffix(name, e.text)
    <3>1. rest \in Seq(Unit) /\ rest \o e.text = name
      BY <2>1, <2>4, PieceIs, SuffixIs
    <3>2. CASE e.csum = c
      <4>1. e.seq = Pieces(own)
        BY <1>5, <2>4, <3>2 DEF e
      <4> HIDE DEF rest
      <4>2. Knows(Fitted(rest, v[x]))
        BY <1>6, <2>4, <3>1, <3>2, <4>1 DEF e
      <4> QED BY <2>4, <4>2 DEF rest, e
    <3>3. CASE e.csum # c
      <4>1. to = AtStart \/ to.csum = e.csum
        BY <2>1, <2>4, <3>1, FittedIs
      <4> QED BY <1>3, <3>3, <4>1 DEF Knows
    <3> QED BY <3>2, <3>3
  <2>5. CASE /\ IsPiece(e) /\ EndsIn(s.remaining, e.text) /\ s.at = "scanning"
             /\ e.seq = s.seq /\ e.csum = s.csum
             /\ to = Fitted(WithoutSuffix(s.remaining, e.text), e)
    <3> DEFINE left == s.remaining
               rest == WithoutSuffix(left, e.text)
    <3>1. left \in Seq(Unit)
      BY <2>1 DEF FindState
    <3>2. rest \in Seq(Unit) /\ rest \o e.text = left
      BY <2>1, <2>5, <3>1, PieceIs, SuffixIs
    <3>3. CASE e.csum = c
      <4>1. own \in Longs /\ Tells(s, own, name)
        BY <2>1, <2>5, <3>3 DEF Knows
      <4>2. own \in Seq(Unit) /\ Pieces(own) \in Nat
        BY <1>4, <4>1, ChunksAre
      <4>3. e.seq # Pieces(own)
        BY <2>5, <4>1, <4>2 DEF Tells
      <4>4. left \o AfterPieces(own, e.seq) = name
        BY <2>5, <4>1 DEF Tells
      <4> HIDE DEF rest, left
      <4>5. Knows(Fitted(rest, v[x]))
        BY <1>6, <2>5, <3>1, <3>2, <3>3, <4>3, <4>4 DEF e
      <4> QED BY <2>5, <4>5 DEF rest, left, e
    <3>4. CASE e.csum # c
      <4>1. to = AtStart \/ to.csum = e.csum
        BY <2>1, <2>5, <3>1, <3>2, FittedIs
      <4> QED BY <1>3, <3>4, <4>1 DEF Knows
    <3> QED BY <3>3, <3>4
  <2>6. CASE /\ s.at = "found" /\ IsFile(e) /\ Csum[e.name] = s.csum
             /\ to = [s EXCEPT !.found = x]
    <3>1. to.at = s.at /\ to.csum = s.csum /\ to.seq = s.seq /\ to.remaining = s.remaining
      BY <2>1, <2>6 DEF FindState
    <3> QED BY <2>1, <3>1 DEF Knows, Tells
  <2> QED BY <2>1, <2>2, <2>3, <2>4, <2>5, <2>6, LookIs DEF e
<1>8. 0 \in S
  <2> HIDE DEF Knows
  <2> QED BY <1>1, <1>2, <1>3
<1>9. 0 .. n \subseteq S
  <2> HIDE DEF S, n
  <2> QED BY <1>1, <1>7, <1>8, BoundedInduction
<1>10. Knows(g[q])
  <2> HIDE DEF Knows
  <2> QED BY <1>9
<1> QED BY <1>10

\* An entry that is found has the checksum of the pieces it was found by.
LEMMA FoundAt ==
  ASSUME NEW v \in [Slots -> Slot], NEW name \in Seq(Unit), size \in 1 .. MaxClusters,
         NEW g, Scans(g, v, name), NEW q \in 0 .. LastSlot(v), g[q].found # 0
  PROVE  /\ g[q].at = "found" /\ g[q].found \in Slots
         /\ IsFile(v[g[q].found]) /\ Csum[v[g[q].found].name] = g[q].csum
<1> DEFINE n == LastSlot(v)
           Met(s) == /\ s.at = "found" /\ s.found \in Slots
                     /\ IsFile(v[s.found]) /\ Csum[v[s.found].name] = s.csum
           S == {x \in 0 .. n : g[x].found # 0 => Met(g[x])}
<1>1. n \in Nat /\ 1 .. n \subseteq Slots
  BY LastIs
<1>2. g \in [0 .. n -> FindState] /\ g[0] = AtStart /\ \A x \in 1 .. n : g[x] = Look(g[x - 1], v, x, name)
  BY DEF Scans
<1>3. 0 \in S
  BY <1>1, <1>2 DEF AtStart
<1>4. ASSUME NEW x \in 1 .. n, x - 1 \in S PROVE x \in S
  <2> DEFINE e == v[x]
             s == g[x - 1]
             to == g[x]
  <2>1. x \in Slots /\ e \in Slot /\ s \in FindState /\ to = Look(s, v, x, name) /\ (s.found # 0 => Met(s))
    BY <1>1, <1>2, <1>4
  <2> SUFFICES ASSUME to.found # 0 PROVE Met(to)
    BY <1>1
  <2> HIDE DEF S, s, to, e
  <2>2. CASE to = AtStart
    BY <2>2 DEF AtStart
  <2>3. CASE to = s
    BY <2>1, <2>3
  <2>4. CASE IsPiece(e) /\ \E rest \in Seq(Unit) : to = Fitted(rest, e)
    BY <2>1, <2>4, FittedIs
  <2>5. CASE /\ s.at = "found" /\ IsFile(e) /\ Csum[e.name] = s.csum
             /\ to = [s EXCEPT !.found = x]
    <3>1. to.at = s.at /\ to.csum = s.csum /\ to.found = x
      BY <2>1, <2>5 DEF FindState
    <3> QED BY <2>1, <2>5, <3>1 DEF e
  <2>6. s.remaining \in Seq(Unit)
    BY <2>1 DEF FindState
  <2>7. ASSUME NEW rest \in {name, s.remaining}, IsPiece(e), EndsIn(rest, e.text)
        PROVE  WithoutSuffix(rest, e.text) \in Seq(Unit)
    BY <2>1, <2>6, <2>7, PieceIs, SuffixIs
  <2> HIDE DEF Met
  <2> QED BY <2>1, <2>2, <2>3, <2>4, <2>5, <2>7, LookIs DEF e
<1>5. 0 .. n \subseteq S
  <2> HIDE DEF S, n
  <2> QED BY <1>1, <1>3, <1>4, BoundedInduction
<1>6. q \in S
  BY <1>5
<1> QED BY <1>6

\* Whatever the directory holds, and whichever name is asked for, the entry that
\* find_directory_entry_by_lfn finds has that name, unless pieces with its
\* checksum are left over of another.
LEMMA FoundHasName ==
  ASSUME NEW v \in [Slots -> Slot], NEW name \in Seq(Unit), size \in 1 .. MaxClusters,
         FindByLfn(v, name) # 0, NoOrphans(v, FindByLfn(v, name))
  PROVE  OwnName(v, FindByLfn(v, name)) = name
<1> DEFINE p == FindByLfn(v, name)
           own == OwnName(v, p)
<1>1. PICK g : Scans(g, v, name)
  BY ScanExists
<1> DEFINE s == g[LastSlot(v)]
<1>2. LastSlot(v) \in 0 .. LastSlot(v) /\ s.found = p
  BY <1>1, LastIs DEF Scans
<1>3. s.at = "found" /\ p \in Slots /\ Csum[v[p].name] = s.csum
  BY <1>1, <1>2, FoundAt
<1>4. own \in Longs /\ Tells(s, own, name)
  <2> HIDE DEF p, s
  <2>1. s.at # "waiting" /\ s.csum = Csum[v[p].name]
    BY <1>3
  <2> QED BY <1>1, <1>2, <1>3, <2>1, SearchTells DEF p, s
<1>5. own \in Seq(Unit)
  BY <1>4, SizeAssumption DEF Longs
<1>6. s.seq = 0 /\ << >> \o AfterPieces(own, 0) = name
  BY <1>3, <1>4 DEF Tells
<1>7. AfterPieces(own, 0) = own
  <2>1. 0 * PieceLen + 1 = 1
    BY BufferAssumption
  <2> HIDE DEF own
  <2>2. AfterPieces(own, 0) = SubSeq(own, 1, Len(own))
    BY <2>1 DEF AfterPieces
  <2> QED BY <1>5, <2>2, SubSeqFull
<1> QED BY <1>5, <1>6, <1>7

\* find_directory_entry_by_lfn finds no entry but one of the name asked for,
\* whatever was written, deleted and left behind, and whatever failed.
THEOREM FoundIsRight == Spec => []FoundIsCalledSo
<1>1. IInv => FoundIsCalledSo
  <2> SUFFICES ASSUME IInv, NEW long \in Sought,
                      FindByLfn(slots, long) # 0, NoOrphans(slots, FindByLfn(slots, long))
               PROVE  OwnName(slots, FindByLfn(slots, long)) = long
    BY DEF FoundIsCalledSo
  <2>1. slots \in [Slots -> Slot] /\ size \in 1 .. MaxClusters
    BY DEF IInv, TypeOK
  <2>2. long \in Seq(Unit)
    BY SizeAssumption
  <2> QED BY <2>1, <2>2, FoundHasName
<1> QED BY <1>1, Inductive, PTL

-----------------------------------------------------------------------------
(* Long names: characters *)

\* What decode_utf16 gives: units and pairs.
Half == Unit \cup {Pair}

\* What the unit x makes of the characters that are there.
WithUnit(chars, pairs, x) ==
  IF pairs THEN Append(Front(chars), Pair) ELSE Append(chars, x)
Decoding(f, units) ==
  /\ f \in [0 .. Len(units) -> Seq(Half)] /\ f[0] = << >>
  /\ \A n \in 1 .. Len(units) : f[n] = WithUnit(f[n - 1], PairsAt(units, n - 1), units[n])
  /\ DecodeUtf16(units) = f[Len(units)]

LEMMA FrontIs ==
  ASSUME NEW S, NEW s \in Seq(S)
  PROVE  Front(s) \in Seq(S) /\ (s # << >> => \A x \in S : Front(Append(s, x)) = s)
<1>1. Front(s) \in Seq(S)
  BY DEF Front
<1>2. ASSUME NEW x \in S PROVE Front(Append(s, x)) = s
  BY DEF Front
<1> QED BY <1>1, <1>2

LEMMA DecodingExists ==
  ASSUME NEW units \in Seq(Unit)
  PROVE  \E f : Decoding(f, units)
<1> DEFINE l == Len(units)
           V == Seq(Half)
           step == [n \in 1 .. l |-> [s \in V |-> WithUnit(s, PairsAt(units, n - 1), units[n])]]
           P(f) == f = [n \in 0 .. l |-> IF n = 0 THEN << >>
                                        ELSE IF PairsAt(units, n - 1) THEN Append(Front(f[n - 1]), Pair)
                                        ELSE Append(f[n - 1], units[n])]
           f == CHOOSE g : P(g)
<1>1. l \in Nat /\ << >> \in V
  OBVIOUS
<1>2. ASSUME NEW n \in 1 .. l, NEW s \in V PROVE WithUnit(s, PairsAt(units, n - 1), units[n]) \in V
  <2>1. units[n] \in Half /\ Pair \in Half
    BY DEF Half
  <2>2. Front(s) \in V
    BY FrontIs
  <2> QED BY <2>1, <2>2 DEF WithUnit
<1>3. step \in [1 .. l -> [V -> V]]
  BY <1>2
<1>4. PICK h \in [0 .. l -> V] : StepsFrom(h, l, << >>, step)
  <2> HIDE DEF l, V, step
  <2> QED BY <1>1, <1>3, StepsExist
<1>5. ASSUME NEW n \in 1 .. l PROVE h[n] = WithUnit(h[n - 1], PairsAt(units, n - 1), units[n])
  <2>1. h[n - 1] \in V
    BY <1>1, <1>4
  <2>2. h[n] = step[n][h[n - 1]]
    BY <1>4 DEF StepsFrom
  <2> QED BY <2>1, <2>2
<1>6. h[0] = << >>
  BY <1>4 DEF StepsFrom
<1>7. P(h)
  <2>1. ASSUME NEW n \in 0 .. l
        PROVE  h[n] = IF n = 0 THEN << >>
                      ELSE IF PairsAt(units, n - 1) THEN Append(Front(h[n - 1]), Pair)
                      ELSE Append(h[n - 1], units[n])
    <3>1. CASE n = 0
      BY <1>6, <3>1
    <3>2. CASE n # 0
      <4>1. n \in 1 .. l
        BY <1>1, <3>2
      <4>2. h[n] = WithUnit(h[n - 1], PairsAt(units, n - 1), units[n])
        BY <1>5, <4>1
      <4> QED BY <3>2, <4>2, Zenon DEF WithUnit
    <3> QED BY <3>1, <3>2
  <2> HIDE DEF l
  <2> QED BY <1>4, <2>1
<1>8. P(f)
  <2> HIDE DEF P
  <2> QED BY <1>7
<1>9. f[0] = << >> /\ \A n \in 1 .. l : f[n] = WithUnit(f[n - 1], PairsAt(units, n - 1), units[n])
  <2> HIDE DEF f, l
  <2>1. f[0] = << >>
    BY <1>1, <1>8
  <2>2. ASSUME NEW n \in 1 .. l PROVE f[n] = WithUnit(f[n - 1], PairsAt(units, n - 1), units[n])
    <3>1. n \in 0 .. l /\ n # 0
      BY <1>1
    <3>2. f[n] = IF PairsAt(units, n - 1) THEN Append(Front(f[n - 1]), Pair)
                 ELSE Append(f[n - 1], units[n])
      BY <1>8, <3>1, Zenon
    <3> QED BY <3>2, Zenon DEF WithUnit
  <2> QED BY <2>1, <2>2
<1>10. f \in [0 .. l -> V]
  <2> DEFINE S == {n \in 0 .. l : f[n] \in V}
  <2>1. 0 \in S
    <3> HIDE DEF f, V
    <3> QED BY <1>1, <1>9
  <2>2. ASSUME NEW n \in 1 .. l, n - 1 \in S PROVE n \in S
    <3> HIDE DEF f, V
    <3>1. f[n - 1] \in V /\ f[n] = WithUnit(f[n - 1], PairsAt(units, n - 1), units[n])
      BY <1>9, <2>2
    <3>2. f[n] \in V
      BY <1>2, <3>1
    <3> QED BY <1>1, <3>2
  <2> HIDE DEF S, l
  <2>3. 0 .. l \subseteq S
    BY <1>1, <2>1, <2>2, BoundedInduction
  <2>4. \A n \in 0 .. l : f[n] \in V
    BY <2>3 DEF S
  <2> HIDE DEF P, f
  <2>5. f = [n \in 0 .. l |-> IF n = 0 THEN << >>
                              ELSE IF PairsAt(units, n - 1) THEN Append(Front(f[n - 1]), Pair)
                              ELSE Append(f[n - 1], units[n])]
    BY <1>8 DEF P
  <2> QED BY <2>4, <2>5
<1>11. DecodeUtf16(units) = f[l]
  BY DEF DecodeUtf16
<1> QED BY <1>9, <1>10, <1>11 DEF Decoding

LEMMA DecodeType ==
  ASSUME NEW units \in Seq(Unit)
  PROVE  DecodeUtf16(units) \in Seq(Half)
<1>1. PICK f : Decoding(f, units)
  BY DecodingExists
<1>2. Len(units) \in 0 .. Len(units)
  OBVIOUS
<1> QED BY <1>1, <1>2 DEF Decoding

LEMMA DecodeNothing == DecodeUtf16(<< >>) = << >>
<1>1. << >> \in Seq(Unit) /\ Len(<< >>) = 0
  OBVIOUS
<1>2. PICK f : Decoding(f, << >>)
  BY <1>1, DecodingExists
<1> QED BY <1>1, <1>2 DEF Decoding

\* Whether the unit x is the second half of a pair that units end with.
Completes(units, x) == units # << >> /\ units[Len(units)] = "high" /\ x = "low"

\* One more unit.
LEMMA DecodeAppend ==
  ASSUME NEW units \in Seq(Unit), NEW x \in Unit
  PROVE  DecodeUtf16(Append(units, x)) = WithUnit(DecodeUtf16(units), Completes(units, x), x)
<1> DEFINE l == Len(units)
           more == Append(units, x)
<1>1. /\ more \in Seq(Unit) /\ l \in Nat /\ Len(more) = l + 1 /\ more[l + 1] = x
      /\ \A n \in 1 .. l : more[n] = units[n]
  BY AppendProperties
<1>2. PICK f : Decoding(f, units)
  BY DecodingExists
<1>3. PICK g : Decoding(g, more)
  BY <1>1, DecodingExists
<1> DEFINE S == {n \in 0 .. l : g[n] = f[n]}
<1> HIDE DEF more
<1>4. 0 \in S
  BY <1>1, <1>2, <1>3 DEF Decoding
<1>5. ASSUME NEW n \in 1 .. l, n - 1 \in S PROVE n \in S
  <2>1. f[n] = WithUnit(f[n - 1], PairsAt(units, n - 1), units[n])
    BY <1>2 DEF Decoding
  <2>2. n \in 1 .. Len(more)
    BY <1>1
  <2>3. g[n] = WithUnit(g[n - 1], PairsAt(more, n - 1), more[n])
    BY <1>3, <2>2 DEF Decoding
  <2>4. PairsAt(more, n - 1) = PairsAt(units, n - 1)
    <3>1. n - 1 \in 1 .. Len(more) - 1 <=> n - 1 \in 1 .. l - 1
      BY <1>1
    <3>2. (n - 1) + 1 = n
      OBVIOUS
    <3>3. n - 1 \in 1 .. l - 1 => more[n - 1] = units[n - 1]
      BY <1>1
    <3> QED BY <1>1, <3>1, <3>2, <3>3 DEF PairsAt
  <2>5. more[n] = units[n] /\ g[n - 1] = f[n - 1]
    BY <1>1, <1>5
  <2> QED BY <1>1, <2>1, <2>3, <2>4, <2>5
<1>6. l \in S
  <2> HIDE DEF S, l
  <2>1. 0 .. l \subseteq S
    BY <1>1, <1>4, <1>5, BoundedInduction
  <2> QED BY <1>1, <2>1
<1>7. g[l + 1] = WithUnit(g[(l + 1) - 1], PairsAt(more, (l + 1) - 1), more[l + 1])
  <2>1. l + 1 \in 1 .. Len(more)
    BY <1>1
  <2> HIDE DEF l
  <2> QED BY <1>3, <2>1 DEF Decoding
<1>8. (l + 1) - 1 = l
  BY <1>1
<1>9. PairsAt(more, l) = Completes(units, x)
  <2>1. l \in 1 .. Len(more) - 1 <=> units # << >>
    BY <1>1
  <2>2. units # << >> => l \in 1 .. l
    OBVIOUS
  <2> QED BY <1>1, <2>1, <2>2 DEF PairsAt, Completes
<1> QED BY <1>1, <1>2, <1>3, <1>6, <1>7, <1>8, <1>9 DEF Decoding, more

LEMMA AppendLater == \A s, t \in Seq(Half) : \A x \in Half : Append(s \o t, x) = s \o Append(t, x)
<1> SUFFICES ASSUME NEW s \in Seq(Half), NEW t \in Seq(Half), NEW x \in Half
             PROVE  Append(s \o t, x) = s \o Append(t, x)
  OBVIOUS
<1> DEFINE S == Half
           a == Append(s \o t, x)
           b == s \o Append(t, x)
<1>1. s \o t \in Seq(S) /\ Len(s \o t) = Len(s) + Len(t) /\ Len(s) \in Nat /\ Len(t) \in Nat
  BY ConcatProperties
<1>2. Append(t, x) \in Seq(S) /\ Len(Append(t, x)) = Len(t) + 1
  BY AppendProperties
<1>3. a \in Seq(S) /\ Len(a) = Len(s) + Len(t) + 1
  BY <1>1, AppendProperties
<1>4. b \in Seq(S) /\ Len(b) = Len(s) + Len(t) + 1
  BY <1>1, <1>2, ConcatProperties
<1>5. ASSUME NEW i \in 1 .. Len(s) + Len(t) + 1 PROVE a[i] = b[i]
  <2>1. b[i] = IF i <= Len(s) THEN s[i] ELSE Append(t, x)[i - Len(s)]
    <3> DEFINE u == Append(t, x)
    <3>1. u \in Seq(S) /\ i \in 1 .. Len(s) + Len(u)
      BY <1>1, <1>2
    <3> HIDE DEF u
    <3>2. (s \o u)[i] = IF i <= Len(s) THEN s[i] ELSE u[i - Len(s)]
      BY <3>1, ConcatProperties
    <3> QED BY <3>2 DEF u
  <2>2. CASE i <= Len(s)
    <3>1. i \in 1 .. Len(s \o t)
      BY <1>1, <2>2
    <3>2. a[i] = (s \o t)[i] /\ (s \o t)[i] = s[i]
      BY <1>1, <2>2, <3>1, AppendProperties, ConcatProperties
    <3> QED BY <2>1, <2>2, <3>2
  <2>3. CASE ~ (i <= Len(s)) /\ i # Len(s) + Len(t) + 1
    <3>1. i \in 1 .. Len(s \o t) /\ i - Len(s) \in 1 .. Len(t)
      BY <1>1, <2>3
    <3>2. a[i] = (s \o t)[i] /\ (s \o t)[i] = t[i - Len(s)]
      BY <1>1, <2>3, <3>1, AppendProperties, ConcatProperties
    <3>3. Append(t, x)[i - Len(s)] = t[i - Len(s)]
      BY <3>1, AppendProperties
    <3> QED BY <2>1, <2>3, <3>2, <3>3
  <2>4. CASE i = Len(s) + Len(t) + 1
    <3>1. i - Len(s) = Len(t) + 1 /\ i = Len(s \o t) + 1 /\ ~ (i <= Len(s))
      BY <1>1, <2>4
    <3>2. a[i] = x /\ Append(t, x)[i - Len(s)] = x
      BY <1>1, <3>1, AppendProperties
    <3> QED BY <2>1, <3>1, <3>2
  <2> QED BY <2>2, <2>3, <2>4
<1> HIDE DEF a, b
<1>6. a = b
  BY <1>3, <1>4, <1>5, SeqEqual
<1> QED BY <1>6 DEF a, b

LEMMA ConcatLast ==
  ASSUME NEW S, NEW s \in Seq(S), NEW t \in Seq(S), t # << >>
  PROVE  /\ s \o t # << >> /\ Len(s \o t) = Len(s) + Len(t)
         /\ (s \o t)[Len(s \o t)] = t[Len(t)]
<1>1. Len(s) \in Nat /\ Len(t) \in Nat /\ Len(t) # 0
  OBVIOUS
<1>2. s \o t \in Seq(S) /\ Len(s \o t) = Len(s) + Len(t)
  BY ConcatProperties
<1>3. Len(s) + Len(t) \in 1 .. Len(s) + Len(t) /\ ~ (Len(s) + Len(t) <= Len(s))
      /\ Len(s) + Len(t) - Len(s) = Len(t)
  BY <1>1
<1>4. (s \o t)[Len(s) + Len(t)] = t[Len(t)]
  BY <1>3, ConcatProperties
<1>5. s \o t # << >>
  BY <1>1, <1>2
<1> QED BY <1>2, <1>4, <1>5

\* Texts decode one after the other, if no pair is divided.
Divided(s, t) == t # << >> /\ Completes(s, t[1])

LEMMA AppendApart ==
  ASSUME NEW S, NEW s \in Seq(S), s # << >>
  PROVE  LET n == Len(s) - 1
             t == SubSeq(s, 1, n)
         IN  /\ t \in Seq(S) /\ Len(t) = n /\ n \in Nat /\ s[n + 1] \in S
             /\ s = Append(t, s[n + 1]) /\ \A i \in 1 .. n : t[i] = s[i]
<1> DEFINE n == Len(s) - 1
           t == SubSeq(s, 1, n)
<1>1. Len(s) \in Nat /\ Len(s) # 0
  OBVIOUS
<1>2. n \in Nat /\ n + 1 = Len(s) /\ n + 1 \in 1 .. Len(s)
  BY <1>1
<1>3. s[n + 1] \in S
  BY <1>2
<1>4. t \in Seq(S) /\ Len(t) = n /\ \A i \in 1 .. n : t[i] = s[i]
  <2> HIDE DEF n
  <2> QED BY <1>2
<1>5. s = Append(t, s[n + 1])
  <2> HIDE DEF n, t
  <2>1. Append(t, s[n + 1]) \in Seq(S) /\ Len(Append(t, s[n + 1])) = Len(s)
    BY <1>2, <1>3, <1>4, AppendProperties
  <2>2. ASSUME NEW i \in 1 .. Len(s) PROVE s[i] = Append(t, s[n + 1])[i]
    <3>1. i \in 1 .. n \/ i = n + 1
      BY <1>2
    <3> QED BY <1>3, <1>4, <3>1, AppendProperties
  <2> QED BY <2>1, <2>2, SeqEqual
<1> QED BY <1>2, <1>3, <1>4, <1>5

LEMMA DecodeSome ==
  ASSUME NEW s \in Seq(Unit), s # << >>
  PROVE  DecodeUtf16(s) # << >>
<1> DEFINE n == Len(s) - 1
           t == SubSeq(s, 1, n)
           x == s[n + 1]
<1>1. t \in Seq(Unit) /\ x \in Unit /\ s = Append(t, x)
  BY AppendApart
<1> HIDE DEF t, x
<1>2. DecodeUtf16(t) \in Seq(Half) /\ Front(DecodeUtf16(t)) \in Seq(Half) /\ x \in Half /\ Pair \in Half
  BY <1>1, DecodeType, FrontIs DEF Half
<1>3. DecodeUtf16(s) = WithUnit(DecodeUtf16(t), Completes(t, x), x)
  BY <1>1, DecodeAppend
<1>4. \A d \in Seq(Half) : \A y \in Half : Append(d, y) # << >>
  BY AppendProperties
<1>5. WithUnit(DecodeUtf16(t), Completes(t, x), x) # << >>
  BY <1>2, <1>4 DEF WithUnit
<1> QED BY <1>3, <1>5

LEMMA DecodeConcat ==
  ASSUME NEW s \in Seq(Unit), NEW t \in Seq(Unit), ~ Divided(s, t)
  PROVE  DecodeUtf16(s \o t) = DecodeUtf16(s) \o DecodeUtf16(t)
<1> DEFINE D(u) == DecodeUtf16(u)
           S == {n \in Nat : \A u \in Seq(Unit) : Len(u) = n /\ ~ Divided(s, u) => D(s \o u) = D(s) \o D(u)}
<1>1. 0 \in S
  <2> SUFFICES ASSUME NEW u \in Seq(Unit), Len(u) = 0 PROVE D(s \o u) = D(s) \o D(u)
    OBVIOUS
  <2>1. u = << >> /\ s \o u = s
    OBVIOUS
  <2>2. D(s) \in Seq(Half) /\ D(u) = << >>
    BY <2>1, DecodeType, DecodeNothing
  <2> HIDE DEF D
  <2> QED BY <2>1, <2>2
<1>2. ASSUME NEW n \in Nat, n \in S PROVE n + 1 \in S
  <2> SUFFICES ASSUME NEW u \in Seq(Unit), Len(u) = n + 1, ~ Divided(s, u) PROVE D(s \o u) = D(s) \o D(u)
    OBVIOUS
  <2> DEFINE r == SubSeq(u, 1, n)
             x == u[n + 1]
  <2>1. u # << >> /\ n = Len(u) - 1
    BY <1>2
  <2>2. r \in Seq(Unit) /\ Len(r) = n /\ x \in Unit /\ u = Append(r, x) /\ \A i \in 1 .. n : r[i] = u[i]
    BY <2>1, AppendApart
  <2> HIDE DEF r, x
  <2>3. ~ Divided(s, r)
    BY <2>1, <2>2 DEF Divided
  <2>4. D(s \o r) = D(s) \o D(r)
    BY <1>2, <2>2, <2>3
  <2>5. s \o r \in Seq(Unit) /\ s \o u = Append(s \o r, x)
    BY <2>2
  <2>6. D(s \o u) = WithUnit(D(s \o r), Completes(s \o r, x), x)
    BY <2>2, <2>5, DecodeAppend
  <2>7. D(u) = WithUnit(D(r), Completes(r, x), x)
    BY <2>2, DecodeAppend
  <2>8. D(s) \in Seq(Half) /\ D(r) \in Seq(Half) /\ x \in Half /\ Pair \in Half
    BY <2>2, DecodeType DEF Half
  <2>9. CASE r = << >>
    <3>1. u[1] = x
      BY <2>1, <2>2, <2>9 DEF x
    <3>2. ~ Completes(s, x) /\ ~ Completes(r, x)
      BY <2>1, <2>2, <2>9, <3>1 DEF Divided, Completes
    <3>3. D(r) = << >> /\ s \o r = s
      BY <2>9, DecodeNothing
    <3>4. D(s \o u) = Append(D(s), x) /\ D(u) = Append(<< >>, x)
      BY <2>6, <2>7, <3>2, <3>3 DEF WithUnit
    <3> HIDE DEF D
    <3>5. D(s) \o Append(<< >>, x) = Append(D(s), x)
      BY <2>8
    <3> QED BY <3>4, <3>5
  <2>10. CASE r # << >>
    <3>1. Completes(s \o r, x) = Completes(r, x)
      <4>1. s \o r # << >> /\ (s \o r)[Len(s \o r)] = r[Len(r)]
        BY <2>2, <2>10, ConcatLast
      <4> QED BY <2>10, <4>1 DEF Completes
    <3>2. CASE Completes(r, x)
      <4>1. D(r) # << >>
        BY <2>2, <2>10, DecodeSome
      <4>2. D(s \o u) = Append(Front(D(s) \o D(r)), Pair) /\ D(u) = Append(Front(D(r)), Pair)
        BY <2>4, <2>6, <2>7, <3>1, <3>2 DEF WithUnit
      <4> HIDE DEF D
      <4>3. Front(D(s) \o D(r)) = D(s) \o Front(D(r))
        BY <2>8, <4>1 DEF Front
      <4>4. Front(D(r)) \in Seq(Half)
        BY <2>8, FrontIs
      <4>5. Append(D(s) \o Front(D(r)), Pair) = D(s) \o Append(Front(D(r)), Pair)
        BY <2>8, <4>4, AppendLater
      <4> QED BY <4>2, <4>3, <4>5
    <3>3. CASE ~ Completes(r, x)
      <4>1. D(s \o u) = Append(D(s) \o D(r), x) /\ D(u) = Append(D(r), x)
        BY <2>4, <2>6, <2>7, <3>1, <3>3 DEF WithUnit
      <4> HIDE DEF D
      <4>2. Append(D(s) \o D(r), x) = D(s) \o Append(D(r), x)
        BY <2>8, AppendLater
      <4> QED BY <4>1, <4>2
    <3> QED BY <3>2, <3>3
  <2> QED BY <2>9, <2>10
<1> HIDE DEF S, D
<1>3. Nat \subseteq S
  BY <1>1, <1>2, SetInduction
<1>4. Len(t) \in S
  BY <1>3
<1> QED BY <1>4 DEF S, D

\* No more characters than units.
LEMMA DecodeLen ==
  ASSUME NEW t \in Seq(Unit)
  PROVE  Len(DecodeUtf16(t)) <= Len(t)
<1> DEFINE D(u) == DecodeUtf16(u)
           S == {n \in Nat : \A u \in Seq(Unit) : Len(u) = n => Len(D(u)) <= n}
<1>1. 0 \in S
  <2> SUFFICES ASSUME NEW u \in Seq(Unit), Len(u) = 0 PROVE Len(D(u)) <= 0
    OBVIOUS
  <2>1. u = << >> /\ Len(<< >>) = 0
    OBVIOUS
  <2> QED BY <2>1, DecodeNothing
<1>2. ASSUME NEW n \in Nat, n \in S PROVE n + 1 \in S
  <2> SUFFICES ASSUME NEW u \in Seq(Unit), Len(u) = n + 1 PROVE Len(D(u)) <= n + 1
    OBVIOUS
  <2> DEFINE r == SubSeq(u, 1, n)
             x == u[n + 1]
  <2>1. u # << >> /\ n = Len(u) - 1
    BY <1>2
  <2>2. r \in Seq(Unit) /\ Len(r) = n /\ x \in Unit /\ u = Append(r, x)
    BY <2>1, AppendApart
  <2> HIDE DEF r, x
  <2>3. Len(D(r)) <= n
    BY <1>2, <2>2
  <2>4. D(u) = WithUnit(D(r), Completes(r, x), x)
    BY <2>2, DecodeAppend
  <2>5. D(r) \in Seq(Half) /\ x \in Half /\ Pair \in Half
    BY <2>2, DecodeType DEF Half
  <2> HIDE DEF D
  <2>6. Len(Front(D(r))) <= Len(D(r)) /\ Front(D(r)) \in Seq(Half)
    BY <2>5 DEF Front
  <2>7. Len(Append(D(r), x)) <= n + 1 /\ Len(Append(Front(D(r)), Pair)) <= n + 1
    BY <2>3, <2>5, <2>6
  <2> QED BY <2>4, <2>7 DEF WithUnit
<1> HIDE DEF S, D
<1>3. Nat \subseteq S
  BY <1>1, <1>2, SetInduction
<1>4. Len(t) \in S
  BY <1>3
<1> QED BY <1>4 DEF S, D

-----------------------------------------------------------------------------
(* Long names: bytes *)

Character == Half \cup {Replacement}

LEMMA BytesType == \A ch \in Character : Bytes(ch) \in Nat
BY BufferAssumption DEF Character, Half, Bytes, Pair, Replacement

\* How many bytes the last j characters take, for each j.
Totals(f, chars) ==
  /\ f \in [0 .. Len(chars) -> Nat] /\ f[0] = 0
  /\ \A j \in 1 .. Len(chars) : f[j] = f[j - 1] + Bytes(chars[Len(chars) + 1 - j])
  /\ \A i \in 1 .. Len(chars) + 1 : BytesFrom(chars, i) = f[Len(chars) + 1 - i]

LEMMA TotalsExist ==
  ASSUME NEW chars \in Seq(Character)
  PROVE  \E f : Totals(f, chars)
<1> DEFINE l == Len(chars)
           step == [j \in 1 .. l |-> [n \in Nat |-> n + Bytes(chars[l + 1 - j])]]
           P(f) == f = [j \in 0 .. l |-> IF j = 0 THEN 0 ELSE f[j - 1] + Bytes(chars[l + 1 - j])]
           f == CHOOSE g : P(g)
<1>1. l \in Nat
  OBVIOUS
<1>2. ASSUME NEW j \in 1 .. l PROVE Bytes(chars[l + 1 - j]) \in Nat
  <2>1. l + 1 - j \in 1 .. l
    BY <1>1
  <2> QED BY <2>1, BytesType
<1>3. step \in [1 .. l -> [Nat -> Nat]]
  BY <1>2
<1>4. PICK h \in [0 .. l -> Nat] : StepsFrom(h, l, 0, step)
  <2> HIDE DEF l, step
  <2> QED BY <1>1, <1>3, StepsExist
<1>5. ASSUME NEW j \in 1 .. l PROVE h[j] = h[j - 1] + Bytes(chars[l + 1 - j])
  <2>1. h[j - 1] \in Nat
    <3> HIDE DEF l
    <3>1. j - 1 \in 0 .. l
      BY <1>1
    <3> QED BY <1>4, <3>1
  <2>2. h[j] = step[j][h[j - 1]]
    BY <1>4 DEF StepsFrom
  <2> QED BY <2>1, <2>2
<1>6. h[0] = 0
  BY <1>4 DEF StepsFrom
<1>7. P(h)
  <2>1. \A j \in 0 .. l : h[j] = IF j = 0 THEN 0 ELSE h[j - 1] + Bytes(chars[l + 1 - j])
    BY <1>1, <1>5, <1>6
  <2> HIDE DEF l
  <2> QED BY <1>4, <2>1
<1>8. P(f)
  <2> HIDE DEF P
  <2> QED BY <1>7
<1>9. f[0] = 0 /\ \A j \in 1 .. l : f[j] = f[j - 1] + Bytes(chars[l + 1 - j])
  <2> HIDE DEF f, l
  <2> QED BY <1>1, <1>8
<1>10. f \in [0 .. l -> Nat]
  <2> DEFINE S == {j \in 0 .. l : f[j] \in Nat}
  <2>1. 0 \in S
    <3> HIDE DEF f
    <3> QED BY <1>1, <1>9
  <2>2. ASSUME NEW j \in 1 .. l, j - 1 \in S PROVE j \in S
    <3> HIDE DEF f
    <3>1. f[j - 1] \in Nat /\ f[j] = f[j - 1] + Bytes(chars[l + 1 - j])
      BY <1>9, <2>2
    <3>2. f[j] \in Nat
      BY <1>2, <3>1
    <3> QED BY <1>1, <3>2
  <2> HIDE DEF S, l
  <2>3. 0 .. l \subseteq S
    BY <1>1, <2>1, <2>2, BoundedInduction
  <2>4. \A j \in 0 .. l : f[j] \in Nat
    BY <2>3 DEF S
  <2> HIDE DEF P, f
  <2>5. f = [j \in 0 .. l |-> IF j = 0 THEN 0 ELSE f[j - 1] + Bytes(chars[l + 1 - j])]
    BY <1>8 DEF P
  <2> QED BY <2>4, <2>5
<1>11. ASSUME NEW i PROVE BytesFrom(chars, i) = f[l + 1 - i]
  BY DEF BytesFrom
<1> QED BY <1>9, <1>10, <1>11 DEF Totals

LEMMA BytesFromIs ==
  ASSUME NEW chars \in Seq(Character)
  PROVE  /\ \A i \in 1 .. Len(chars) + 1 : BytesFrom(chars, i) \in Nat
         /\ BytesFrom(chars, Len(chars) + 1) = 0
<1>1. PICK f : Totals(f, chars)
  BY TotalsExist
<1>2. Len(chars) \in Nat
  OBVIOUS
<1>3. ASSUME NEW i \in 1 .. Len(chars) + 1 PROVE BytesFrom(chars, i) \in Nat
  <2>1. Len(chars) + 1 - i \in 0 .. Len(chars)
    BY <1>2
  <2> QED BY <1>1, <2>1 DEF Totals
<1>4. Len(chars) + 1 \in 1 .. Len(chars) + 1 /\ Len(chars) + 1 - (Len(chars) + 1) = 0
  BY <1>2
<1>5. BytesFrom(chars, Len(chars) + 1) = f[0]
  BY <1>1, <1>4 DEF Totals
<1> QED BY <1>1, <1>3, <1>5 DEF Totals

Size(chars) == BytesFrom(chars, 1)

LEMMA SizeIs ==
  /\ \A chars \in Seq(Character) : Size(chars) \in Nat
  /\ << >> \in Seq(Character) /\ Size(<< >>) = 0
<1>1. ASSUME NEW chars \in Seq(Character) PROVE Size(chars) \in Nat
  <2>1. 1 \in 1 .. Len(chars) + 1
    OBVIOUS
  <2> QED BY <2>1, BytesFromIs DEF Size
<1>2. << >> \in Seq(Character) /\ Len(<< >>) + 1 = 1
  OBVIOUS
<1>3. Size(<< >>) = 0
  BY <1>2, BytesFromIs DEF Size
<1> QED BY <1>1, <1>2, <1>3

LEMMA SizeConcat ==
  ASSUME NEW s \in Seq(Character), NEW t \in Seq(Character)
  PROVE  Size(s \o t) = Size(s) + Size(t)
<1> DEFINE u == s \o t
           m == Len(s)
           n == Len(t)
<1>1. /\ u \in Seq(Character) /\ m \in Nat /\ n \in Nat /\ Len(u) = m + n
      /\ \A i \in 1 .. m + n : u[i] = IF i <= m THEN s[i] ELSE t[i - m]
  BY ConcatProperties
<1>2. PICK f : Totals(f, s)
  BY TotalsExist
<1>3. PICK g : Totals(g, t)
  BY TotalsExist
<1>4. PICK h : Totals(h, u)
  BY <1>1, TotalsExist
<1> HIDE DEF u, m, n
<1>5. /\ f \in [0 .. m -> Nat] /\ f[0] = 0 /\ Size(s) = f[m]
      /\ \A j \in 1 .. m : f[j] = f[j - 1] + Bytes(s[m + 1 - j])
  <2>1. 1 \in 1 .. m + 1 /\ m + 1 - 1 = m
    BY <1>1
  <2> QED BY <1>2, <2>1 DEF Totals, Size, m
<1>6. /\ g \in [0 .. n -> Nat] /\ g[0] = 0 /\ Size(t) = g[n]
      /\ \A j \in 1 .. n : g[j] = g[j - 1] + Bytes(t[n + 1 - j])
  <2>1. 1 \in 1 .. n + 1 /\ n + 1 - 1 = n
    BY <1>1
  <2> QED BY <1>3, <2>1 DEF Totals, Size, n
<1>7. /\ h[0] = 0 /\ Size(u) = h[m + n]
      /\ \A j \in 1 .. m + n : h[j] = h[j - 1] + Bytes(u[m + n + 1 - j])
  <2>1. 1 \in 1 .. (m + n) + 1 /\ (m + n) + 1 - 1 = m + n
    BY <1>1
  <2> QED BY <1>1, <1>4, <2>1 DEF Totals, Size
<1> DEFINE S == {j \in 0 .. n : h[j] = g[j]}
<1>8. n \in S
  <2>1. 0 \in S
    BY <1>1, <1>6, <1>7
  <2>2. ASSUME NEW j \in 1 .. n, j - 1 \in S PROVE j \in S
    <3>1. j \in 1 .. m + n
      BY <1>1
    <3>2. m + n + 1 - j \in 1 .. m + n /\ ~ (m + n + 1 - j <= m) /\ (m + n + 1 - j) - m = n + 1 - j
      BY <1>1
    <3>3. u[m + n + 1 - j] = t[n + 1 - j]
      BY <1>1, <3>2
    <3> QED BY <1>6, <1>7, <2>2, <3>1, <3>3
  <2> HIDE DEF S
  <2>3. 0 .. n \subseteq S
    BY <1>1, <2>1, <2>2, BoundedInduction
  <2> QED BY <1>1, <2>3
<1> DEFINE R == {j \in 0 .. m : h[n + j] = g[n] + f[j]}
<1>9. m \in R
  <2>1. 0 \in R
    <3>1. h[n] = g[n] /\ g[n] \in Nat
      BY <1>1, <1>6, <1>8
    <3> QED BY <1>1, <1>5, <3>1
  <2>2. ASSUME NEW j \in 1 .. m, j - 1 \in R PROVE j \in R
    <3>1. n + j \in 1 .. m + n /\ (n + j) - 1 = n + (j - 1)
      BY <1>1
    <3>2. m + n + 1 - (n + j) = m + 1 - j /\ m + 1 - j \in 1 .. m /\ m + 1 - j \in 1 .. m + n
      BY <1>1
    <3>3. u[m + 1 - j] = s[m + 1 - j]
      BY <1>1, <3>2
    <3>4. h[n + j] = h[n + (j - 1)] + Bytes(s[m + 1 - j])
      BY <1>7, <3>1, <3>2, <3>3
    <3>5. f[j] = f[j - 1] + Bytes(s[m + 1 - j])
      BY <1>5
    <3>6. Bytes(s[m + 1 - j]) \in Nat /\ g[n] \in Nat /\ f[j - 1] \in Nat
      <4>1. s[m + 1 - j] \in Character
        BY <3>2 DEF m
      <4>2. j - 1 \in 0 .. m
        BY <1>1
      <4>3. Bytes(s[m + 1 - j]) \in Nat
        BY <4>1, BytesType
      <4>4. f[j - 1] \in Nat
        BY <1>5, <4>2
      <4>5. g[n] \in Nat
        BY <1>1, <1>6
      <4> QED BY <4>3, <4>4, <4>5
    <3>7. h[n + (j - 1)] = g[n] + f[j - 1]
      BY <2>2
    <3>8. h[n + j] = g[n] + f[j]
      BY <3>4, <3>5, <3>6, <3>7
    <3> QED BY <3>8
  <2> HIDE DEF R
  <2>3. 0 .. m \subseteq R
    BY <1>1, <2>1, <2>2, BoundedInduction
  <2> QED BY <1>1, <2>3
<1>10. h[n + m] = g[n] + f[m]
  BY <1>9
<1>11. n + m = m + n /\ g[n] \in Nat /\ f[m] \in Nat
  BY <1>1, <1>5, <1>6
<1>12. Size(u) = Size(s) + Size(t)
  BY <1>5, <1>6, <1>7, <1>10, <1>11
<1> QED BY <1>12 DEF u

-----------------------------------------------------------------------------
(* Long names: the buffer *)

BufferState ==
  [text : Seq(Character), free : Nat, overflow : BOOLEAN, saved : Surrogate \cup {Nothing},
   panicked : BOOLEAN]

LEMMA CharsType ==
  ASSUME NEW decoded \in Seq(Half)
  PROVE  Chars(decoded) \in Seq(Character) /\ Saved(decoded) \in Surrogate \cup {Nothing}
<1> DEFINE kept == IF decoded # <<>> /\ Head(decoded) \in Surrogate THEN Tail(decoded) ELSE decoded
<1>1. kept \in Seq(Half)
  OBVIOUS
<1> HIDE DEF kept
<1>2. Len(kept) \in Nat /\ DOMAIN kept = 1 .. Len(kept) /\ \A i \in 1 .. Len(kept) : kept[i] \in Half
  BY <1>1
<1>3. [i \in 1 .. Len(kept) |-> IF kept[i] \in Surrogate THEN Replacement ELSE kept[i]] \in Seq(Character)
  <2>1. \A i \in 1 .. Len(kept) : (IF kept[i] \in Surrogate THEN Replacement ELSE kept[i]) \in Character
    BY <1>2 DEF Character
  <2> QED BY <1>2, <2>1
<1>4. Chars(decoded) = [i \in DOMAIN kept |-> IF kept[i] \in Surrogate THEN Replacement ELSE kept[i]]
  BY DEF Chars, kept
<1>5. Chars(decoded) \in Seq(Character)
  BY <1>2, <1>3, <1>4
<1> QED BY <1>5 DEF Saved

\* Characters that are no surrogates stay as they are, and one before them waits
\* for the next piece.
LEMMA CharsAre ==
  ASSUME NEW rest \in Seq(Half), ToSet(rest) \cap Surrogate = {}
  PROVE  /\ Chars(rest) = rest /\ Saved(rest) = Nothing
         /\ Chars(<<"low">> \o rest) = rest /\ Saved(<<"low">> \o rest) = "low"
<1>1. Len(rest) \in Nat /\ DOMAIN rest = 1 .. Len(rest)
  OBVIOUS
<1>2. \A i \in 1 .. Len(rest) : rest[i] \notin Surrogate
  BY <1>1 DEF ToSet
<1>3. rest # << >> => Head(rest) = rest[1] /\ 1 \in 1 .. Len(rest)
  OBVIOUS
<1>4. [i \in DOMAIN rest |-> IF rest[i] \in Surrogate THEN Replacement ELSE rest[i]] = rest
  BY <1>1, <1>2
<1>5. Chars(rest) = rest /\ Saved(rest) = Nothing
  BY <1>2, <1>3, <1>4 DEF Chars, Saved
<1> DEFINE more == <<"low">> \o rest
<1>6. "low" \in Half
  BY BufferAssumption DEF Half
<1>7. more # << >> /\ Head(more) = "low" /\ Tail(more) = rest
  BY <1>6
<1> HIDE DEF more
<1>8. Chars(more) = rest /\ Saved(more) = "low"
  BY <1>4, <1>7 DEF Chars, Saved, Surrogate
<1> QED BY <1>5, <1>8 DEF more

LEMMA ClearIs == Clear \in BufferState
<1>1. << >> \in Seq(Character)
  OBVIOUS
<1> QED BY <1>1, BufferAssumption DEF Clear, BufferState

LEMMA UnitsIs ==
  ASSUME NEW b \in BufferState, NEW piece \in Seq(Unit)
  PROVE  Units(b, piece) \in Seq(Unit)
<1>1. b.saved \in Surrogate \cup {Nothing}
  BY DEF BufferState
<1>2. Surrogate \subseteq Unit
  BY BufferAssumption DEF Surrogate
<1>3. b.saved # Nothing => Append(piece, b.saved) \in Seq(Unit)
  BY <1>1, <1>2
<1> QED BY <1>3 DEF Units

\* What push does with the characters of a piece.
LEMMA PushIs ==
  ASSUME NEW b \in BufferState, NEW piece \in Seq(Unit)
  PROVE  LET decoded == DecodeUtf16(Units(b, piece))
             chars   == Chars(decoded)
             to      == Push(b, piece)
         IN  /\ to \in BufferState /\ chars \in Seq(Character)
             /\ to.saved = Saved(decoded)
             /\ to.panicked = (b.panicked \/ Len(chars) > PieceLen)
             /\ to.overflow = (b.overflow \/ Size(chars) > b.free)
             /\ Size(chars) <= b.free => to.text = chars \o b.text /\ to.free = b.free - Size(chars)
<1> DEFINE decoded == DecodeUtf16(Units(b, piece))
           chars == Chars(decoded)
           room == {i \in 1 .. Len(chars) + 1 : BytesFrom(chars, i) <= b.free}
           first == Min(room)
           text == SubSeq(chars, first, Len(chars)) \o b.text
           free == b.free - BytesFrom(chars, first)
           to == Push(b, piece)
<1>1. /\ b.text \in Seq(Character) /\ b.free \in Nat /\ b.overflow \in BOOLEAN /\ b.panicked \in BOOLEAN
  BY DEF BufferState
<1>2. decoded \in Seq(Half)
  BY UnitsIs, DecodeType
<1>3. chars \in Seq(Character) /\ Saved(decoded) \in Surrogate \cup {Nothing}
  BY <1>2, CharsType
<1>4. to = [text |-> text, free |-> free, overflow |-> b.overflow \/ first > 1,
            saved |-> Saved(decoded), panicked |-> b.panicked \/ Len(chars) > PieceLen]
  BY DEF Push
<1> HIDE DEF decoded, chars, to
<1>5. Len(chars) \in Nat /\ Len(chars) + 1 \in 1 .. Len(chars) + 1 /\ 1 \in 1 .. Len(chars) + 1
  BY <1>3
<1>6. /\ \A i \in 1 .. Len(chars) + 1 : BytesFrom(chars, i) \in Nat
      /\ BytesFrom(chars, Len(chars) + 1) = 0
  BY <1>3, BytesFromIs
<1>7. Len(chars) + 1 \in room /\ room \subseteq Nat
  BY <1>1, <1>5, <1>6
<1>8. first \in room /\ \A i \in room : first <= i
  <2> HIDE DEF room
  <2> QED BY <1>7, MinIs
<1>9. first \in 1 .. Len(chars) + 1 /\ BytesFrom(chars, first) <= b.free
  <2> HIDE DEF first
  <2> QED BY <1>8
<1>10. (first > 1) = (Size(chars) > b.free)
  <2>1. ASSUME Size(chars) <= b.free PROVE first = 1
    <3>1. 1 \in room
      BY <1>5, <2>1 DEF Size
    <3>2. first <= 1
      <4> HIDE DEF first, room
      <4> QED BY <1>8, <3>1
    <3> HIDE DEF first
    <3> QED BY <1>5, <1>9, <3>2
  <2>2. ASSUME first = 1 PROVE Size(chars) <= b.free
    BY <1>9, <2>2 DEF Size
  <2>3. Size(chars) \in Nat
    BY <1>5, <1>6 DEF Size
  <2> HIDE DEF first
  <2> QED BY <1>1, <1>5, <1>9, <2>1, <2>2, <2>3
<1>11. free \in Nat
  <2> HIDE DEF first
  <2> QED BY <1>1, <1>6, <1>9
<1>12. text \in Seq(Character)
  <2> DEFINE part == SubSeq(chars, first, Len(chars))
  <2> HIDE DEF first
  <2>1. \A i \in first .. Len(chars) : chars[i] \in Character
    BY <1>3, <1>5, <1>9
  <2>2. part \in Seq(Character)
    BY <1>5, <1>9, <2>1, SubSeqProperties
  <2> HIDE DEF part
  <2>3. part \o b.text \in Seq(Character)
    BY <1>1, <2>2, ConcatProperties
  <2> QED BY <2>3 DEF part
<1>13. ASSUME Size(chars) <= b.free PROVE text = chars \o b.text /\ free = b.free - Size(chars)
  <2>1. Size(chars) \in Nat
    BY <1>5, <1>6 DEF Size
  <2>2. first = 1
    <3> HIDE DEF first
    <3> QED BY <1>1, <1>5, <1>9, <1>10, <1>13, <2>1
  <2> HIDE DEF first
  <2>3. SubSeq(chars, 1, Len(chars)) = chars
    BY <1>3, SubSeqFull
  <2> QED BY <2>2, <2>3 DEF Size
<1> HIDE DEF first, text, free
<1>14. to \in BufferState
  BY <1>1, <1>3, <1>4, <1>11, <1>12 DEF BufferState
<1>15. /\ to.saved = Saved(decoded)
       /\ to.panicked = (b.panicked \/ Len(chars) > PieceLen)
       /\ to.overflow = (b.overflow \/ Size(chars) > b.free)
       /\ to.text = text /\ to.free = free
  BY <1>4, <1>10
<1> QED BY <1>3, <1>13, <1>14, <1>15 DEF to, chars, decoded

-----------------------------------------------------------------------------
(* Long names: every division into pieces *)

\* The characters of the units from the i-th to the j-th.
D(long, i, j) == DecodeUtf16(SubSeq(long, i, j))

LEMMA PartIs ==
  ASSUME NEW long \in Seq(Unit), NEW i \in 1 .. Len(long) + 1, NEW j \in i - 1 .. Len(long)
  PROVE  LET s == SubSeq(long, i, j) IN
         /\ s \in Seq(Unit) /\ Len(s) = j - i + 1 /\ j - i + 1 \in Nat
         /\ \A x \in 1 .. j - i + 1 : s[x] = long[i + x - 1]
         /\ D(long, i, j) \in Seq(Half) /\ Len(D(long, i, j)) <= j - i + 1
<1> DEFINE s == SubSeq(long, i, j)
<1>1. Len(long) \in Nat /\ i \in Nat /\ j \in Int /\ j - i + 1 \in Nat /\ i >= 1 /\ j <= Len(long)
  OBVIOUS
<1>2. \A x \in i .. j : long[x] \in Unit
  BY <1>1
<1>3. s \in Seq(Unit) /\ Len(s) = (IF i <= j THEN j - i + 1 ELSE 0) /\ \A x \in 1 .. j - i + 1 : s[x] = long[i + x - 1]
  BY <1>1, <1>2, SubSeqProperties
<1>4. Len(s) = j - i + 1
  BY <1>1, <1>3
<1>5. D(long, i, j) \in Seq(Half) /\ Len(D(long, i, j)) <= Len(s)
  <2> HIDE DEF s
  <2> QED BY <1>3, DecodeType, DecodeLen DEF D, s
<1> QED BY <1>1, <1>3, <1>4, <1>5

\* Where no pair is divided, the parts decode one after the other.
Parts(long, i, j, k) ==
  /\ long \in Seq(Unit) /\ i \in 1 .. Len(long) + 1 /\ j \in i - 1 .. Len(long) /\ k \in j .. Len(long)
  /\ ~ PairsAt(long, j)

LEMMA DecodeParts ==
  ASSUME NEW long, NEW i, NEW j, NEW k, Parts(long, i, j, k)
  PROVE  D(long, i, k) = D(long, i, j) \o D(long, j + 1, k)
<1> DEFINE l == Len(long)
           s == SubSeq(long, i, j)
           t == SubSeq(long, j + 1, k)
<1> /\ long \in Seq(Unit) /\ i \in 1 .. l + 1 /\ j \in i - 1 .. l /\ k \in j .. l /\ ~ PairsAt(long, j)
  BY DEF Parts
<1>1. l \in Nat
  OBVIOUS
<1> HIDE DEF l
<1>2. j \in Nat /\ k \in Nat /\ k \in (j + 1) - 1 .. l /\ j + 1 \in 1 .. l + 1
  BY <1>1
<1>3. s \o t = SubSeq(long, i, k)
  BY <1>2, ConcatAdjacentSubSeq DEF l
<1>4. s \in Seq(Unit) /\ Len(s) = j - i + 1 /\ \A x \in 1 .. j - i + 1 : s[x] = long[i + x - 1]
  BY PartIs DEF l
<1>5. t \in Seq(Unit) /\ Len(t) = k - (j + 1) + 1 /\ \A x \in 1 .. k - (j + 1) + 1 : t[x] = long[(j + 1) + x - 1]
  <2> DEFINE n == j + 1
  <2>1. n \in 1 .. l + 1 /\ k \in n - 1 .. l
    BY <1>2
  <2> HIDE DEF n
  <2>2. SubSeq(long, n, k) \in Seq(Unit) /\ Len(SubSeq(long, n, k)) = k - n + 1
        /\ \A x \in 1 .. k - n + 1 : SubSeq(long, n, k)[x] = long[n + x - 1]
    BY <2>1, PartIs DEF l
  <2> QED BY <2>2 DEF n
<1> HIDE DEF s, t
<1>6. ~ Divided(s, t)
  <2> SUFFICES ASSUME t # << >>, s # << >>, s[Len(s)] = "high", t[1] = "low" PROVE FALSE
    BY DEF Divided, Completes
  <2>1. Len(t) # 0 /\ Len(s) # 0
    BY <1>4, <1>5
  <2>2. k - j >= 1 /\ j - i + 1 >= 1 /\ k - (j + 1) + 1 = k - j
    BY <1>1, <1>2, <1>4, <1>5, <2>1
  <2>3. j - i + 1 \in 1 .. j - i + 1 /\ i + (j - i + 1) - 1 = j
    BY <1>1, <1>2, <2>2
  <2>4. 1 \in 1 .. k - (j + 1) + 1 /\ (j + 1) + 1 - 1 = j + 1
    BY <1>1, <1>2, <2>2
  <2>5. long[j] = "high"
    BY <1>4, <2>3
  <2>6. long[j + 1] = "low"
    BY <1>5, <2>4
  <2>7. j \in 1 .. l - 1
    BY <1>1, <1>2, <2>2
  <2> QED BY <2>5, <2>6, <2>7 DEF PairsAt, l
<1>7. DecodeUtf16(s \o t) = DecodeUtf16(s) \o DecodeUtf16(t)
  BY <1>4, <1>5, <1>6, DecodeConcat
<1> QED BY <1>3, <1>7 DEF D, s, t

\* The same, by a name.
Falls(long, i, j, k) == D(long, i, k) = D(long, i, j) \o D(long, j + 1, k)

LEMMA FallsApart ==
  ASSUME NEW long, NEW i, NEW j, NEW k, Parts(long, i, j, k)
  PROVE  Falls(long, i, j, k)
BY DecodeParts DEF Falls

\* One unit, and a pair.
LEMMA DecodeFew ==
  ASSUME NEW long \in Seq(Unit), NEW i \in 1 .. Len(long)
  PROVE  /\ D(long, i, i) = << long[i] >>
         /\ PairsAt(long, i) => D(long, i, i + 1) = << Pair >>
<1> DEFINE l == Len(long)
           x == long[i]
<1>1. l \in Nat /\ x \in Unit /\ << >> \in Seq(Unit)
  OBVIOUS
<1>2. SubSeq(long, i, i) = << x >>
  <2>1. SubSeq(long, i, i) \in Seq(Unit) /\ Len(SubSeq(long, i, i)) = 1 /\ SubSeq(long, i, i)[1] = x
    BY <1>1
  <2>2. << x >> \in Seq(Unit) /\ Len(<< x >>) = 1 /\ << x >>[1] = x
    BY <1>1
  <2> DEFINE a == SubSeq(long, i, i)
             b == << x >>
  <2> HIDE DEF a, b, x
  <2>3. a \in Seq(Unit) /\ b \in Seq(Unit) /\ Len(a) = Len(b) /\ \A n \in 1 .. Len(a) : a[n] = b[n]
    BY <2>1, <2>2 DEF a, b
  <2>4. a = b
    BY <2>3, SeqEqual
  <2> QED BY <2>4 DEF a, b
<1>3. << x >> = Append(<< >>, x) /\ << x >> \in Seq(Unit)
  BY <1>1
<1>4. DecodeUtf16(<< x >>) = << x >>
  <2>1. DecodeUtf16(Append(<< >>, x)) = WithUnit(DecodeUtf16(<< >>), Completes(<< >>, x), x)
    BY <1>1, DecodeAppend
  <2>2. ~ Completes(<< >>, x)
    BY DEF Completes
  <2>3. DecodeUtf16(Append(<< >>, x)) = Append(<< >>, x)
    BY <2>1, <2>2, DecodeNothing DEF WithUnit
  <2> QED BY <1>3, <2>3
<1>5. ASSUME PairsAt(long, i) PROVE D(long, i, i + 1) = << Pair >>
  <2> DEFINE y == long[i + 1]
  <2>1. i + 1 \in 1 .. l /\ x = "high" /\ y = "low"
    BY <1>5 DEF PairsAt
  <2>2. y \in Unit
    BY <2>1
  <2>3. SubSeq(long, i, i + 1) = Append(<< x >>, y)
    BY <2>1
  <2> HIDE DEF x, y
  <2>4. DecodeUtf16(Append(<< x >>, y)) = WithUnit(DecodeUtf16(<< x >>), Completes(<< x >>, y), y)
    BY <1>3, <2>2, DecodeAppend
  <2>5. Completes(<< x >>, y)
    BY <2>1 DEF Completes
  <2>6. DecodeUtf16(Append(<< x >>, y)) = Append(Front(<< x >>), Pair)
    BY <1>4, <2>4, <2>5 DEF WithUnit
  <2>7. Front(<< x >>) = << >>
    BY <1>1 DEF Front
  <2>8. Append(Front(<< x >>), Pair) = << Pair >>
    <3>1. Append(<< >>, Pair) = << Pair >>
      OBVIOUS
    <3> QED BY <2>7, <3>1
  <2> QED BY <2>3, <2>6, <2>8 DEF D
<1> QED BY <1>2, <1>4, <1>5 DEF D

LEMMA HalfAssociative == \A x, y, z \in Seq(Half) : (x \o y) \o z = x \o (y \o z)
<1> TAKE x, y, z \in Seq(Half)
<1> QED BY SMT

\* What a part of a text has, the whole has.
LEMMA MiddleIn ==
  ASSUME NEW S, NEW s \in Seq(S), NEW t \in Seq(S), NEW u \in Seq(S)
  PROVE  ToSet(t) \subseteq ToSet((s \o t) \o u)
<1> DEFINE a == s \o t
           b == a \o u
<1>1. a \in Seq(S) /\ Len(a) = Len(s) + Len(t)
      /\ \A i \in 1 .. Len(s) + Len(t) : a[i] = IF i <= Len(s) THEN s[i] ELSE t[i - Len(s)]
  BY ConcatProperties
<1> HIDE DEF a
<1>0. a \in Seq(S)
  BY <1>1
<1>2. b \in Seq(S) /\ Len(b) = Len(a) + Len(u)
      /\ \A i \in 1 .. Len(a) + Len(u) : b[i] = IF i <= Len(a) THEN a[i] ELSE u[i - Len(a)]
  BY <1>0, ConcatProperties
<1> HIDE DEF b
<1>3. Len(s) \in Nat /\ Len(t) \in Nat /\ Len(u) \in Nat
  OBVIOUS
<1>4. DOMAIN t = 1 .. Len(t) /\ DOMAIN b = 1 .. Len(b)
  BY <1>2
<1>5. ASSUME NEW i \in 1 .. Len(t) PROVE t[i] \in ToSet(b)
  <2>1. Len(s) + i \in 1 .. Len(s) + Len(t) /\ ~ (Len(s) + i <= Len(s)) /\ Len(s) + i - Len(s) = i
    BY <1>3
  <2>2. a[Len(s) + i] = t[i]
    BY <1>1, <2>1
  <2>3. Len(s) + i \in 1 .. Len(a) + Len(u) /\ Len(s) + i <= Len(a)
    BY <1>1, <1>3, <2>1
  <2>4. b[Len(s) + i] = t[i] /\ Len(s) + i \in DOMAIN b
    BY <1>2, <1>4, <2>2, <2>3
  <2> QED BY <2>4 DEF ToSet
<1>6. ToSet(t) \subseteq ToSet(b)
  BY <1>4, <1>5 DEF ToSet
<1> QED BY <1>6 DEF a, b

\* A part of a text that divides no pairs is a text.
LEMMA PartIsText ==
  ASSUME NEW long \in Seq(Unit), IsText(long),
         NEW i \in 1 .. Len(long) + 1, NEW j \in i - 1 .. Len(long),
         ~ PairsAt(long, i - 1), ~ PairsAt(long, j)
  PROVE  ToSet(D(long, i, j)) \cap Surrogate = {}
<1> DEFINE l == Len(long)
           h == i - 1
<1>1. l \in Nat /\ i \in Nat /\ j \in Int
  OBVIOUS
<1>2. 1 \in 1 .. l + 1 /\ h \in 1 - 1 .. l /\ l \in h .. l /\ h + 1 = i /\ l \in j .. l /\ j + 1 \in 1 .. l + 1
      /\ l \in (j + 1) - 1 .. l
  BY <1>1
<1>3. Parts(long, 1, h, l) /\ Parts(long, i, j, l)
  BY <1>2 DEF Parts
<1> HIDE DEF l, h
<1>4. D(long, 1, l) = D(long, 1, h) \o D(long, i, l)
  <2>1. D(long, 1, l) = D(long, 1, h) \o D(long, h + 1, l)
    BY <1>3, DecodeParts
  <2>2. h + 1 = i
    BY <1>2
  <2> QED BY <2>1, <2>2
<1>5. D(long, i, l) = D(long, i, j) \o D(long, j + 1, l)
  <2>1. Parts(long, i, j, l)
    BY <1>3
  <2>2. Falls(long, i, j, l)
    BY <2>1, FallsApart
  <2> QED BY <2>2 DEF Falls
<1> DEFINE a == D(long, 1, h)
           b == D(long, i, j)
           c == D(long, j + 1, l)
<1>6. a \in Seq(Half) /\ b \in Seq(Half)
  BY <1>2, PartIs DEF l
<1>7. c \in Seq(Half)
  <2> DEFINE n == j + 1
  <2>1. n \in 1 .. l + 1 /\ l \in n - 1 .. l
    BY <1>2
  <2> HIDE DEF n
  <2>2. D(long, n, l) \in Seq(Half)
    BY <2>1, PartIs DEF l
  <2> QED BY <2>2 DEF n
<1>8. SubSeq(long, 1, l) = long
  BY SubSeqFull DEF l
<1>9. D(long, 1, l) = Text(long)
  BY <1>8 DEF D, Text
<1> HIDE DEF a, b, c
<1>10. (a \o b) \o c = a \o (b \o c)
  BY <1>6, <1>7, HalfAssociative
<1>11. Text(long) = (a \o b) \o c
  BY <1>4, <1>5, <1>9, <1>10 DEF a, b, c
<1>12. ToSet(b) \subseteq ToSet(Text(long))
  BY <1>6, <1>7, <1>11, MiddleIn
<1>13. ToSet(b) \cap Surrogate = {}
  BY <1>12 DEF IsText
<1> QED BY <1>13 DEF b

\* In a text, surrogates come in pairs.
LEMMA TextUnits ==
  ASSUME NEW long \in Seq(Unit), IsText(long), NEW i \in 1 .. Len(long), long[i] \in Surrogate
  PROVE  /\ long[i] = "high" => PairsAt(long, i)
         /\ long[i] = "low" => PairsAt(long, i - 1)
<1>1. ASSUME ~ PairsAt(long, i), ~ PairsAt(long, i - 1) PROVE FALSE
  <2>1. i \in 1 .. Len(long) + 1 /\ i \in i - 1 .. Len(long)
    OBVIOUS
  <2>2. ToSet(D(long, i, i)) \cap Surrogate = {}
    BY <1>1, <2>1, PartIsText
  <2>3. D(long, i, i) = << long[i] >>
    BY DecodeFew
  <2>4. long[i] \in ToSet(<< long[i] >>)
    BY DEF ToSet
  <2> QED BY <2>2, <2>3, <2>4
<1>2. long[i] = "high" => ~ PairsAt(long, i - 1)
  BY DEF PairsAt
<1>3. long[i] = "low" => ~ PairsAt(long, i)
  BY DEF PairsAt
<1> QED BY <1>1, <1>2, <1>3

\* Where the first character begins that is not divided by a piece that begins
\* at a.
CharFrom(long, a) == IF a <= Len(long) /\ long[a] = "low" THEN a + 1 ELSE a

LEMMA CharFromIs ==
  ASSUME NEW long \in Seq(Unit), NEW a \in 1 .. Len(long) + 1
  PROVE  /\ CharFrom(long, a) \in 1 .. Len(long) + 1 /\ CharFrom(long, a) \in {a, a + 1}
         /\ ~ PairsAt(long, CharFrom(long, a) - 1)
         /\ CharFrom(long, a) = a + 1 <=> a \in 1 .. Len(long) /\ long[a] = "low"
<1>1. Len(long) \in Nat /\ a \in Nat
  OBVIOUS
<1>2. CASE a <= Len(long) /\ long[a] = "low"
  <2>1. CharFrom(long, a) = a + 1 /\ (a + 1) - 1 = a /\ a \in 1 .. Len(long)
    BY <1>1, <1>2 DEF CharFrom
  <2>2. ~ PairsAt(long, a)
    BY <1>2 DEF PairsAt
  <2> QED BY <1>1, <1>2, <2>1, <2>2
<1>3. CASE ~ (a <= Len(long) /\ long[a] = "low")
  <2>1. CharFrom(long, a) = a
    BY <1>3 DEF CharFrom
  <2>2. ~ PairsAt(long, a - 1)
    <3> SUFFICES ASSUME PairsAt(long, a - 1) PROVE FALSE
      OBVIOUS
    <3>1. a - 1 \in 1 .. Len(long) - 1 /\ long[(a - 1) + 1] = "low"
      BY DEF PairsAt
    <3>2. (a - 1) + 1 = a
      BY <1>1
    <3> QED BY <1>1, <1>3, <3>1, <3>2
  <2>3. a # a + 1
    BY <1>1
  <2> QED BY <1>1, <1>3, <2>1, <2>2, <2>3
<1> QED BY <1>2, <1>3

LEMMA HalfCharacters == Seq(Half) \subseteq Seq(Character)
<1>1. ASSUME NEW s \in Seq(Half) PROVE s \in Seq(Character)
  <2>1. Half \subseteq Character
    BY DEF Character
  <2> QED BY <2>1
<1> QED BY <1>1

\* The buffer has the characters of the units from the a-th on, or has had no
\* room for them; a low surrogate that begins them is saved.
Holds(b, long, a) ==
  LET from == CharFrom(long, a)
      rest == D(long, from, Len(long))
  IN  /\ b \in BufferState /\ ~ b.panicked
      /\ b.saved = IF from = a THEN Nothing ELSE "low"
      /\ b.overflow = (Size(rest) > BufferLen)
      /\ ~ b.overflow => b.text = rest /\ b.free = BufferLen - Size(rest)

\* A piece of the units from the c-th up to that before the a-th.
IsNext(long, c, a) ==
  /\ long \in Seq(Unit) /\ IsText(long)
  /\ c \in 1 .. Len(long) /\ a \in c + 1 .. Len(long) + 1 /\ a - c <= PieceLen

\* What decode_utf16 is given.
LEMMA UnitsAre ==
  ASSUME NEW long, NEW c, NEW a, IsNext(long, c, a), NEW b, Holds(b, long, a)
  PROVE  Units(b, SubSeq(long, c, a - 1)) = SubSeq(long, c, CharFrom(long, a) - 1)
<1> DEFINE l == Len(long)
           from == CharFrom(long, a)
<1>1. long \in Seq(Unit) /\ l \in Nat /\ c \in 1 .. l /\ a \in c + 1 .. l + 1 /\ a \in 1 .. l + 1
  BY DEF IsNext
<1>2. from \in {a, a + 1} /\ (from = a + 1 <=> a \in 1 .. l /\ long[a] = "low")
  BY <1>1, CharFromIs
<1>3. b.saved = IF from = a THEN Nothing ELSE "low"
  BY DEF Holds
<1> HIDE DEF from
<1>4. CASE from = a
  BY <1>3, <1>4 DEF Units, from
<1>5. CASE from # a
  <2>1. from = a + 1 /\ a \in 1 .. l /\ long[a] = "low" /\ b.saved = "low" /\ from - 1 = a
    BY <1>1, <1>2, <1>3, <1>5
  <2>2. Units(b, SubSeq(long, c, a - 1)) = Append(SubSeq(long, c, a - 1), long[a])
    BY <2>1 DEF Units, Nothing
  <2>3. SubSeq(long, c, a) = Append(SubSeq(long, c, a - 1), long[a])
    <3> DEFINE s == SubSeq(long, c, a)
               t == SubSeq(long, c, a - 1)
    <3>1. c \in 1 .. l + 1 /\ a \in c - 1 .. l /\ a - 1 \in c - 1 .. l /\ long[a] \in Unit
      BY <1>1, <2>1
    <3>2. s \in Seq(Unit) /\ Len(s) = a - c + 1 /\ \A x \in 1 .. a - c + 1 : s[x] = long[c + x - 1]
      BY <1>1, <3>1, PartIs
    <3>3. t \in Seq(Unit) /\ Len(t) = (a - 1) - c + 1 /\ \A x \in 1 .. (a - 1) - c + 1 : t[x] = long[c + x - 1]
      <4> DEFINE n == a - 1
      <4>1. n \in c - 1 .. l
        BY <3>1
      <4> HIDE DEF n
      <4>2. /\ SubSeq(long, c, n) \in Seq(Unit) /\ Len(SubSeq(long, c, n)) = n - c + 1
            /\ \A x \in 1 .. n - c + 1 : SubSeq(long, c, n)[x] = long[c + x - 1]
        BY <1>1, <3>1, <4>1, PartIs
      <4> QED BY <4>2 DEF n
    <3> HIDE DEF s, t
    <3> DEFINE u == Append(t, long[a])
    <3>4. /\ u \in Seq(Unit) /\ Len(u) = Len(t) + 1 /\ u[Len(t) + 1] = long[a]
          /\ \A x \in 1 .. Len(t) : u[x] = t[x]
      BY <3>1, <3>3, AppendProperties
    <3> HIDE DEF u
    <3>5. (a - 1) - c + 1 = a - c /\ a - c \in Nat /\ c + (a - c + 1) - 1 = a
      BY <1>1
    <3>6. Len(s) = Len(u) /\ Len(s) = a - c + 1
      BY <1>1, <3>2, <3>3, <3>4, <3>5
    <3>7. ASSUME NEW x \in 1 .. Len(s) PROVE s[x] = u[x]
      <4>1. CASE x = a - c + 1
        <5>1. s[x] = long[c + x - 1]
          BY <3>2, <3>6
        <5>2. c + x - 1 = a /\ x = Len(t) + 1
          BY <1>1, <3>3, <3>5, <4>1
        <5> QED BY <3>4, <5>1, <5>2
      <4>2. CASE x # a - c + 1
        <5>1. x \in 1 .. a - c
          BY <1>1, <3>6, <4>2
        <5>2. s[x] = long[c + x - 1] /\ t[x] = long[c + x - 1]
          BY <3>2, <3>3, <3>5, <3>6, <5>1
        <5> QED BY <3>3, <3>4, <3>5, <5>1, <5>2
      <4> QED BY <4>1, <4>2
    <3>8. s = u
      BY <3>2, <3>4, <3>6, <3>7, SeqEqual
    <3> QED BY <3>8 DEF s, t, u
  <2> QED BY <2>1, <2>2, <2>3 DEF from
<1> QED BY <1>4, <1>5 DEF from

\* Which characters they are: those of the piece, with the low surrogate that
\* begins it apart.
LEMMA PieceChars ==
  ASSUME NEW long, NEW c, NEW a, IsNext(long, c, a)
  PROVE  LET i == CharFrom(long, c)
             j == CharFrom(long, a) - 1
             decoded == D(long, c, j)
         IN  /\ Chars(decoded) = D(long, i, j)
             /\ Saved(decoded) = IF i = c THEN Nothing ELSE "low"
             /\ i \in 1 .. Len(long) + 1 /\ j \in i - 1 .. Len(long) /\ ~ PairsAt(long, j)
             /\ Len(D(long, i, j)) <= PieceLen
<1> DEFINE l == Len(long)
           i == CharFrom(long, c)
           j == CharFrom(long, a) - 1
           decoded == D(long, c, j)
           chars == D(long, i, j)
<1>1. /\ long \in Seq(Unit) /\ IsText(long) /\ l \in Nat /\ c \in 1 .. l /\ a \in c + 1 .. l + 1
      /\ a - c <= PieceLen /\ a \in 1 .. l + 1 /\ c \in 1 .. l + 1
  BY DEF IsNext
<1>2. /\ i \in 1 .. l + 1 /\ i \in {c, c + 1} /\ ~ PairsAt(long, i - 1) /\ (i = c + 1 <=> long[c] = "low")
  BY <1>1, CharFromIs
<1>3. /\ j \in Int /\ j + 1 \in 1 .. l + 1 /\ j + 1 \in {a, a + 1} /\ ~ PairsAt(long, j)
      /\ (j = a <=> a \in 1 .. l /\ long[a] = "low")
  <2> DEFINE from == CharFrom(long, a)
  <2>1. /\ from \in 1 .. l + 1 /\ from \in {a, a + 1} /\ ~ PairsAt(long, from - 1)
        /\ (from = a + 1 <=> a \in 1 .. l /\ long[a] = "low")
    BY <1>1, CharFromIs
  <2> HIDE DEF from, l
  <2>2. from - 1 \in Int /\ (from - 1) + 1 = from /\ (from - 1 = a <=> from = a + 1)
    BY <1>1, <2>1
  <2> QED BY <2>1, <2>2 DEF from
<1> HIDE DEF i, j, l
<1>4. j \in i - 1 .. l /\ j \in c - 1 .. l /\ j \in c .. l /\ j \in Nat /\ i \in Nat
  BY <1>1, <1>2, <1>3
<1>5. chars \in Seq(Half) /\ ToSet(chars) \cap Surrogate = {}
  <2>1. chars \in Seq(Half)
    BY <1>1, <1>2, <1>4, PartIs DEF l
  <2>2. ToSet(chars) \cap Surrogate = {}
    BY <1>1, <1>2, <1>3, <1>4, PartIsText DEF l
  <2> QED BY <2>1, <2>2
<1> HIDE DEF chars, decoded
<1>6. Chars(decoded) = chars /\ Saved(decoded) = IF i = c THEN Nothing ELSE "low"
  <2>1. CASE i = c
    <3>1. decoded = chars
      BY <2>1 DEF decoded, chars
    <3> QED BY <1>5, <2>1, <3>1, CharsAre
  <2>2. CASE i # c
    <3>1. i = c + 1 /\ long[c] = "low"
      BY <1>2, <2>2
    <3>2. Parts(long, c, c, j)
      <4>1. ~ PairsAt(long, c)
        BY <3>1 DEF PairsAt
      <4>2. c \in 1 .. l + 1 /\ c \in c - 1 .. l
        BY <1>1
      <4> QED BY <1>1, <1>4, <4>1, <4>2 DEF Parts, l
    <3>3. D(long, c, j) = D(long, c, c) \o D(long, c + 1, j)
      BY <3>2, DecodeParts
    <3>4. D(long, c, c) = << "low" >>
      BY <1>1, <3>1, DecodeFew DEF l
    <3>5. decoded = << "low" >> \o chars
      BY <3>1, <3>3, <3>4 DEF decoded, chars
    <3> QED BY <1>5, <2>2, <3>5, CharsAre
  <2> QED BY <2>1, <2>2
<1>7. PieceLen \in Nat
  BY BufferAssumption
<1>8. Len(chars) <= PieceLen
  <2>1. Len(chars) \in Nat /\ Len(chars) <= j - i + 1
    <3>1. Len(chars) <= j - i + 1
      BY <1>1, <1>2, <1>4, PartIs DEF l, chars
    <3> QED BY <1>5, <3>1
  <2>2. CASE j # a
    <3>1. j + 1 = a
      BY <1>1, <1>3, <1>4, <2>2
    <3> QED BY <1>1, <1>2, <1>4, <1>7, <2>1, <3>1
  <2>3. CASE j = a
    <3>1. a \in 1 .. l /\ long[a] = "low"
      BY <1>3, <2>3
    <3>2. PairsAt(long, a - 1)
      BY <1>1, <3>1, TextUnits DEF l, Surrogate
    <3>3. long[a - 1] = "high" /\ a - 1 \in 1 .. l
      BY <1>1, <3>2 DEF PairsAt, l
    <3>4. i <= a - 1
      <4>1. i # a
        <5> SUFFICES ASSUME i = a PROVE FALSE
          OBVIOUS
        <5>1. i = c + 1 /\ c = a - 1
          BY <1>1, <1>2
        <5>2. long[c] = "low"
          BY <1>2, <5>1
        <5> QED BY <3>3, <5>1, <5>2
      <4> QED BY <1>1, <1>2, <1>4, <4>1
    <3> DEFINE m == a - 2
    <3>5. ~ PairsAt(long, m)
      <4> SUFFICES ASSUME PairsAt(long, m) PROVE FALSE
        OBVIOUS
      <4>1. long[m + 1] = "low" /\ m + 1 = a - 1
        BY <1>1 DEF PairsAt
      <4> QED BY <3>3, <4>1
    <3>6. m \in i - 1 .. l /\ j \in m .. l /\ m + 1 = a - 1 /\ (a - 1) + 1 = a /\ m \in Nat
      BY <1>1, <1>2, <1>4, <2>3, <3>1, <3>4
    <3> HIDE DEF m
    <3>7. Parts(long, i, m, j)
      BY <1>1, <1>2, <3>5, <3>6 DEF Parts, l
    <3>8. chars = D(long, i, m) \o D(long, m + 1, j)
      BY <3>7, DecodeParts DEF chars
    <3>9. D(long, m + 1, j) = << Pair >>
      <4> DEFINE n == a - 1
      <4>1. n \in 1 .. l /\ PairsAt(long, n) /\ n + 1 = a /\ m + 1 = n
        BY <3>2, <3>3, <3>6
      <4> HIDE DEF n
      <4>2. D(long, n, n + 1) = << Pair >>
        BY <1>1, <4>1, DecodeFew DEF l
      <4> QED BY <2>3, <4>1, <4>2
    <3>10. D(long, i, m) \in Seq(Half) /\ Len(D(long, i, m)) <= m - i + 1
      BY <1>1, <1>2, <3>6, PartIs DEF l
    <3>11. << Pair >> \in Seq(Half) /\ Len(<< Pair >>) = 1
      BY DEF Half
    <3>12. Len(chars) = Len(D(long, i, m)) + 1
      <4> DEFINE x == D(long, i, m)
                 y == << Pair >>
      <4> HIDE DEF x, y
      <4>1. Len(x \o y) = Len(x) + Len(y)
        BY <3>10, <3>11, ConcatProperties DEF x, y
      <4> QED BY <3>8, <3>9, <3>11, <4>1 DEF x, y
    <3>13. Len(D(long, i, m)) \in Nat
      BY <3>10
    <3> QED BY <1>1, <1>2, <1>4, <1>7, <3>6, <3>10, <3>12, <3>13
  <2> QED BY <2>2, <2>3
<1> QED BY <1>2, <1>3, <1>4, <1>6, <1>8 DEF chars, decoded, i, j, l

\* One piece.
LEMMA Pushed ==
  ASSUME NEW long, NEW c, NEW a, IsNext(long, c, a), NEW b, Holds(b, long, a)
  PROVE  Holds(Push(b, SubSeq(long, c, a - 1)), long, c)
<1> DEFINE l == Len(long)
           i == CharFrom(long, c)
           from == CharFrom(long, a)
           j == from - 1
           piece == SubSeq(long, c, a - 1)
           chars == D(long, i, j)
           rest == D(long, from, l)
           whole == D(long, i, l)
           to == Push(b, piece)
<1>1. long \in Seq(Unit) /\ l \in Nat /\ c \in 1 .. l /\ a \in c + 1 .. l + 1 /\ a \in 1 .. l + 1
  BY DEF IsNext
<1>2. /\ b \in BufferState /\ ~ b.panicked
      /\ b.overflow = (Size(rest) > BufferLen)
      /\ ~ b.overflow => b.text = rest /\ b.free = BufferLen - Size(rest)
  BY DEF Holds
<1>3. Units(b, piece) = SubSeq(long, c, j)
  BY UnitsAre
<1>4. /\ Chars(D(long, c, j)) = chars
      /\ Saved(D(long, c, j)) = IF i = c THEN Nothing ELSE "low"
      /\ i \in 1 .. l + 1 /\ j \in i - 1 .. l /\ ~ PairsAt(long, j) /\ Len(chars) <= PieceLen
  BY PieceChars
<1>5. piece \in Seq(Unit)
  <2> DEFINE n == a - 1
  <2>1. n \in c - 1 .. l /\ c \in 1 .. l + 1
    BY <1>1
  <2> HIDE DEF n
  <2>2. SubSeq(long, c, n) \in Seq(Unit)
    BY <1>1, <2>1, PartIs
  <2> QED BY <2>2 DEF n
<1>6. from \in 1 .. l + 1 /\ from \in Nat
  BY <1>1, CharFromIs
<1>7. chars \in Seq(Character) /\ rest \in Seq(Character) /\ whole = chars \o rest
  <2> HIDE DEF i, from, l
  <2>1. j + 1 = from /\ l \in j .. l /\ l \in from - 1 .. l /\ i \in Nat /\ l \in i - 1 .. l
    BY <1>1, <1>4, <1>6
  <2>2. Parts(long, i, j, l)
    BY <1>1, <1>4, <2>1 DEF Parts, l
  <2>3. D(long, i, l) = D(long, i, j) \o D(long, j + 1, l)
    <3> HIDE DEF j
    <3> QED BY <2>2, DecodeParts
  <2>4. D(long, i, j) \in Seq(Half)
    <3> HIDE DEF j
    <3> QED BY <1>1, <1>4, PartIs DEF l
  <2>5. D(long, from, l) \in Seq(Half)
    BY <1>1, <1>6, <2>1, PartIs DEF l
  <2>6. chars \in Seq(Character) /\ rest \in Seq(Character)
    BY <2>4, <2>5, HalfCharacters
  <2> QED BY <2>1, <2>3, <2>6
<1> HIDE DEF chars, rest, whole, to, i, from, j, l, piece
<1>8. /\ to \in BufferState
      /\ to.saved = IF i = c THEN Nothing ELSE "low"
      /\ to.panicked = (b.panicked \/ Len(chars) > PieceLen)
      /\ to.overflow = (b.overflow \/ Size(chars) > b.free)
      /\ Size(chars) <= b.free => to.text = chars \o b.text /\ to.free = b.free - Size(chars)
  <2> DEFINE decoded == DecodeUtf16(Units(b, piece))
             got == Chars(decoded)
  <2>1. decoded = D(long, c, j)
    BY <1>3 DEF D
  <2>2. got = chars /\ Saved(decoded) = IF i = c THEN Nothing ELSE "low"
    BY <1>4, <2>1
  <2>3. /\ to \in BufferState
        /\ to.saved = Saved(decoded)
        /\ to.panicked = (b.panicked \/ Len(got) > PieceLen)
        /\ to.overflow = (b.overflow \/ Size(got) > b.free)
        /\ Size(got) <= b.free => to.text = got \o b.text /\ to.free = b.free - Size(got)
    BY <1>2, <1>5, PushIs DEF to
  <2> HIDE DEF decoded, got
  <2> QED BY <2>2, <2>3
<1>9. ~ to.panicked
  <2>1. PieceLen \in Nat /\ Len(chars) \in Nat
    BY <1>7, BufferAssumption
  <2>2. ~ (Len(chars) > PieceLen)
    BY <1>4, <2>1
  <2> QED BY <1>2, <1>8, <2>2
<1>10. /\ Size(chars) \in Nat /\ Size(rest) \in Nat /\ BufferLen \in Nat
       /\ Size(whole) = Size(chars) + Size(rest)
  BY <1>7, SizeIs, SizeConcat, BufferAssumption
<1>11. CASE b.overflow
  <2>1. to.overflow /\ Size(rest) > BufferLen
    BY <1>2, <1>8, <1>11
  <2>2. Size(whole) > BufferLen
    BY <1>10, <2>1
  <2>3. to.overflow = (Size(whole) > BufferLen)
    BY <1>8, <1>11, <2>2
  <2> QED BY <1>8, <1>9, <2>1, <2>3 DEF Holds, to, whole, i, l, piece
<1>12. CASE ~ b.overflow
  <2>1. b.text = rest /\ b.free = BufferLen - Size(rest)
    BY <1>2, <1>12
  <2>2. to.overflow = (Size(chars) > b.free)
    BY <1>8, <1>12
  <2>3. (Size(chars) > b.free) = (Size(whole) > BufferLen)
    BY <1>10, <2>1
  <2>4. to.overflow = (Size(whole) > BufferLen)
    BY <2>2, <2>3
  <2>5. ASSUME ~ to.overflow PROVE to.text = whole /\ to.free = BufferLen - Size(whole)
    <3>0. ~ (Size(chars) > b.free)
      BY <2>2, <2>5
    <3>1. Size(chars) <= b.free
      BY <1>10, <2>1, <3>0
    <3>2. to.text = chars \o rest /\ to.free = b.free - Size(chars)
      BY <1>8, <2>1, <3>1
    <3> QED BY <1>7, <1>10, <2>1, <3>2
  <2> QED BY <1>8, <1>9, <2>4, <2>5 DEF Holds, to, whole, i, l, piece
<1> QED BY <1>11, <1>12 DEF to, piece

\* Piece by piece, from the last one.
Collects(f, long) ==
  LET n == Pieces(long) IN
  /\ f \in [0 .. n -> BufferState] /\ f[0] = Clear
  /\ \A k \in 1 .. n : f[k] = Push(f[k - 1], Chunk(long, n + 1 - k))
  /\ Collected(long) = f[n]

LEMMA CollectsExist ==
  ASSUME NEW long \in Seq(Unit)
  PROVE  \E f : Collects(f, long)
<1> DEFINE n == Pieces(long)
           V == BufferState
           step == [k \in 1 .. n |-> [b \in V |-> Push(b, Chunk(long, n + 1 - k))]]
           P(f) == f = [k \in 0 .. n |-> IF k = 0 THEN Clear ELSE Push(f[k - 1], Chunk(long, n + 1 - k))]
           f == CHOOSE g : P(g)
<1>1. n \in Nat /\ Clear \in V
  BY ChunksAre, ClearIs
<1>2. ASSUME NEW k \in 1 .. n, NEW b \in V PROVE Push(b, Chunk(long, n + 1 - k)) \in V
  <2>1. n + 1 - k \in 1 .. n
    BY <1>1
  <2>2. Chunk(long, n + 1 - k) \in Seq(Unit)
    BY <2>1, PiecesAre
  <2> QED BY <2>2, PushIs
<1>3. step \in [1 .. n -> [V -> V]]
  BY <1>2
<1>4. PICK h \in [0 .. n -> V] : StepsFrom(h, n, Clear, step)
  <2> HIDE DEF n, V, step
  <2> QED BY <1>1, <1>3, StepsExist
<1>5. ASSUME NEW k \in 1 .. n PROVE h[k] = Push(h[k - 1], Chunk(long, n + 1 - k))
  <2>1. h[k - 1] \in V
    <3> HIDE DEF n, V
    <3>1. k - 1 \in 0 .. n
      BY <1>1
    <3> QED BY <1>4, <3>1
  <2>2. h[k] = step[k][h[k - 1]]
    BY <1>4 DEF StepsFrom
  <2> QED BY <2>1, <2>2
<1>6. h[0] = Clear
  BY <1>4 DEF StepsFrom
<1>7. P(h)
  <2>1. \A k \in 0 .. n : h[k] = IF k = 0 THEN Clear ELSE Push(h[k - 1], Chunk(long, n + 1 - k))
    BY <1>1, <1>5, <1>6
  <2> HIDE DEF n
  <2> QED BY <1>4, <2>1
<1>8. P(f)
  <2> HIDE DEF P
  <2> QED BY <1>7
<1>9. f[0] = Clear /\ \A k \in 1 .. n : f[k] = Push(f[k - 1], Chunk(long, n + 1 - k))
  <2> HIDE DEF f, n
  <2> QED BY <1>1, <1>8
<1>10. f \in [0 .. n -> V]
  <2> DEFINE S == {k \in 0 .. n : f[k] \in V}
  <2>1. 0 \in S
    <3> HIDE DEF f, V
    <3> QED BY <1>1, <1>9
  <2>2. ASSUME NEW k \in 1 .. n, k - 1 \in S PROVE k \in S
    <3> HIDE DEF f, V
    <3>1. f[k - 1] \in V /\ f[k] = Push(f[k - 1], Chunk(long, n + 1 - k))
      BY <1>9, <2>2
    <3>2. f[k] \in V
      BY <1>2, <3>1
    <3> QED BY <1>1, <3>2
  <2> HIDE DEF S, n
  <2>3. 0 .. n \subseteq S
    BY <1>1, <2>1, <2>2, BoundedInduction
  <2>4. \A k \in 0 .. n : f[k] \in V
    BY <2>3 DEF S
  <2> HIDE DEF P, f
  <2>5. f = [k \in 0 .. n |-> IF k = 0 THEN Clear ELSE Push(f[k - 1], Chunk(long, n + 1 - k))]
    BY <1>8 DEF P
  <2> QED BY <2>4, <2>5
<1>11. Collected(long) = f[n]
  BY DEF Collected
<1> QED BY <1>9, <1>10, <1>11 DEF Collects

\* Where the k last pieces of a name begin.
From(long, k) == IF k = 0 THEN Len(long) + 1 ELSE (Pieces(long) - k) * PieceLen + 1

LEMMA FromIs ==
  ASSUME NEW long \in Seq(Unit), IsText(long), NEW k \in 1 .. Pieces(long)
  PROVE  /\ IsNext(long, From(long, k), From(long, k - 1))
         /\ Chunk(long, Pieces(long) + 1 - k) = SubSeq(long, From(long, k), From(long, k - 1) - 1)
<1> DEFINE n == Pieces(long)
           l == Len(long)
           w == PieceLen
           j == n + 1 - k
           c == (n - k) * w
           e == (n - (k - 1)) * w
<1>1. n \in Nat /\ l \in Nat /\ w \in Nat /\ k \in 1 .. n
  <2>1. n \in Nat
    BY ChunksAre
  <2> QED BY <2>1, BufferAssumption
<1>2. j \in 1 .. n /\ j - 1 = n - k /\ j = n - (k - 1) /\ n - k \in Nat /\ (j = n <=> k - 1 = 0)
  <2> HIDE DEF n
  <2> QED BY <1>1
<1>3. /\ c \in Nat /\ c < l /\ l <= n * w
      /\ Chunk(long, j) = SubSeq(long, c + 1, IF j = n THEN l ELSE e)
      /\ j # n => e \in Nat /\ e < l
  <2>1. /\ (j - 1) * w \in Nat /\ (j - 1) * w < l
        /\ Chunk(long, j) = SubSeq(long, (j - 1) * w + 1, IF j = n THEN l ELSE j * w)
    BY <1>2, ChunksAre
  <2>2. j # n => j \in 1 .. n - 1
    <3> HIDE DEF n
    <3> QED BY <1>1, <1>2
  <2>3. j # n => j * w \in Nat /\ j * w < l
    BY <2>2, ChunksAre
  <2>4. l <= n * w
    BY ChunksAre
  <2> HIDE DEF j, n, l
  <2> QED BY <1>2, <2>1, <2>3, <2>4
<1>4. e = c + w
  <2> DEFINE m == n - k
  <2>1. m \in Nat /\ n - (k - 1) = m + 1
    <3> HIDE DEF n
    <3> QED BY <1>1, <1>2
  <2> HIDE DEF m
  <2>2. (m + 1) * w = m * w + w
    BY <1>1, <2>1, SMTT(30)
  <2> QED BY <2>1, <2>2 DEF m
<1>5. From(long, k) = c + 1
  BY <1>1 DEF From
<1>6. CASE k = 1
  <2>1. From(long, k - 1) = l + 1 /\ j = n
    BY <1>2, <1>6 DEF From
  <2>2. e = n * w
    <3>1. n - (k - 1) = n
      <4> HIDE DEF n
      <4> QED BY <1>1, <1>6
    <3> QED BY <3>1
  <2>3. Chunk(long, j) = SubSeq(long, c + 1, l) /\ (l + 1) - 1 = l
    <3> HIDE DEF j, c, l, n
    <3> QED BY <1>1, <1>3, <2>1
  <2>4. l - c <= w
    <3> DEFINE nw == n * w
    <3>1. e = nw /\ l <= nw
      BY <1>3, <2>2
    <3> HIDE DEF nw, e, c, l
    <3> QED BY <1>1, <1>3, <1>4, <3>1
  <2>5. IsNext(long, c + 1, l + 1)
    <3>1. c + 1 \in 1 .. l /\ l + 1 \in (c + 1) + 1 .. l + 1 /\ (l + 1) - (c + 1) <= w
      <4> HIDE DEF c, l, w
      <4> QED BY <1>1, <1>3, <2>4
    <3> QED BY <3>1 DEF IsNext
  <2> QED BY <1>5, <2>1, <2>3, <2>5
<1>7. CASE k # 1
  <2>1. From(long, k - 1) = e + 1 /\ j # n
    <3>1. k - 1 # 0 /\ j # n
      <4> HIDE DEF n
      <4> QED BY <1>1, <1>2, <1>7
    <3> QED BY <3>1 DEF From
  <2>2. Chunk(long, j) = SubSeq(long, c + 1, e) /\ e \in Nat /\ e < l /\ (e + 1) - 1 = e
    <3> HIDE DEF j, c, e, l, n
    <3> QED BY <1>3, <2>1
  <2>3. IsNext(long, c + 1, e + 1)
    <3>1. w > 0
      BY BufferAssumption
    <3>2. c + 1 \in 1 .. l /\ e + 1 \in (c + 1) + 1 .. l + 1 /\ (e + 1) - (c + 1) <= w
      <4> HIDE DEF c, e, l, w
      <4> QED BY <1>1, <1>3, <1>4, <2>2, <3>1
    <3> QED BY <3>2 DEF IsNext
  <2> QED BY <1>5, <2>1, <2>2, <2>3
<1> QED BY <1>6, <1>7

\* The pieces of a name, wherever it is divided, give its text, or nothing if
\* that is too long for the buffer.
LEMMA CollectedIs ==
  ASSUME NEW long \in Seq(Unit), IsText(long)
  PROVE  AsStr(Collected(long)) = Shown(long) /\ ~ Collected(long).panicked
<1> DEFINE n == Pieces(long)
           l == Len(long)
<1>1. PICK f : Collects(f, long)
  BY CollectsExist
<1>2. n \in Nat /\ l \in Nat /\ (n = 0 <=> long = << >>)
  BY ChunksAre
<1> DEFINE S == {k \in 0 .. n : Holds(f[k], long, From(long, k))}
<1>3. 0 \in S
  <2> DEFINE a == l + 1
             rest == D(long, a, l)
  <2>1. CharFrom(long, a) = a /\ From(long, 0) = a
    BY <1>2 DEF CharFrom, From
  <2>2. rest = << >>
    <3>1. SubSeq(long, a, l) = << >>
      BY <1>2, SubSeqEmpty
    <3> QED BY <3>1, DecodeNothing DEF D
  <2>3. Size(rest) = 0 /\ BufferLen \in Nat
    BY <2>2, SizeIs, BufferAssumption
  <2>4. f[0] = Clear
    BY <1>1 DEF Collects
  <2> HIDE DEF rest, a
  <2>5. Holds(Clear, long, a)
    <3>1. D(long, a, Len(long)) = rest
      BY DEF rest
    <3>2. Clear.saved = Nothing /\ ~ Clear.panicked /\ ~ Clear.overflow /\ Clear.text = << >>
          /\ Clear.free = BufferLen
      BY DEF Clear
    <3>3. ~ (Size(rest) > BufferLen) /\ BufferLen - Size(rest) = BufferLen
      BY <2>3
    <3>4. Clear.overflow = (Size(rest) > BufferLen)
      <4>1. Clear.overflow = FALSE
        BY DEF Clear
      <4>2. (Size(rest) > BufferLen) = FALSE
        BY <3>3
      <4> QED BY <4>1, <4>2
    <3> QED BY <2>1, <2>2, <3>1, <3>2, <3>3, <3>4, ClearIs DEF Holds
  <2> QED BY <1>2, <2>1, <2>4, <2>5
<1>4. ASSUME NEW k \in 1 .. n, k - 1 \in S PROVE k \in S
  <2>1. Holds(f[k - 1], long, From(long, k - 1))
    BY <1>4
  <2>2. f[k] = Push(f[k - 1], Chunk(long, n + 1 - k))
    BY <1>1 DEF Collects
  <2>3. /\ IsNext(long, From(long, k), From(long, k - 1))
        /\ Chunk(long, n + 1 - k) = SubSeq(long, From(long, k), From(long, k - 1) - 1)
    BY FromIs
  <2>4. Holds(f[k], long, From(long, k))
    BY <2>1, <2>2, <2>3, Pushed
  <2> QED BY <1>2, <2>4
<1>5. Holds(f[n], long, From(long, n))
  <2> HIDE DEF S, n
  <2>1. 0 .. n \subseteq S
    BY <1>2, <1>3, <1>4, BoundedInduction
  <2> QED BY <1>2, <2>1 DEF S
<1>6. From(long, n) = 1
  <2>1. CASE n = 0
    BY <1>2, <2>1 DEF From
  <2>2. CASE n # 0
    <3>1. (n - n) * PieceLen + 1 = 1
      <4> HIDE DEF n
      <4> QED BY <1>2, BufferAssumption
    <3> QED BY <2>2, <3>1 DEF From
  <2> QED BY <2>1, <2>2
<1>7. CharFrom(long, 1) = 1
  <2> SUFFICES ASSUME l >= 1, long[1] = "low" PROVE FALSE
    BY DEF CharFrom
  <2>1. 1 \in 1 .. l /\ long[1] \in Surrogate
    BY <1>2 DEF Surrogate
  <2>2. PairsAt(long, 1 - 1)
    BY <2>1, TextUnits
  <2> QED BY <2>2 DEF PairsAt
<1>8. D(long, 1, l) = Text(long)
  <2>1. SubSeq(long, 1, l) = long
    BY SubSeqFull
  <2> QED BY <2>1 DEF D, Text
<1> DEFINE b == Collected(long)
           text == Text(long)
<1>9. b = f[n]
  BY <1>1 DEF Collects
<1>10. /\ b.overflow = (Size(text) > BufferLen) /\ ~ b.panicked
       /\ ~ b.overflow => b.text = text
  BY <1>5, <1>6, <1>7, <1>8, <1>9 DEF Holds
<1>11. Size(text) \in Nat /\ BufferLen \in Nat
  <2>1. text \in Seq(Half)
    BY DecodeType DEF Text
  <2> QED BY <2>1, HalfCharacters, SizeIs, BufferAssumption
<1> HIDE DEF b, text
<1>12. Shown(long) = IF Size(text) <= BufferLen THEN text ELSE << >>
  BY DEF Shown, Size, text
<1>13. AsStr(b) = IF b.overflow THEN << >> ELSE b.text
  BY DEF AsStr
<1>14. CASE b.overflow
  <2>1. ~ (Size(text) <= BufferLen)
    <3>1. Size(text) > BufferLen
      BY <1>10, <1>14
    <3> QED BY <1>11, <3>1
  <2> QED BY <1>10, <1>12, <1>13, <1>14, <2>1 DEF b
<1>15. CASE ~ b.overflow
  <2>1. Size(text) <= BufferLen
    <3>1. ~ (Size(text) > BufferLen)
      BY <1>10, <1>15
    <3> QED BY <1>11, <3>1
  <2> QED BY <1>10, <1>12, <1>13, <1>15, <2>1 DEF b
<1> QED BY <1>14, <1>15

-----------------------------------------------------------------------------
(* The listing with long names *)

ReadState ==
  [at : {"waiting", "remaining", "complete"}, csum : Nat, next : Nat, buffer : BufferState]

LEMMA AfterIs ==
  ASSUME NEW csum \in Nat, NEW next \in Nat, NEW buffer \in BufferState
  PROVE  After(csum, next, buffer) \in ReadState
BY DEF After, ReadState

LEMMA WaitingIs == Waiting \in ReadState
BY ClearIs DEF Waiting, ReadState

\* What a piece does to the state: it begins a name, goes on with it, or ends it.
LEMMA UpdateIs ==
  ASSUME NEW s \in ReadState, NEW e \in Slot, IsPiece(e)
  PROVE  /\ Update(s, e) \in ReadState
         /\ \/ Update(s, e) = Waiting
            \/ Update(s, e).csum = e.csum
            \/ s.at = "remaining" /\ Update(s, e).csum = s.csum
<1>1. /\ e.start \in BOOLEAN /\ e.seq \in Nat /\ e.csum \in Nat /\ e.text \in Seq(Unit)
      /\ s.csum \in Nat /\ s.next \in Nat /\ s.buffer \in BufferState
  BY PieceIs DEF ReadState
<1>2. Push(Clear, e.text) \in BufferState /\ Push(s.buffer, e.text) \in BufferState
  BY <1>1, ClearIs, PushIs
<1>3. CASE e.start /\ e.seq \in 1 .. SeqLimit - 1
  <2>1. Update(s, e) = After(e.csum, e.seq - 1, Push(Clear, e.text))
    BY <1>3 DEF Update
  <2>2. e.seq - 1 \in Nat
    BY <1>3
  <2>3. After(e.csum, e.seq - 1, Push(Clear, e.text)).csum = e.csum
    BY DEF After
  <2> QED BY <1>1, <1>2, <2>1, <2>2, <2>3, AfterIs
<1>4. CASE ~ e.start /\ s.at = "remaining" /\ s.next = e.seq /\ e.seq \in 1 .. SeqLimit - 2
  <2>1. Update(s, e) = After(s.csum, e.seq - 1, Push(s.buffer, e.text))
    BY <1>4 DEF Update
  <2>2. e.seq - 1 \in Nat
    BY <1>4
  <2>3. After(s.csum, e.seq - 1, Push(s.buffer, e.text)).csum = s.csum
    BY DEF After
  <2> QED BY <1>1, <1>2, <1>4, <2>1, <2>2, <2>3, AfterIs
<1>5. CASE /\ ~ (e.start /\ e.seq \in 1 .. SeqLimit - 1)
           /\ ~ (~ e.start /\ s.at = "remaining" /\ s.next = e.seq /\ e.seq \in 1 .. SeqLimit - 2)
  <2>1. Update(s, e) = Waiting
    BY <1>5 DEF Update
  <2> QED BY <2>1, WaitingIs
<1> QED BY <1>3, <1>4, <1>5

\* The states of a listing, slot by slot.
Reads(f, v, p) ==
  /\ f \in [0 .. p -> ReadState] /\ f[0] = Waiting
  /\ \A q \in 1 .. p : f[q] = IF IsPiece(v[q]) THEN Update(f[q - 1], v[q]) ELSE f[q - 1]
  /\ Collecting(v, p) = f[p - 1]

LEMMA ReadsExist ==
  ASSUME NEW v \in [Slots -> Slot], NEW p \in Slots
  PROVE  \E f : Reads(f, v, p)
<1> DEFINE V == ReadState
           Then(s, q) == IF IsPiece(v[q]) THEN Update(s, v[q]) ELSE s
           step == [q \in 1 .. p |-> [s \in V |-> Then(s, q)]]
           P(f) == f = [q \in 0 .. p |-> IF q = 0 THEN Waiting
                                        ELSE IF IsPiece(v[q]) THEN Update(f[q - 1], v[q])
                                        ELSE f[q - 1]]
           f == CHOOSE g : P(g)
<1>1. p \in Nat /\ 1 .. p \subseteq Slots /\ Waiting \in V
  BY WaitingIs, SizeFacts, ClusterFacts DEF Slots
<1>2. ASSUME NEW q \in 1 .. p, NEW s \in V PROVE Then(s, q) \in V
  BY <1>1, UpdateIs
<1>3. step \in [1 .. p -> [V -> V]]
  BY <1>2
<1>4. PICK h \in [0 .. p -> V] : StepsFrom(h, p, Waiting, step)
  <2> HIDE DEF V, step
  <2> QED BY <1>1, <1>3, StepsExist
<1>5. ASSUME NEW q \in 1 .. p PROVE h[q] = Then(h[q - 1], q)
  <2>1. h[q - 1] \in V
    <3> HIDE DEF V
    <3>1. q - 1 \in 0 .. p
      BY <1>1
    <3> QED BY <1>4, <3>1
  <2>2. h[q] = step[q][h[q - 1]]
    BY <1>4 DEF StepsFrom
  <2> QED BY <2>1, <2>2
<1>6. h[0] = Waiting
  BY <1>4 DEF StepsFrom
<1>7. P(h)
  <2>1. ASSUME NEW q \in 0 .. p
        PROVE  h[q] = IF q = 0 THEN Waiting
                      ELSE IF IsPiece(v[q]) THEN Update(h[q - 1], v[q])
                      ELSE h[q - 1]
    <3>1. CASE q = 0
      BY <1>6, <3>1
    <3>2. CASE q # 0
      <4>1. q \in 1 .. p
        BY <1>1, <3>2
      <4>2. h[q] = Then(h[q - 1], q)
        BY <1>5, <4>1
      <4> QED BY <3>2, <4>2
    <3> QED BY <3>1, <3>2
  <2> QED BY <1>4, <2>1
<1>8. P(f)
  <2> HIDE DEF P
  <2> QED BY <1>7
<1>9. f[0] = Waiting /\ \A q \in 1 .. p : f[q] = Then(f[q - 1], q)
  <2> HIDE DEF f
  <2>1. f[0] = Waiting
    BY <1>1, <1>8
  <2>2. ASSUME NEW q \in 1 .. p PROVE f[q] = Then(f[q - 1], q)
    <3>1. q \in 0 .. p /\ q # 0
      BY <1>1
    <3> QED BY <1>8, <3>1
  <2> QED BY <2>1, <2>2
<1>10. f \in [0 .. p -> V]
  <2> DEFINE S == {q \in 0 .. p : f[q] \in V}
  <2>1. 0 \in S
    <3> HIDE DEF f, V
    <3> QED BY <1>1, <1>9
  <2>2. ASSUME NEW q \in 1 .. p, q - 1 \in S PROVE q \in S
    <3> HIDE DEF f, V, Then
    <3>1. f[q - 1] \in V /\ f[q] = Then(f[q - 1], q)
      BY <1>9, <2>2
    <3>2. f[q] \in V
      BY <1>2, <3>1
    <3> QED BY <1>1, <3>2
  <2> HIDE DEF S
  <2>3. 0 .. p \subseteq S
    BY <1>1, <2>1, <2>2, BoundedInduction
  <2>4. \A q \in 0 .. p : f[q] \in V
    BY <2>3 DEF S
  <2> HIDE DEF P, f
  <2>5. f = [q \in 0 .. p |-> IF q = 0 THEN Waiting
                              ELSE IF IsPiece(v[q]) THEN Update(f[q - 1], v[q])
                              ELSE f[q - 1]]
    BY <1>8 DEF P
  <2> QED BY <2>4, <2>5
<1>11. Collecting(v, p) = f[p - 1]
  BY DEF Collecting
<1> QED BY <1>9, <1>10, <1>11 DEF Reads

\* A name that is being read has pieces with its checksum.
LEMMA ReadSeen ==
  ASSUME NEW v \in [Slots -> Slot], NEW p \in Slots, NEW f, Reads(f, v, p), NEW q \in 0 .. p,
         f[q].at # "waiting"
  PROVE  \E x \in 1 .. q : IsPiece(v[x]) /\ v[x].csum = f[q].csum
<1> DEFINE Met(y) == \E x \in 1 .. y : IsPiece(v[x]) /\ v[x].csum = f[y].csum
           S == {y \in 0 .. p : f[y].at # "waiting" => Met(y)}
<1>1. p \in Nat /\ 1 .. p \subseteq Slots
  BY SizeFacts, ClusterFacts DEF Slots
<1>2. /\ f \in [0 .. p -> ReadState] /\ f[0] = Waiting
      /\ \A y \in 1 .. p : f[y] = IF IsPiece(v[y]) THEN Update(f[y - 1], v[y]) ELSE f[y - 1]
  BY DEF Reads
<1>3. 0 \in S
  BY <1>1, <1>2 DEF Waiting
<1>4. ASSUME NEW y \in 1 .. p, y - 1 \in S PROVE y \in S
  <2> SUFFICES ASSUME f[y].at # "waiting" PROVE Met(y)
    BY <1>1
  <2>1. f[y - 1].at # "waiting" => Met(y - 1)
    BY <1>4
  <2>2. y - 1 \in 0 .. p /\ v[y] \in Slot /\ y \in 1 .. y
    BY <1>1
  <2>3. f[y - 1] \in ReadState
    BY <1>2, <2>2
  <2>4. 1 .. y - 1 \subseteq 1 .. y
    BY <1>1
  <2>5. CASE f[y].csum = f[y - 1].csum /\ f[y - 1].at # "waiting"
    BY <2>1, <2>4, <2>5
  <2>6. CASE IsPiece(v[y]) /\ f[y].csum = v[y].csum
    BY <2>2, <2>6
  <2>7. CASE IsPiece(v[y])
    <3>1. f[y] = Update(f[y - 1], v[y])
      BY <1>2, <2>7
    <3>2. f[y] # Waiting
      BY DEF Waiting
    <3>3. \/ Update(f[y - 1], v[y]) = Waiting
          \/ Update(f[y - 1], v[y]).csum = v[y].csum
          \/ f[y - 1].at = "remaining" /\ Update(f[y - 1], v[y]).csum = f[y - 1].csum
      BY <2>2, <2>3, <2>7, UpdateIs
    <3>4. \/ f[y].csum = v[y].csum
          \/ f[y - 1].at = "remaining" /\ f[y].csum = f[y - 1].csum
      BY <3>1, <3>2, <3>3
    <3>5. f[y - 1].at = "remaining" => f[y - 1].at # "waiting"
      OBVIOUS
    <3> QED BY <2>5, <2>6, <2>7, <3>4, <3>5
  <2>8. CASE ~ IsPiece(v[y])
    <3>1. f[y] = f[y - 1]
      BY <1>2, <2>8
    <3> QED BY <2>5, <3>1
  <2> QED BY <2>7, <2>8
<1> HIDE DEF S
<1>5. 0 .. p \subseteq S
  BY <1>1, <1>3, <1>4, BoundedInduction
<1>6. q \in S
  BY <1>5
<1> QED BY <1>6 DEF S

\* The pieces of an entry's own name are read one after the other.
LEMMA ReadOwn ==
  ASSUME NEW v \in [Slots -> Slot], NEW p \in Slots, NEW f, Reads(f, v, p),
         NEW own, own = OwnName(v, p), own \in Longs, IsNamed(v, p, own), Pieces(own) < SeqLimit,
         NEW g, Collects(g, own)
  PROVE  f[p - 1] = After(Csum[v[p].name], 0, Collected(own))
<1> DEFINE k == Pieces(own)
           c == Csum[v[p].name]
           at(i) == p - k + i - 1
           S == {i \in 0 .. k : i # 0 => f[at(i)] = After(c, k - i, g[i])}
<1>1. p \in Nat /\ 1 .. p \subseteq Slots
  BY SizeFacts, ClusterFacts DEF Slots
<1>2. own \in Seq(Unit) /\ own # << >>
  BY SizeAssumption DEF Longs
<1>3. k \in Nat /\ k # 0 /\ SeqLimit \in Nat /\ k < SeqLimit
  BY <1>2, ChunksAre, SizeAssumption
<1>4. p > k
  BY DEF IsNamed
<1>5. /\ g[0] = Clear /\ \A i \in 1 .. k : g[i] = Push(g[i - 1], Chunk(own, k + 1 - i))
      /\ Collected(own) = g[k]
  BY DEF Collects
<1>6. ASSUME NEW i \in 1 .. k
      PROVE  /\ at(i) \in 1 .. p /\ at(i) - 1 = p - k + (i - 1) - 1
             /\ v[at(i)] = Piece(i = 1, k - i + 1, c, Chunk(own, k + 1 - i))
  <2> DEFINE q == at(i)
  <2> HIDE DEF k
  <2>1. q \in 1 .. p /\ q \in p - k .. p - 1 /\ p - q = k - i + 1 /\ k - i + 1 = k + 1 - i /\ q - 1 = p - k + (i - 1) - 1
        /\ (k - i + 1 = k <=> i = 1)
    BY <1>1, <1>3, <1>4
  <2> HIDE DEF q
  <2>2. q \in OwnPieces(v, p)
    BY <2>1 DEF OwnPieces, k
  <2>3. v[q] = Piece(p - q = Pieces(own), p - q, c, Chunk(own, p - q))
    BY <2>2, OwnPiecesAre
  <2>4. (p - q = k) = (i = 1)
    BY <2>1
  <2> QED BY <2>1, <2>3, <2>4 DEF q, k
<1> HIDE DEF k, c
<1>7. ASSUME NEW i \in 1 .. k, i - 1 \in S PROVE i \in S
  <2> DEFINE e == v[at(i)]
             s == f[at(i) - 1]
  <2>1. f[at(i)] = IF IsPiece(e) THEN Update(s, e) ELSE s
    BY <1>6 DEF Reads
  <2>2. /\ IsPiece(e) /\ e.start = (i = 1) /\ e.seq = k - i + 1 /\ e.csum = c /\ e.text = Chunk(own, k + 1 - i)
    <3>1. e = Piece(i = 1, k - i + 1, c, Chunk(own, k + 1 - i))
      BY <1>6, <1>7
    <3> HIDE DEF e, at
    <3> QED BY <3>1 DEF Piece, IsPiece
  <2>3. f[at(i)] = Update(s, e)
    BY <2>1, <2>2
  <2>4. g[i] = Push(g[i - 1], e.text) /\ e.seq - 1 = k - i
    BY <1>3, <1>5, <2>2
  <2>5. CASE i = 1
    <3>1. e.start /\ e.seq \in 1 .. SeqLimit - 1
      <4>1. e.start /\ e.seq = k
        <5>1. k - i + 1 = k
          BY <1>3, <2>5
        <5> HIDE DEF e
        <5> QED BY <2>2, <2>5, <5>1
      <4> HIDE DEF e
      <4> QED BY <1>3, <4>1
    <3>2. Update(s, e) = After(e.csum, e.seq - 1, Push(Clear, e.text))
      BY <3>1 DEF Update
    <3>3. g[i] = Push(Clear, e.text)
      BY <1>5, <2>4, <2>5
    <3> QED BY <2>2, <2>3, <2>4, <3>2, <3>3
  <2>6. CASE i # 1
    <3>1. i - 1 # 0 /\ i - 1 \in 1 .. k
      BY <1>3, <2>6
    <3>2. s = After(c, k - (i - 1), g[i - 1])
      <4>1. f[at(i - 1)] = After(c, k - (i - 1), g[i - 1])
        BY <1>7, <3>1
      <4> QED BY <1>6, <4>1
    <3>3. k - (i - 1) # 0 /\ k - (i - 1) = e.seq /\ e.seq \in 1 .. SeqLimit - 2
      BY <1>3, <2>2, <2>6
    <3>4. s.at = "remaining" /\ s.next = e.seq /\ s.csum = c /\ s.buffer = g[i - 1]
      BY <3>2, <3>3 DEF After
    <3>5. ~ e.start
      BY <2>2, <2>6
    <3> HIDE DEF e, s
    <3>6. Update(s, e) = After(s.csum, e.seq - 1, Push(s.buffer, e.text))
      BY <3>3, <3>4, <3>5 DEF Update
    <3>7. f[at(i)] = After(c, k - i, g[i])
      BY <2>3, <2>4, <3>4, <3>6
    <3> QED BY <3>7
  <2> QED BY <2>5, <2>6
<1>8. 0 \in S
  BY <1>3
<1>9. k \in S
  <2> HIDE DEF S
  <2>1. 0 .. k \subseteq S
    BY <1>3, <1>7, <1>8, BoundedInduction
  <2> QED BY <1>3, <2>1
<1>10. at(k) = p - 1 /\ k - k = 0
  BY <1>1, <1>3
<1> QED BY <1>3, <1>5, <1>9, <1>10 DEF c

LEMMA ShownNothing == Shown(NoName) = << >>
<1>1. Text(NoName) = << >>
  BY DecodeNothing DEF Text, NoName
<1> QED BY <1>1 DEF Shown

\* Whatever the directory holds, iterate_dir_lfn gives an entry its long name, and
\* an entry without one none.
LEMMA ListedIs ==
  ASSUME NEW v \in [Slots -> Slot], size \in 1 .. MaxClusters, NEW p \in Listing(v), NoOrphans(v, p),
         IsText(OwnName(v, p)), Pieces(OwnName(v, p)) < SeqLimit
  PROVE  ListedName(v, p) = Shown(OwnName(v, p))
<1> DEFINE own == OwnName(v, p)
           c == Csum[v[p].name]
<1>1. p \in Used /\ Used \subseteq Slots /\ (\A q \in Ends(v) : p < q) /\ p \in Nat
  BY LastIs DEF Listing, Seen, Before, Used
<1>2. PICK f : Reads(f, v, p)
  BY <1>1, ReadsExist
<1>3. Collecting(v, p) = f[p - 1]
  BY <1>2 DEF Reads
<1>4. CASE \E long \in Longs : IsNamed(v, p, long)
  <2>1. own \in Longs /\ IsNamed(v, p, own)
    BY <1>4 DEF OwnName
  <2>2. own \in Seq(Unit)
    BY <2>1, SizeAssumption DEF Longs
  <2>3. PICK g : Collects(g, own)
    BY <2>2, CollectsExist
  <2>4. f[p - 1] = After(c, 0, Collected(own))
    BY <1>1, <1>2, <2>1, <2>3, ReadOwn
  <2>5. ListedName(v, p) = AsStr(Collected(own))
    BY <1>3, <2>4 DEF ListedName, After
  <2> QED BY <2>2, <2>5, CollectedIs
<1>5. CASE ~ \E long \in Longs : IsNamed(v, p, long)
  <2>1. own = NoName
    BY <1>5 DEF OwnName
  <2>2. own \notin Longs
    BY <2>1, SizeAssumption DEF Longs, NoName
  <2>3. ASSUME f[p - 1].at = "complete", f[p - 1].csum = c PROVE FALSE
    <3>1. p - 1 \in 0 .. p /\ p \in Slots
      BY <1>1 DEF Slots
    <3>2. PICK x \in 1 .. p - 1 : IsPiece(v[x]) /\ v[x].csum = f[p - 1].csum
      BY <1>2, <2>3, <3>1, ReadSeen
    <3>3. x \in Used /\ x < p
      <4>1. p \in 1 .. size * SlotsPerCluster /\ size * SlotsPerCluster \in Nat
        BY <1>1, SizeFacts, ClusterFacts DEF Used
      <4> QED BY <3>2, <4>1 DEF Used
    <3>4. x \in Seen(v)
      <4>1. IsValid(v[x])
        BY <1>1, <3>2, <3>3, PieceIs
      <4>2. ASSUME NEW q \in Ends(v) PROVE x < q
        <5>1. p < q /\ q \in Nat
          BY <1>1, <4>2 DEF Ends, Used
        <5> QED BY <1>1, <3>3, <5>1
      <4> QED BY <3>3, <4>1, <4>2 DEF Seen, Before
    <3>5. x \in OwnPieces(v, p)
      BY <2>3, <3>2, <3>4 DEF NoOrphans
    <3>6. own \in Longs
      BY <3>1, <3>5, OwnPiecesAre
    <3> QED BY <2>2, <3>6
  <2>4. ListedName(v, p) = NoName
    BY <1>3, <2>3 DEF ListedName
  <2> QED BY <2>1, <2>4, ShownNothing DEF NoName
<1> QED BY <1>4, <1>5

\* iterate_dir_lfn gives every entry its own long name and no other, for names of
\* any length and any division of their surrogates, and whatever was written,
\* deleted or failed before: with the exceptions that OwnLongNames makes.
THEOREM LongNamesAreOwn == Spec => []OwnLongNames
<1>1. ASSUME IInv PROVE OwnLongNames
  <2>1. slots \in [Slots -> Slot] /\ size \in 1 .. MaxClusters
    BY <1>1 DEF IInv, TypeOK
  <2>2. ASSUME NEW p \in Listing(slots), NoOrphans(slots, p), IsText(OwnName(slots, p)),
               Pieces(OwnName(slots, p)) < SeqLimit
        PROVE  ListedName(slots, p) = Shown(OwnName(slots, p))
    BY <2>1, <2>2, ListedIs
  <2>3. PushesDecode
    <3> SUFFICES ASSUME NEW long \in BoundedSeq(Unit, 2 * PieceLen + 1), IsText(long)
                 PROVE  AsStr(Collected(long)) = Shown(long) /\ ~ Collected(long).panicked
      BY DEF PushesDecode
    <3>1. PICK m \in 0 .. 2 * PieceLen + 1 : long \in [1 .. m -> Unit]
      BY DEF BoundedSeq, SeqOf
    <3>2. long \in Seq(Unit)
      BY <3>1
    <3> QED BY <3>2, CollectedIs
  <2> QED BY <2>2, <2>3 DEF OwnLongNames
<1>2. IInv => OwnLongNames
  BY <1>1
<1> QED BY <1>2, Inductive, PTL
=============================================================================

--------------------------- MODULE BlockNetProofs ---------------------------
(***************************************************************************)
(* Theorems about the HTTP block device, for every geometry of the image,  *)
(* cache size, list of groups to fetch ahead and set of requests.          *)
(***************************************************************************)
EXTENDS BlockNet, TLAPS

\* The request lies inside the image.
InImage ==
    /\ io.index <= io.count /\ io.index <= io.sector
    /\ io.sector + Left <= NSectors

\* Nothing is left of a request that has ended, and of a group fetched ahead.
Quiet ==
    /\ io.phase \in {"init", "idle"} => Left = 0
    /\ io.phase = "init" =>
          /\ io.cur = NoBlock
          /\ io.next > Len(Prefetch) => todo = {} /\ io.ask = {}

\* Every block that is being loaded is one a download, the callback that is
\* running or the group at hand will bring, and only one of them.
Expected ==
    /\ io.phase = "init" =>
          /\ io.ask \subseteq Loading
          /\ \A g \in loads : g \cap io.ask = {}
    /\ \A b \in Loading :
          (\E g \in loads : b \in g) \/ b \in (IF io.phase = "init" THEN io.ask ELSE todo)

Structure ==
    NTypeOK /\ InImage /\ Quiet /\ DownloadsValid /\ Expected /\ ResumeExact

-----------------------------------------------------------------------------
(* Sectors, clusters and blocks *)

\* Quotient and remainder are unique.
LEMMA DivUnique ==
    ASSUME NEW x \in Nat, NEW d \in Nat \ {0}, NEW q \in Int, NEW r \in 0 .. d - 1,
           x = d * q + r
    PROVE  x \div d = q
<1>1. x \div d \in Int /\ x % d \in 0 .. d - 1 /\ x = d * (x \div d) + (x % d)
    BY SMT
<1>2. d * (x \div d - q) = r - (x % d)
    BY <1>1, SMT
<1>3. CASE x \div d > q
    <2>1. d * (x \div d - q) >= d
        BY <1>1, <1>3, SMT
    <2> QED BY <1>1, <1>2, <2>1, SMT
<1>4. CASE x \div d < q
    <2>1. d * (x \div d - q) <= -d
        BY <1>1, <1>4, SMT
    <2> QED BY <1>1, <1>2, <2>1, SMT
<1> QED BY <1>1, <1>3, <1>4, SMT

\* A sector of the image lies in a block of it.
LEMMA BlockOfIn ==
    ASSUME NEW s \in Sectors
    PROVE  BlockOf(s) \in Blocks
<1> USE SizeAssumption DEF Sectors, NSectors
<1> DEFINE q == BlockOf(s)
<1>0. s \in Nat
    BY SMT
<1>1. q \in Nat /\ s % BlockSize \in 0 .. BlockSize - 1 /\ s = BlockSize * q + (s % BlockSize)
    BY <1>0, SMT DEF BlockOf
<1>2. q < NBlocks
    <2>1. SUFFICES ASSUME q >= NBlocks PROVE FALSE
        BY <1>1, SMT
    <2>2. BlockSize * q >= BlockSize * NBlocks
        BY <1>1, <2>1, SMT
    <2>3. s < NBlocks * BlockSize
        BY SMT
    <2> QED BY <1>0, <1>1, <2>2, <2>3, SMT
<1> QED BY <1>1, <1>2 DEF Blocks

\* From s to the end of its unit of d sectors, all sectors are of that unit.
LEMMA SameUnit ==
    ASSUME NEW d \in Nat \ {0}, NEW s \in Nat, NEW t \in s .. s + (d - (s % d)) - 1
    PROVE  t \div d = s \div d
<1> DEFINE q == s \div d
           r == (s % d) + (t - s)
<1>1. q \in Nat /\ s % d \in 0 .. d - 1 /\ s = d * q + (s % d)
    BY SMT
<1>2. t \in Nat /\ r \in 0 .. d - 1 /\ t = d * q + r
    BY <1>1, SMT
<1> HIDE DEF q, r
<1>3. t \div d = q
    <2>1. q \in Int
        BY <1>1
    <2> QED BY <1>2, <2>1, DivUnique
<1> QED BY <1>3 DEF q

\* The sector after the unit of s is of another unit.
LEMMA NextUnit ==
    ASSUME NEW d \in Nat \ {0}, NEW s \in Nat
    PROVE  (s + (d - (s % d))) \div d = (s \div d) + 1
<1> DEFINE q == s \div d
           x == s + (d - (s % d))
<1>1. q \in Nat /\ s % d \in 0 .. d - 1 /\ s = d * q + (s % d)
    BY SMT
<1>2. x \in Nat /\ x = d * (q + 1) + 0
    BY <1>1, SMT
<1> HIDE DEF q, x
<1>3. x \div d = q + 1
    BY <1>1, <1>2, DivUnique, 0 \in 0 .. d - 1, q + 1 \in Int
<1> QED BY <1>3 DEF q, x

\* Division is monotone.
LEMMA DivMonotone ==
    ASSUME NEW d \in Nat \ {0}, NEW s \in Nat, NEW t \in Nat, s <= t
    PROVE  s \div d <= t \div d
<1> DEFINE p == s \div d
           q == t \div d
<1>1. p \in Nat /\ s % d \in 0 .. d - 1 /\ s = d * p + (s % d)
    BY SMT
<1>2. q \in Nat /\ t % d \in 0 .. d - 1 /\ t = d * q + (t % d)
    BY SMT
<1> HIDE DEF p, q
<1>3. SUFFICES ASSUME p > q PROVE FALSE
    BY <1>1, <1>2, SMT DEF p, q
<1>4. d * p >= d * q + d
    BY <1>1, <1>2, <1>3, SMT
<1> QED BY <1>1, <1>2, <1>4, SMT

\* Sectors of one cluster are of one block.
LEMMA ClusterInBlock ==
    ASSUME NEW s \in Nat, NEW t \in Nat, ClusterOf(s) = ClusterOf(t)
    PROVE  BlockOf(s) = BlockOf(t)
<1> USE SizeAssumption
<1> DEFINE C == ClusterSize
           k == BlockSize \div C
           c == s \div C
           b == c \div k
<1>1. C \in Nat \ {0} /\ k \in Nat \ {0} /\ BlockSize = k * C
    <2>1. BlockSize = C * (BlockSize \div C) + (BlockSize % C) /\ BlockSize \div C \in Nat
        BY SMT
    <2>2. BlockSize = C * (BlockSize \div C)
        BY <2>1, ClusterAssumption, SMT
    <2> QED BY <2>1, <2>2, SMT
<1>2. c \in Nat /\ s % C \in 0 .. C - 1 /\ s = C * c + (s % C)
    BY <1>1, SMT
<1>3. t % C \in 0 .. C - 1 /\ t = C * c + (t % C)
    <2>1. t % C \in 0 .. C - 1 /\ t = C * (t \div C) + (t % C)
        BY <1>1, SMT
    <2> QED BY <2>1 DEF ClusterOf
<1>4. b \in Nat /\ c % k \in 0 .. k - 1 /\ c = k * b + (c % k)
    <2> HIDE DEF c, k
    <2> QED BY <1>1, <1>2, SMT
<1>5. ASSUME NEW x \in Nat, NEW r \in 0 .. C - 1, x = C * c + r
      PROVE  x \div BlockSize = b
    <2> DEFINE m == c % k
    <2> HIDE DEF m, b, c, k, C
    <2>1. m \in 0 .. k - 1 /\ c = k * b + m
        BY <1>4 DEF m
    <2>2. C * c = BlockSize * b + C * m
        BY <1>1, <1>2, <1>4, <2>1, SMT
    <2>3. C * m <= C * k - C
        BY <1>1, <2>1, SMT
    <2>4. C * m + r \in 0 .. BlockSize - 1
        BY <1>1, <1>5, <2>1, <2>3, SMT
    <2>5. x = BlockSize * b + (C * m + r)
        BY <1>1, <1>4, <1>5, <2>1, <2>2, SMT
    <2> QED BY <1>4, <1>5, <2>4, <2>5, DivUnique
<1>6. s \div BlockSize = b /\ t \div BlockSize = b
    BY <1>2, <1>3, <1>5
<1> QED BY <1>6 DEF BlockOf

-----------------------------------------------------------------------------
(* The parts of a step *)

\* Moving a block to the front keeps the order among blocks.
LEMMA TouchType ==
    ASSUME NTypeOK, NEW b \in Blocks, NEW out, Touch(b, out)
    PROVE  newer' \subseteq Blocks \X Blocks
    BY DEF NTypeOK, Touch, Cached

\* Only blocks that have arrived are freed: bf_add_block adds to the blocks
\* being loaded and takes none away.
LEMMA AddBlock ==
    ASSUME NTypeOK, NEW b \in Blocks, b \notin Cached, bf_add_block(b)
    PROVE  /\ cache' \in [Blocks -> {"none", "loading", "loaded"}]
           /\ newer' \subseteq Blocks \X Blocks
           /\ Loading' = Loading \cup {b}
<1>1. Victims \subseteq Loaded
    BY DEF Victims
<1>2. cache' \in [Blocks -> {"none", "loading", "loaded"}]
    BY DEF NTypeOK, bf_add_block
<1>3. newer' \subseteq Blocks \X Blocks
    BY TouchType DEF bf_add_block
<1>4. Loading' = Loading \cup {b}
    BY <1>1 DEF NTypeOK, bf_add_block, Loading, Loaded, Cached
<1> QED BY <1>2, <1>3, <1>4

\* Where a request that has sectors left stands
LEMMA RwHere ==
    ASSUME NTypeOK, InImage, Rw
    PROVE  /\ io.sector \in Sectors /\ BlockOf(io.sector) \in Blocks
           /\ InCluster \in Clusters /\ Left \in 1 .. NSectors
<1>1. NSectors \in Nat
    BY SizeAssumption DEF NSectors
<1>2. io.sector \in Sectors /\ Left \in 1 .. NSectors
    BY <1>1 DEF NTypeOK, InImage, Rw, Left, IoType, Sectors
<1>3. BlockOf(io.sector) \in Blocks
    BY <1>2, BlockOfIn
<1> QED BY <1>2, <1>3 DEF InCluster, Clusters

\* A turn of the loop moves on by at least one sector, inside the request and
\* inside the unit of d sectors it is in.
LEMMA Pace ==
    ASSUME NTypeOK, InImage, Rw, NEW d \in Nat \ {0}
    PROVE  LET n == Least(Left, d - (io.sector % d))
           IN  /\ n \in 1 .. Left /\ n <= d - (io.sector % d)
               /\ io.sector + n \in 0 .. NSectors /\ io.index + n \in 0 .. NSectors
<1>1. io.sector \in Nat /\ Left \in 1 .. NSectors /\ NSectors \in Nat
    BY RwHere, SizeAssumption DEF Sectors, NSectors
<1>2. io.sector % d \in 0 .. d - 1
    BY <1>1, SMT
<1> QED BY <1>1, <1>2 DEF NTypeOK, InImage, Left, IoType, Least

\* A step of n sectors stays in the image.
LEMMA Moved ==
    ASSUME NTypeOK, InImage, Rw, NEW n \in 1 .. Left
    PROVE  /\ \A i \in Chunk(n) : FirstSector + i \in Sectors
           /\ io.index + n <= io.count /\ io.index + n <= io.sector + n
           /\ io.sector + n + (io.count - (io.index + n)) <= NSectors
<1>1. /\ io.sector \in Int /\ io.index \in Int /\ io.count \in Int
      /\ io.sector >= 0 /\ io.index >= 0 /\ NSectors \in Int
    <2>1. NSectors \in Nat
        BY SizeAssumption DEF NSectors
    <2> QED BY <2>1 DEF NTypeOK, IoType
<1>2. /\ n \in Int /\ n >= 1 /\ n <= io.count - io.index
      /\ io.index <= io.count /\ io.index <= io.sector
      /\ io.sector + (io.count - io.index) <= NSectors
    BY <1>1 DEF InImage, Left
<1>3. ASSUME NEW i \in Chunk(n) PROVE FirstSector + i \in Sectors
    <2>1. i \in Int /\ i >= io.index /\ i <= io.index + n - 1
        BY <1>1, <1>2, <1>3 DEF Chunk
    <2>2. (io.sector - io.index) + i \in 0 .. NSectors - 1
        BY <1>1, <1>2, <2>1, SMT
    <2> QED BY <2>2 DEF FirstSector, Sectors
<1>4. /\ io.index + n <= io.count /\ io.index + n <= io.sector + n
      /\ io.sector + n + (io.count - (io.index + n)) <= NSectors
    BY <1>1, <1>2, SMT
<1> QED BY <1>3, <1>4

-----------------------------------------------------------------------------
(* Structure is inductive. *)

LEMMA StructureInit == NetInit => Structure
<1> SUFFICES ASSUME NetInit PROVE Structure
    OBVIOUS
<1> USE SizeAssumption, DataAssumption
<1>1. NSectors \in Nat
    BY DEF NSectors
<1>2. GroupAt(1) \subseteq Blocks
    BY DEF GroupAt
<1>3. NTypeOK
    <2>1. io \in IoType
        <3>1. /\ "init" \in Phases /\ 1 \in Nat /\ {} \in SUBSET Blocks /\ FALSE \in BOOLEAN
              /\ 0 \in 0 .. NSectors /\ Junk \in Vals \cup {Junk}
              /\ [i \in Sectors |-> Junk] \in [Sectors -> Vals \cup {Junk}]
              /\ NoBlock \in Blocks \cup {NoBlock}
            BY <1>1 DEF Phases
        <3> QED BY <3>1, ZenonT(60) DEF NetInit, IoType
    <2>2. disk \in [Sectors -> Vals] /\ modified \in [Sectors -> Vals \cup {Junk}]
        BY DEF NetInit
    <2> QED BY <1>2, <2>1, <2>2 DEF NetInit, NTypeOK
<1>4. InImage /\ Quiet
    BY <1>1 DEF NetInit, InImage, Quiet, Left, GroupAt
<1>5. Loading = {} /\ loads = {} /\ io.phase = "init" /\ io.ask = {} /\ io.cur = NoBlock
    BY DEF NetInit, Loading
<1>6. DownloadsValid /\ Expected /\ ResumeExact
    BY <1>5 DEF DownloadsValid, Expected, ResumeExact
<1> QED BY <1>3, <1>4, <1>6 DEF Structure

LEMMA PrefetchBlockKeeps == Structure /\ PrefetchBlock => Structure'
<1> SUFFICES ASSUME Structure, PrefetchBlock PROVE Structure'
    OBVIOUS
<1> USE DEF Structure
<1>1. PICK b \in todo :
          /\ todo' = todo \ {b}
          /\ IF b \in Cached
             THEN Touch(b, {}) /\ UNCHANGED <<cache, io>>
             ELSE bf_add_block(b) /\ io' = [io EXCEPT !.ask = @ \cup {b}]
    BY DEF PrefetchBlock
<1>2. b \in Blocks /\ io.phase = "init" /\ io.next <= Len(Prefetch)
    BY DEF NTypeOK, PrefetchBlock, Opening
<1>3. UNCHANGED <<clusters, modified, loads, disk>>
    BY DEF PrefetchBlock
<1>4. CASE b \in Cached
    <2>1. newer' \subseteq Blocks \X Blocks /\ UNCHANGED <<cache, io>>
        BY <1>1, <1>2, <1>4, TouchType
    <2>2. NTypeOK'
        BY <1>1, <1>3, <2>1 DEF NTypeOK
    <2>3. Loading' = Loading
        BY <2>1 DEF Loading
    <2> QED BY <1>1, <1>2, <1>3, <2>1, <2>2, <2>3
            DEF InImage, Left, Quiet, DownloadsValid, Expected, ResumeExact
<1>5. CASE b \notin Cached
    <2>1. /\ cache' \in [Blocks -> {"none", "loading", "loaded"}]
          /\ newer' \subseteq Blocks \X Blocks
          /\ Loading' = Loading \cup {b}
        BY <1>1, <1>2, <1>5, AddBlock
    <2>2. io' = [io EXCEPT !.ask = @ \cup {b}]
        BY <1>1, <1>5
    <2>3. io' \in IoType /\ io'.ask = io.ask \cup {b} /\ io'.phase = "init"
          /\ io'.cur = io.cur /\ io'.next = io.next /\ io'.index = io.index
          /\ io'.sector = io.sector /\ io'.count = io.count
        BY <1>2, <2>2 DEF NTypeOK, IoType
    <2>4. NTypeOK'
        BY <1>1, <1>3, <2>1, <2>3 DEF NTypeOK
    <2>5. b \notin Loading /\ NoBlock \notin Loading'
        BY <1>2, <1>5, <2>1 DEF Loading, Cached, NoBlock, Blocks
    <2>6. InImage' /\ Quiet'
        BY <1>2, <2>3 DEF InImage, Left, Quiet
    <2>7. DownloadsValid'
        BY <1>2, <1>3, <2>1, <2>3 DEF DownloadsValid
    <2>9. Expected'
        <3>1. \A g \in loads : b \notin g
            BY <2>5 DEF DownloadsValid
        <3>2. \A x \in Loading' : (\E g \in loads : x \in g) \/ x \in io'.ask
            BY <1>2, <2>1, <2>3 DEF Expected
        <3>3. io'.ask \subseteq Loading' /\ \A g \in loads : g \cap io'.ask = {}
            BY <1>2, <2>1, <2>3, <3>1 DEF Expected
        <3> QED BY <1>3, <2>3, <3>2, <3>3 DEF Expected
    <2>8. ResumeExact'
        BY <1>2, <2>3, <2>5 DEF ResumeExact, Quiet
    <2> QED BY <2>4, <2>6, <2>7, <2>8, <2>9
<1> QED BY <1>4, <1>5

LEMMA PrefetchGroupKeeps == Structure /\ PrefetchGroup => Structure'
<1> SUFFICES ASSUME Structure, PrefetchGroup PROVE Structure'
    OBVIOUS
<1> USE DEF Structure
<1>1. /\ io.phase = "init" /\ io.next <= Len(Prefetch)
      /\ loads' = IF io.ask = {} THEN loads ELSE loads \cup {io.ask}
      /\ io' = [io EXCEPT !.next = @ + 1, !.ask = {}]
      /\ todo' = GroupAt(io.next + 1)
      /\ UNCHANGED <<cache, newer, clusters, modified, disk>>
    BY DEF PrefetchGroup, Opening
<1>2. /\ io' \in IoType /\ io'.ask = {} /\ io'.phase = "init" /\ io'.cur = io.cur
      /\ io'.next = io.next + 1 /\ io'.index = io.index
      /\ io'.sector = io.sector /\ io'.count = io.count
    <2>1. io.next + 1 \in Nat /\ {} \in SUBSET Blocks
        BY DEF NTypeOK, IoType
    <2>2. io' \in IoType
        BY <1>1, <2>1 DEF NTypeOK, IoType
    <2> QED BY <1>1, <2>2 DEF NTypeOK, IoType
<1>3. GroupAt(io.next + 1) \subseteq Blocks /\ io.ask \subseteq Blocks /\ io.next \in Nat
    BY DataAssumption DEF GroupAt, NTypeOK, IoType
<1>4. NTypeOK'
    BY <1>1, <1>2, <1>3 DEF NTypeOK
<1>5. InImage' /\ Quiet'
    BY <1>1, <1>2, <1>3, DataAssumption DEF InImage, Left, Quiet, GroupAt
<1>6. Loading' = Loading
    BY <1>1 DEF Loading
<1>7. DownloadsValid'
    BY <1>1, <1>2, <1>6 DEF DownloadsValid, Expected
<1>9. Expected'
    <2>1. \A x \in Loading : (\E g \in loads : x \in g) \/ x \in io.ask
        BY <1>1 DEF Expected
    <2>2. \A x \in Loading : \E g \in loads' : x \in g
        BY <1>1, <2>1
    <2> QED BY <1>1, <1>2, <1>6, <2>2 DEF Expected
<1>8. ResumeExact'
    BY <1>1, <1>2, <1>6 DEF ResumeExact
<1> QED BY <1>4, <1>5, <1>7, <1>8, <1>9

LEMMA PrefetchDoneKeeps == Structure /\ PrefetchDone => Structure'
<1> SUFFICES ASSUME Structure, PrefetchDone PROVE Structure'
    OBVIOUS
<1> USE DEF Structure
<1>1. /\ io.phase = "init" /\ todo = {} /\ io.ask = {} /\ io.cur = NoBlock /\ Left = 0
      /\ UNCHANGED <<cache, newer, clusters, modified, loads, todo, disk>>
    BY DEF PrefetchDone, Quiet
<1>2. /\ io' \in IoType /\ io'.phase = "idle" /\ io'.cur = io.cur
      /\ io'.index = io.index /\ io'.sector = io.sector /\ io'.count = io.count
    BY DEF PrefetchDone, NTypeOK, IoType, Phases
<1>3. NTypeOK' /\ Loading' = Loading /\ NoBlock \notin Loading
    BY <1>1, <1>2 DEF NTypeOK, Loading, NoBlock, Blocks
<1>4. InImage' /\ Quiet'
    BY <1>1, <1>2 DEF InImage, Left, Quiet
<1>5. DownloadsValid' /\ Expected' /\ ResumeExact'
    BY <1>1, <1>2, <1>3 DEF DownloadsValid, Expected, ResumeExact
<1> QED BY <1>3, <1>4, <1>5

LEMMA SubmitKeeps ==
    ASSUME Structure, NEW req \in Requests, Submit(req)
    PROVE  Structure'
<1> USE DEF Structure
<1>1. /\ io.phase = "idle"
      /\ UNCHANGED <<cache, newer, clusters, modified, loads, todo>>
    BY DEF Submit
<1>2. /\ req \in RequestType /\ req.first + req.count <= NSectors /\ NSectors \in Nat
      /\ req.first \in Nat /\ req.count \in Nat
    BY DataAssumption, SizeAssumption DEF RequestType, NSectors, Sectors
<1>3. /\ io' \in IoType /\ io'.phase = "run" /\ io'.cur = io.cur
      /\ io'.index = 0 /\ io'.sector = req.first /\ io'.count = req.count
    <2>1. /\ req.write \in BOOLEAN /\ req.first \in 0 .. NSectors /\ req.count \in 0 .. NSectors
          /\ req.data \in Vals \cup {Junk} /\ 0 \in 0 .. NSectors
        BY <1>2 DEF RequestType, Sectors
    <2>2. io' = [io EXCEPT !.phase = "run", !.write = req.write, !.sector = req.first,
                           !.index = 0, !.count = req.count, !.data = req.data]
        BY DEF Submit
    <2>3. io' \in IoType
        BY <2>1, <2>2 DEF NTypeOK, IoType, Phases
    <2> QED BY <2>2, <2>3 DEF NTypeOK, IoType
<1>4. disk' \in [Sectors -> Vals]
    BY <1>2 DEF Submit, NTypeOK, RequestType
<1>5. NTypeOK' /\ Loading' = Loading
    BY <1>1, <1>3, <1>4 DEF NTypeOK, Loading
<1>6. InImage' /\ Quiet'
    BY <1>2, <1>3 DEF InImage, Left, Quiet
<1>7. DownloadsValid' /\ Expected' /\ ResumeExact'
    BY <1>1, <1>3, <1>5 DEF DownloadsValid, Expected, ResumeExact
<1> QED BY <1>5, <1>6, <1>7

\* The steps of a request that change neither the cache nor the downloads
LEMMA LoopKeeps ==
    ASSUME Structure, io.phase = "run", NTypeOK', InImage', Quiet', Loading' = Loading,
           UNCHANGED <<loads, todo>>,
           io'.phase \in {"run", "idle"}, io'.cur \notin Loading
    PROVE  Structure'
    BY DEF Structure, DownloadsValid, Expected, ResumeExact

LEMMA RwClusterKeeps == Structure /\ RwCluster => Structure'
<1> SUFFICES ASSUME Structure, RwCluster PROVE Structure'
    OBVIOUS
<1> USE DEF Structure
<1> DEFINE n == Least(Left, ClusterSize - (io.sector % ClusterSize))
<1>1. Rw /\ io.phase = "run" /\ UNCHANGED <<cache, newer, clusters, loads, todo, disk>>
    BY DEF RwCluster, Rw
<1>2. /\ n \in 1 .. Left /\ io.sector + n \in 0 .. NSectors /\ io.index + n \in 0 .. NSectors
    BY <1>1, Pace, SizeAssumption
<1>3. /\ \/ io' = Advance(n) /\ modified' = [s \in Sectors |-> IF s \in io.sector .. io.sector + n - 1
                                                              THEN io.data ELSE modified[s]]
         \/ /\ io' = [Advance(n) EXCEPT !.buf =
                         [i \in Sectors |-> IF i \in Chunk(n)
                                            THEN modified[FirstSector + i] ELSE io.buf[i]]]
            /\ UNCHANGED modified
    BY DEF RwCluster
<1> HIDE DEF n
<1>4. /\ io'.phase = "run" /\ io'.cur = io.cur /\ io'.index = io.index + n
      /\ io'.sector = io.sector + n /\ io'.count = io.count
    BY <1>1, <1>3 DEF Advance, NTypeOK, IoType
<1>5. NTypeOK'
    <2>1. CASE io' = Advance(n) /\ modified' = [s \in Sectors |->
                   IF s \in io.sector .. io.sector + n - 1 THEN io.data ELSE modified[s]]
        <3>1. modified' \in [Sectors -> Vals \cup {Junk}]
            BY <2>1 DEF NTypeOK, IoType
        <3>2. io' \in IoType
            BY <1>2, <2>1 DEF NTypeOK, IoType, Advance
        <3> QED BY <1>1, <3>1, <3>2 DEF NTypeOK
    <2>2. CASE /\ io' = [Advance(n) EXCEPT !.buf =
                         [i \in Sectors |-> IF i \in Chunk(n)
                                            THEN modified[FirstSector + i] ELSE io.buf[i]]]
               /\ UNCHANGED modified
        <3>1. \A i \in Chunk(n) : FirstSector + i \in Sectors
            BY <1>1, <1>2, Moved
        <3>2. [i \in Sectors |-> IF i \in Chunk(n) THEN modified[FirstSector + i] ELSE io.buf[i]]
                  \in [Sectors -> Vals \cup {Junk}]
            BY <3>1 DEF NTypeOK, IoType
        <3>3. io' \in IoType
            BY <1>2, <2>2, <3>2 DEF NTypeOK, IoType, Advance
        <3> QED BY <1>1, <2>2, <3>3 DEF NTypeOK
    <2> QED BY <1>3, <2>1, <2>2
<1>6. InImage' /\ Quiet'
    <2>1. InImage'
        BY <1>1, <1>2, <1>4, Moved DEF InImage, Left
    <2> QED BY <1>4, <2>1 DEF Quiet
<1>7. Loading' = Loading /\ io'.cur \notin Loading
    BY <1>1, <1>4 DEF Loading, ResumeExact
<1> QED BY <1>1, <1>4, <1>5, <1>6, <1>7, LoopKeeps

LEMMA RwBlockKeeps == Structure /\ RwBlock => Structure'
<1> SUFFICES ASSUME Structure, RwBlock PROVE Structure'
    OBVIOUS
<1> USE DEF Structure
<1> DEFINE n == Least(Left, BlockSize - (io.sector % BlockSize))
           got == [i \in Sectors |-> IF i \in Chunk(n)
                                     THEN BlockData(FirstSector + i) ELSE io.buf[i]]
<1>1. /\ Rw /\ io.phase = "run" /\ BlockOf(io.sector) \in Blocks
      /\ UNCHANGED <<cache, clusters, modified, loads, todo, disk>>
    BY RwHere DEF RwBlock, Rw
<1>2. /\ n \in 1 .. Left /\ io.sector + n \in 0 .. NSectors /\ io.index + n \in 0 .. NSectors
    BY <1>1, Pace, SizeAssumption
<1>3. io' = [Advance(n) EXCEPT !.cur = NoBlock, !.buf = got]
    BY DEF RwBlock
<1>4. newer' \subseteq Blocks \X Blocks
    BY <1>1, TouchType DEF RwBlock
<1>5. got \in [Sectors -> Vals \cup {Junk}]
    <2>1. \A i \in Chunk(n) : FirstSector + i \in Sectors
        BY <1>1, <1>2, Moved
    <2>2. ASSUME NEW s \in Sectors PROVE BlockData(s) \in Vals \cup {Junk}
        BY DataAssumption DEF BlockData
    <2> QED BY <2>1, <2>2 DEF NTypeOK, IoType
<1> HIDE DEF n, got
<1>6. /\ io'.phase = "run" /\ io'.cur = NoBlock /\ io'.index = io.index + n
      /\ io'.sector = io.sector + n /\ io'.count = io.count
    BY <1>1, <1>3 DEF Advance, NTypeOK, IoType
<1>7. NTypeOK'
    <2>1. io' \in IoType
        BY <1>2, <1>3, <1>5 DEF NTypeOK, IoType, Advance
    <2> QED BY <1>1, <1>4, <2>1 DEF NTypeOK
<1>8. InImage' /\ Quiet'
    <2>1. InImage'
        BY <1>1, <1>2, <1>6, Moved DEF InImage, Left
    <2> QED BY <1>6, <2>1 DEF Quiet
<1>9. Loading' = Loading /\ io'.cur \notin Loading
    BY <1>1, <1>6 DEF Loading, NoBlock, Blocks
<1> QED BY <1>1, <1>6, <1>7, <1>8, <1>9, LoopKeeps

LEMMA RwAllocateKeeps == Structure /\ RwAllocate => Structure'
<1> SUFFICES ASSUME Structure, RwAllocate PROVE Structure'
    OBVIOUS
<1> USE DEF Structure
<1>1. /\ Rw /\ io.phase = "run" /\ BlockOf(io.sector) \in Blocks /\ InCluster \in Clusters
      /\ BlockOf(io.sector) \in Loaded
      /\ io' = [io EXCEPT !.cur = BlockOf(io.sector)]
      /\ UNCHANGED <<cache, loads, todo, disk>>
    BY RwHere DEF RwAllocate, Rw
<1>2. newer' \subseteq Blocks \X Blocks
    BY <1>1, TouchType DEF RwAllocate
<1>3. modified' \in [Sectors -> Vals \cup {Junk}] /\ clusters' \subseteq Clusters
    <2>1. ASSUME NEW s \in Sectors PROVE BlockData(s) \in Vals \cup {Junk}
        BY DataAssumption DEF BlockData
    <2> QED BY <1>1, <2>1 DEF RwAllocate, NTypeOK
<1>4. /\ io'.phase = "run" /\ io'.cur = BlockOf(io.sector) /\ io'.index = io.index
      /\ io'.sector = io.sector /\ io'.count = io.count
    BY <1>1 DEF NTypeOK, IoType
<1>5. NTypeOK'
    <2>1. io' \in IoType
        BY <1>1 DEF NTypeOK, IoType
    <2> QED BY <1>1, <1>2, <1>3, <2>1 DEF NTypeOK
<1>6. InImage' /\ Quiet'
    BY <1>4 DEF InImage, Quiet, Left
<1>7. Loading' = Loading /\ io'.cur \notin Loading
    BY <1>1, <1>4 DEF Loading, Loaded
<1> QED BY <1>1, <1>4, <1>5, <1>6, <1>7, LoopKeeps

LEMMA RwWaitKeeps == Structure /\ RwWait => Structure'
<1> SUFFICES ASSUME Structure, RwWait PROVE Structure'
    OBVIOUS
<1> USE DEF Structure
<1> DEFINE b == BlockOf(io.sector)
<1>1. /\ Rw /\ io.phase = "run" /\ b \in Blocks /\ b \in Loading
      /\ io' = [io EXCEPT !.phase = "wait", !.cur = b]
      /\ UNCHANGED <<cache, clusters, modified, loads, todo, disk>>
    BY RwHere DEF RwWait, Rw
<1>2. newer' \subseteq Blocks \X Blocks
    BY <1>1, TouchType DEF RwWait
<1> HIDE DEF b
<1>3. /\ io'.phase = "wait" /\ io'.cur = b /\ io'.index = io.index
      /\ io'.sector = io.sector /\ io'.count = io.count
    BY <1>1 DEF NTypeOK, IoType
<1>4. NTypeOK'
    <2>1. io' \in IoType
        BY <1>1 DEF NTypeOK, IoType, Phases
    <2> QED BY <1>1, <1>2, <2>1 DEF NTypeOK
<1>5. InImage' /\ Quiet' /\ Loading' = Loading
    BY <1>1, <1>3 DEF InImage, Quiet, Left, Loading
<1>6. b \in todo \cup UNION loads
    <2>1. (\E g \in loads : b \in g) \/ b \in todo
        BY <1>1 DEF Expected
    <2> QED BY <2>1
<1>7. DownloadsValid' /\ Expected'
    BY <1>1, <1>3, <1>5 DEF DownloadsValid, Expected
<1>8. ResumeExact'
    BY <1>1, <1>3, <1>5, <1>6 DEF ResumeExact
<1> QED BY <1>4, <1>5, <1>7, <1>8

LEMMA RwLoadKeeps == Structure /\ RwLoad => Structure'
<1> SUFFICES ASSUME Structure, RwLoad PROVE Structure'
    OBVIOUS
<1> USE DEF Structure
<1> DEFINE b == BlockOf(io.sector)
<1>1. /\ Rw /\ io.phase = "run" /\ b \in Blocks /\ b \notin Cached
      /\ bf_add_block(b) /\ loads' = loads \cup {{b}}
      /\ io' = [io EXCEPT !.phase = "wait", !.cur = b]
      /\ UNCHANGED <<clusters, modified, todo, disk>>
    BY RwHere DEF RwLoad, Rw
<1> HIDE DEF b
<1>2. /\ cache' \in [Blocks -> {"none", "loading", "loaded"}]
      /\ newer' \subseteq Blocks \X Blocks
      /\ Loading' = Loading \cup {b} /\ b \notin Loading
    BY <1>1, AddBlock DEF Loading, Cached
<1>3. /\ io'.phase = "wait" /\ io'.cur = b /\ io'.index = io.index
      /\ io'.sector = io.sector /\ io'.count = io.count
    BY <1>1 DEF NTypeOK, IoType
<1>4. NTypeOK'
    <2>1. io' \in IoType
        BY <1>1 DEF NTypeOK, IoType, Phases
    <2> QED BY <1>1, <1>2, <2>1 DEF NTypeOK
<1>5. InImage' /\ Quiet'
    BY <1>3 DEF InImage, Quiet, Left
<1>6. DownloadsValid'
    <2>1. \A g \in loads : b \notin g
        BY <1>2 DEF DownloadsValid
    <2>2. b \notin todo /\ todo \subseteq Loading
        BY <1>1, <1>2 DEF DownloadsValid
    <2>3. \A g \in loads : g \subseteq Loading /\ g \cap todo = {}
        BY <1>1 DEF DownloadsValid
    <2>4. \A g \in loads' : g \subseteq Loading' /\ g \cap todo' = {}
        BY <1>1, <1>2, <2>2, <2>3
    <2>5. \A g, h \in loads' : g # h => g \cap h = {}
        <3>1. \A g, h \in loads : g # h => g \cap h = {}
            BY DEF DownloadsValid
        <3>2. \A g \in loads : g \cap {b} = {} /\ {b} \cap g = {}
            BY <2>1
        <3>3. loads' = loads \cup {{b}}
            BY <1>1
        <3> QED BY <3>1, <3>2, <3>3, Zenon
    <2>6. todo' \subseteq Loading'
        BY <1>1, <1>2, <2>2
    <2> QED BY <2>4, <2>5, <2>6 DEF DownloadsValid
<1>7. Expected'
    BY <1>1, <1>2, <1>3 DEF Expected
<1>8. ResumeExact'
    <2>1. b \in UNION loads'
        BY <1>1
    <2> QED BY <1>2, <1>3, <2>1 DEF ResumeExact
<1> QED BY <1>4, <1>5, <1>6, <1>7, <1>8

LEMMA RwEndKeeps == Structure /\ RwEnd => Structure'
<1> SUFFICES ASSUME Structure, RwEnd PROVE Structure'
    OBVIOUS
<1> USE DEF Structure
<1>1. /\ io.phase = "run" /\ Left = 0
      /\ io' = [io EXCEPT !.phase = "idle", !.nested = TRUE,
                          !.buf = [i \in Sectors |-> Junk]]
      /\ UNCHANGED <<cache, newer, clusters, modified, loads, todo, disk>>
    BY DEF RwEnd
<1>2. /\ io'.phase = "idle" /\ io'.cur = io.cur /\ io'.index = io.index
      /\ io'.sector = io.sector /\ io'.count = io.count
    BY <1>1 DEF NTypeOK, IoType
<1>3. NTypeOK'
    <2>1. io' \in IoType
        BY <1>1 DEF NTypeOK, IoType, Phases
    <2> QED BY <1>1, <2>1 DEF NTypeOK
<1>4. InImage' /\ Quiet' /\ Loading' = Loading /\ io'.cur \notin Loading
    BY <1>1, <1>2 DEF InImage, Quiet, Left, Loading, ResumeExact
<1> QED BY <1>1, <1>2, <1>3, <1>4, LoopKeeps

LEMMA ArriveKeeps ==
    ASSUME Structure, NEW a \in loads, Arrive(a)
    PROVE  Structure'
<1> USE DEF Structure
<1>1. /\ io.phase \in {"idle", "wait"} /\ todo = {}
      /\ loads' = loads \ {a} /\ todo' = a
      /\ io' = [io EXCEPT !.nested = FALSE]
      /\ UNCHANGED <<cache, newer, clusters, modified, disk>>
    BY DEF Arrive, Waiting
<1>2. /\ io'.phase = io.phase /\ io'.cur = io.cur /\ io'.index = io.index
      /\ io'.sector = io.sector /\ io'.count = io.count
    BY <1>1 DEF NTypeOK, IoType
<1>3. NTypeOK'
    <2>1. io' \in IoType
        BY <1>1 DEF NTypeOK, IoType
    <2> QED BY <1>1, <2>1 DEF NTypeOK
<1>4. InImage' /\ Quiet' /\ Loading' = Loading
    BY <1>1, <1>2 DEF InImage, Quiet, Left, Loading
<1>5. DownloadsValid'
    BY <1>1, <1>2, <1>4 DEF DownloadsValid
<1>6. Expected'
    BY <1>1, <1>2, <1>4 DEF Expected
<1>7. ResumeExact'
    <2>1. io.phase = "wait" => io.cur \in a \cup UNION (loads \ {a})
        BY <1>1 DEF ResumeExact
    <2> QED BY <1>1, <1>2, <1>4, <2>1 DEF ResumeExact
<1> QED BY <1>3, <1>4, <1>5, <1>6, <1>7

LEMMA UpdateBlockKeeps == Structure /\ UpdateBlock => Structure'
<1> SUFFICES ASSUME Structure, UpdateBlock PROVE Structure'
    OBVIOUS
<1> USE DEF Structure
<1>1. PICK b \in todo :
          /\ todo' = todo \ {b}
          /\ cache' = [cache EXCEPT ![b] = "loaded"]
          /\ io' = [io EXCEPT !.nested = FALSE,
                              !.phase = IF b = io.cur THEN "run" ELSE @]
    BY DEF UpdateBlock
<1>2. /\ io.phase \in {"idle", "wait"}
      /\ UNCHANGED <<newer, clusters, modified, loads, disk>>
      /\ b \in Blocks /\ b \in Loading /\ \A g \in loads : b \notin g
    BY DEF UpdateBlock, NTypeOK, DownloadsValid
<1>3. /\ io'.phase = (IF b = io.cur THEN "run" ELSE io.phase)
      /\ io'.cur = io.cur /\ io'.index = io.index
      /\ io'.sector = io.sector /\ io'.count = io.count
    BY <1>1 DEF NTypeOK, IoType
<1>4. NTypeOK'
    <2>1. io' \in IoType
        BY <1>1 DEF NTypeOK, IoType, Phases
    <2> QED BY <1>1, <1>2, <2>1 DEF NTypeOK
<1>5. Loading' = Loading \ {b}
    BY <1>1, <1>2 DEF Loading, NTypeOK
<1>6. b = io.cur => io.phase = "wait"
    BY <1>2 DEF ResumeExact
<1>7. InImage' /\ Quiet'
    BY <1>2, <1>3, <1>6 DEF InImage, Quiet, Left
<1>8. DownloadsValid' /\ Expected'
    BY <1>1, <1>2, <1>3, <1>5 DEF DownloadsValid, Expected
<1>9. ResumeExact'
    <2>1. CASE b = io.cur
        BY <1>3, <1>5, <2>1 DEF ResumeExact
    <2>2. CASE b # io.cur
        BY <1>1, <1>2, <1>3, <1>5, <2>2 DEF ResumeExact
    <2> QED BY <2>1, <2>2
<1> QED BY <1>4, <1>7, <1>8, <1>9

LEMMA FailKeeps ==
    ASSUME Structure, NEW a \in loads, Fail(a)
    PROVE  Structure'
<1> USE DEF Structure
<1>1. /\ io.phase \in {"idle", "wait"} /\ io' = [io EXCEPT !.phase = "exit"]
      /\ UNCHANGED <<cache, newer, clusters, modified, loads, todo, disk>>
    BY DEF Fail, Waiting
<1>2. /\ io'.phase = "exit" /\ io'.cur = io.cur /\ io'.index = io.index
      /\ io'.sector = io.sector /\ io'.count = io.count
    BY <1>1 DEF NTypeOK, IoType
<1>3. NTypeOK'
    <2>1. io' \in IoType
        BY <1>1 DEF NTypeOK, IoType, Phases
    <2> QED BY <1>1, <2>1 DEF NTypeOK
<1>4. InImage' /\ Quiet' /\ Loading' = Loading
    BY <1>1, <1>2 DEF InImage, Quiet, Left, Loading
<1>5. DownloadsValid' /\ Expected' /\ ResumeExact'
    BY <1>1, <1>2, <1>4 DEF DownloadsValid, Expected, ResumeExact
<1> QED BY <1>3, <1>4, <1>5

LEMMA StructureStep == Structure /\ [NetNext]_nvars => Structure'
<1> SUFFICES ASSUME Structure, [NetNext]_nvars PROVE Structure'
    OBVIOUS
<1>1. CASE UNCHANGED nvars
    BY <1>1 DEF nvars, Structure, NTypeOK, InImage, Left, Quiet, DownloadsValid, Loading,
                Expected, ResumeExact
<1>2. CASE Open
    BY <1>2, PrefetchBlockKeeps, PrefetchGroupKeeps, PrefetchDoneKeeps DEF Open
<1>3. CASE Run
    BY <1>3, RwClusterKeeps, RwBlockKeeps, RwAllocateKeeps, RwWaitKeeps, RwLoadKeeps, RwEndKeeps
       DEF Run
<1>4. CASE Network
    BY <1>4, ArriveKeeps, UpdateBlockKeeps DEF Network
<1>5. CASE \E r \in Requests : Submit(r)
    BY <1>5, SubmitKeeps
<1>6. CASE \E g \in loads : Fail(g)
    BY <1>6, FailKeeps
<1>7. CASE Ended
    BY <1>1, <1>7 DEF Ended
<1> QED BY <1>1, <1>2, <1>3, <1>4, <1>5, <1>6, <1>7 DEF NetNext

LEMMA StructureHolds == NetSpec => []Structure
    BY StructureInit, StructureStep, PTL DEF NetSpec

\* The cache, the downloads and the request keep their types: no turn of the
\* loop of bf_rw_async1 leaves the image or the request.
THEOREM NetTypeCorrect == NetSpec => []NTypeOK
<1>1. Structure => NTypeOK
    BY DEF Structure
<1> QED BY <1>1, StructureHolds, PTL

\* For every list of groups and every cache size, the pointers that downloads
\* hold stay valid: no block is freed or asked for again while it is on its way.
THEOREM DownloadsSafe == NetSpec => []DownloadsValid
<1>1. Structure => DownloadsValid
    BY DEF Structure
<1> QED BY <1>1, StructureHolds, PTL

\* cur_block_num, although stale after a write, never resumes a request that
\* does not wait, and a request that waits has its block on the way.
THEOREM ResumeSafe == NetSpec => []ResumeExact
<1>1. Structure => ResumeExact
    BY DEF Structure
<1> QED BY <1>1, StructureHolds, PTL

-----------------------------------------------------------------------------
(* The data: what requests store and return *)

\* The sectors the current request has still to pass
Ahead == io.sector .. io.sector + Left - 1

\* The data of a write is the data the disk should hold.
Storing == io.write => \A s \in Ahead : disk[s] = io.data

\* What the i-th sector of a read has to return
Due(i) == IF Shadowed(i) THEN Image[FirstSector + i] ELSE disk[FirstSector + i]

\* A read in progress has returned what is due, and has left unwritten
\* sectors behind only in blocks it has passed.
Fetched ==
    io.phase \in {"run", "wait"} /\ ~io.write =>
        /\ \A i \in 0 .. io.index - 1 : io.buf[i] = Due(i)
        /\ Left > 0 =>
              \A t \in FirstSector .. io.sector - 1 :
                  BlockOf(t) = BlockOf(io.sector) => Written(ClusterOf(t))

Contract == Structure /\ WritesKept /\ Storing /\ Fetched

\* A request outside its loop has nothing left to store.
LEMMA UnstoredIs == Structure => Unstored = IF io.write THEN Ahead ELSE {}
<1> SUFFICES ASSUME Structure PROVE Unstored = IF io.write THEN Ahead ELSE {}
    OBVIOUS
<1>1. CASE io.phase \in {"run", "wait", "exit"}
    BY <1>1 DEF Unstored, Ahead
<1>2. CASE io.phase \in {"init", "idle"}
    <2>1. Left = 0 /\ io.sector \in Int
        BY <1>2 DEF Structure, Quiet, NTypeOK, IoType
    <2>2. Ahead = {}
        BY <2>1 DEF Ahead
    <2> QED BY <1>2, <2>2 DEF Unstored
<1> QED BY <1>1, <1>2 DEF Structure, NTypeOK, IoType, Phases

\* Sectors as numbers
LEMMA Numbers ==
    ASSUME Structure
    PROVE  /\ io.sector \in Nat /\ io.index \in Nat /\ io.count \in Nat /\ Left \in Nat
           /\ FirstSector \in Nat /\ NSectors \in Nat
           /\ io.sector + Left <= NSectors
<1>1. NSectors \in Nat
    BY SizeAssumption DEF NSectors
<1> QED BY <1>1 DEF Structure, NTypeOK, IoType, InImage, Left, FirstSector

LEMMA ContractInit == NetInit => Contract
<1> SUFFICES ASSUME NetInit PROVE Contract
    OBVIOUS
<1>1. Structure
    BY StructureInit
<1>2. WritesKept
    BY DEF NetInit, WritesKept, Contents, Written
<1>3. Storing /\ Fetched
    BY DEF NetInit, Storing, Fetched
<1> QED BY <1>1, <1>2, <1>3 DEF Contract

\* A step that leaves the data and the place of the request alone
LEMMA SameData ==
    ASSUME Contract, Structure', UNCHANGED <<clusters, modified, disk>>,
           io'.write = io.write, io'.sector = io.sector, io'.index = io.index,
           io'.count = io.count, io'.data = io.data,
           io'.phase \in {"run", "wait"} => io.phase \in {"run", "wait"} /\ io'.buf = io.buf
    PROVE  Contract'
<1> USE DEF Contract
<1>1. Unstored' = Unstored
    <2>1. Unstored = IF io.write THEN Ahead ELSE {}
        BY UnstoredIs
    <2>2. (Unstored = IF io.write THEN Ahead ELSE {})'
        BY UnstoredIs, PTL
    <2>3. Ahead' = Ahead
        BY DEF Ahead, Left
    <2> QED BY <2>1, <2>2, <2>3
<1>2. WritesKept'
    BY <1>1 DEF WritesKept, Contents, Written
<1>3. Storing'
    BY DEF Storing, Ahead, Left
<1>4. Fetched'
    BY DEF Fetched, Due, Shadowed, Written, FirstSector, Left
<1> QED BY <1>2, <1>3, <1>4

\* Opening the image and the network move no data of a request.
LEMMA OpenData == Contract /\ Structure' /\ Open => Contract'
<1> SUFFICES ASSUME Contract, Structure', Open PROVE Contract'
    OBVIOUS
<1>1. /\ UNCHANGED <<clusters, modified, disk>> /\ io'.write = io.write
      /\ io'.sector = io.sector /\ io'.index = io.index /\ io'.count = io.count
      /\ io'.data = io.data /\ io'.phase \notin {"run", "wait"}
    BY ZenonT(60) DEF Open, PrefetchBlock, PrefetchGroup, PrefetchDone, Opening, Contract, Structure,
           NTypeOK, IoType
<1> QED BY <1>1, SameData

LEMMA NetworkData ==
    Contract /\ Structure' /\ (Network \/ \E g \in loads : Fail(g)) => Contract'
<1> SUFFICES ASSUME Contract, Structure', Network \/ \E g \in loads : Fail(g) PROVE Contract'
    OBVIOUS
<1> USE DEF Contract, Structure
<1>1. CASE \E g \in loads : Arrive(g)
    <2>1. /\ UNCHANGED <<clusters, modified, disk>> /\ io' = [io EXCEPT !.nested = FALSE]
        BY <1>1 DEF Arrive
    <2>2. /\ io'.write = io.write /\ io'.sector = io.sector /\ io'.index = io.index
          /\ io'.count = io.count /\ io'.data = io.data /\ io'.buf = io.buf
          /\ io'.phase = io.phase
        BY <2>1 DEF NTypeOK, IoType
    <2> QED BY <2>1, <2>2, SameData
<1>2. CASE UpdateBlock
    <2>1. PICK b \in todo :
              io' = [io EXCEPT !.nested = FALSE, !.phase = IF b = io.cur THEN "run" ELSE @]
        BY <1>2 DEF UpdateBlock
    <2>2. /\ io'.write = io.write /\ io'.sector = io.sector /\ io'.index = io.index
          /\ io'.count = io.count /\ io'.data = io.data /\ io'.buf = io.buf
          /\ io'.phase = IF b = io.cur THEN "run" ELSE io.phase
        BY <2>1 DEF NTypeOK, IoType
    <2>3. b = io.cur => io.phase = "wait"
        BY <1>2 DEF UpdateBlock, DownloadsValid, ResumeExact
    <2>4. UNCHANGED <<clusters, modified, disk>>
        BY <1>2 DEF UpdateBlock
    <2> QED BY <2>2, <2>3, <2>4, SameData
<1>3. CASE \E g \in loads : Fail(g)
    <2>1. /\ UNCHANGED <<clusters, modified, disk>> /\ io' = [io EXCEPT !.phase = "exit"]
        BY <1>3 DEF Fail
    <2>2. /\ io'.write = io.write /\ io'.sector = io.sector /\ io'.index = io.index
          /\ io'.count = io.count /\ io'.data = io.data /\ io'.phase = "exit"
        BY <2>1 DEF NTypeOK, IoType
    <2> QED BY <2>1, <2>2, SameData
<1> QED BY <1>1, <1>2, <1>3 DEF Network

\* A request that starts to wait, or ends, keeps its place.
LEMMA PauseData == Contract /\ Structure' /\ (RwWait \/ RwLoad \/ RwEnd) => Contract'
<1> SUFFICES ASSUME Contract, Structure', RwWait \/ RwLoad \/ RwEnd PROVE Contract'
    OBVIOUS
<1> USE DEF Contract, Structure
<1>1. CASE RwWait \/ RwLoad
    <2>1. /\ UNCHANGED <<clusters, modified, disk>> /\ io.phase = "run"
          /\ io' = [io EXCEPT !.phase = "wait", !.cur = BlockOf(io.sector)]
        BY <1>1 DEF RwWait, RwLoad, Rw
    <2>2. /\ io'.write = io.write /\ io'.sector = io.sector /\ io'.index = io.index
          /\ io'.count = io.count /\ io'.data = io.data /\ io'.buf = io.buf
        BY <2>1 DEF NTypeOK, IoType
    <2> QED BY <2>1, <2>2, SameData
<1>2. CASE RwEnd
    <2>1. /\ UNCHANGED <<clusters, modified, disk>>
          /\ io' = [io EXCEPT !.phase = "idle", !.nested = TRUE,
                              !.buf = [i \in Sectors |-> Junk]]
        BY <1>2 DEF RwEnd
    <2>2. /\ io'.write = io.write /\ io'.sector = io.sector /\ io'.index = io.index
          /\ io'.count = io.count /\ io'.data = io.data /\ io'.phase = "idle"
        BY <2>1 DEF NTypeOK, IoType
    <2> QED BY <2>1, <2>2, SameData
<1> QED BY <1>1, <1>2

\* The first write to a cluster copies what the server holds.
LEMMA AllocateData == Contract /\ Structure' /\ RwAllocate => Contract'
<1> SUFFICES ASSUME Contract, Structure', RwAllocate PROVE Contract'
    OBVIOUS
<1> USE DEF Contract
<1>1. /\ io.phase = "run" /\ io.write /\ ~Written(InCluster) /\ BlockOf(io.sector) \in Loaded
      /\ clusters' = clusters \cup {InCluster}
      /\ modified' = [s \in Sectors |-> IF ClusterOf(s) = InCluster
                                        THEN BlockData(s) ELSE modified[s]]
      /\ io' = [io EXCEPT !.cur = BlockOf(io.sector)] /\ disk' = disk
    BY DEF RwAllocate, Rw
<1>2. /\ io'.write = io.write /\ io'.sector = io.sector /\ io'.index = io.index
      /\ io'.count = io.count /\ io'.data = io.data /\ io'.phase = io.phase
    BY <1>1 DEF Structure, NTypeOK, IoType
<1>3. Unstored' = Unstored
    BY <1>2 DEF Unstored, Left
<1>4. ASSUME NEW s \in Sectors PROVE Contents(s)' = Contents(s)
    <2>1. CASE ClusterOf(s) = InCluster
        <3>1. s \in Nat /\ io.sector \in Nat
            BY Numbers DEF Sectors
        <3>2. BlockOf(s) = BlockOf(io.sector)
            BY <2>1, <3>1, ClusterInBlock DEF InCluster
        <3>3. BlockData(s) = Image[s]
            BY <1>1, <3>2 DEF BlockData, Loaded
        <3> QED BY <1>1, <2>1, <3>3 DEF Contents, Written
    <2>2. CASE ClusterOf(s) # InCluster
        BY <1>1, <2>2 DEF Contents, Written
    <2> QED BY <2>1, <2>2
<1>5. WritesKept'
    BY <1>1, <1>3, <1>4 DEF WritesKept
<1>6. Storing'
    BY <1>1, <1>2 DEF Storing, Ahead, Left
<1>7. Fetched'
    BY <1>1, <1>2 DEF Fetched
<1> QED BY <1>5, <1>6, <1>7

\* A request that is recorded has everything still to pass.
LEMMA SubmitData ==
    ASSUME Contract, Structure', NEW req \in Requests, Submit(req)
    PROVE  Contract'
<1> USE DEF Contract
<1>1. /\ io.phase = "idle" /\ UNCHANGED <<clusters, modified>>
      /\ io' = [io EXCEPT !.phase = "run", !.write = req.write, !.sector = req.first,
                          !.index = 0, !.count = req.count, !.data = req.data]
      /\ disk' = IF req.write
                 THEN [s \in Sectors |-> IF s \in req.first .. req.first + req.count - 1
                                         THEN req.data ELSE disk[s]]
                 ELSE disk
    BY DEF Submit
<1>2. /\ req.first \in Nat /\ req.count \in Nat /\ req.first + req.count <= NSectors
      /\ NSectors \in Nat
    BY DataAssumption, Numbers DEF RequestType, Sectors
<1>3. /\ io'.phase = "run" /\ io'.write = req.write /\ io'.sector = req.first
      /\ io'.index = 0 /\ io'.count = req.count /\ io'.data = req.data
    BY <1>1 DEF Structure, NTypeOK, IoType
<1>4. /\ Left' = req.count /\ Ahead' = req.first .. req.first + req.count - 1
      /\ Unstored' = IF req.write THEN req.first .. req.first + req.count - 1 ELSE {}
    BY <1>2, <1>3 DEF Left, Ahead, Unstored
<1>5. \A s \in Sectors : Contents(s) = disk[s]
    BY <1>1 DEF WritesKept, Unstored
<1>6. WritesKept'
    <2>1. ASSUME NEW s \in Sectors PROVE Contents(s)' = Contents(s)
        BY <1>1 DEF Contents, Written
    <2> QED BY <1>1, <1>4, <1>5, <2>1 DEF WritesKept
<1>7. Storing'
    <2>1. ASSUME NEW s \in Ahead' PROVE s \in Sectors
        BY <1>2, <1>4 DEF Sectors
    <2> QED BY <1>1, <1>3, <1>4, <2>1 DEF Storing
<1>8. Fetched'
    <2>1. /\ 0 .. io'.index - 1 = {}
          /\ FirstSector' .. io'.sector - 1 = {}
        BY <1>2, <1>3 DEF FirstSector
    <2> QED BY <2>1 DEF Fetched
<1> QED BY <1>6, <1>7, <1>8

\* From io.sector on, n sectors stay in its unit of d sectors.
LEMMA ChunkUnit ==
    ASSUME Structure, NEW d \in Nat \ {0}, NEW n \in Nat, n <= d - (io.sector % d),
           NEW t \in io.sector .. io.sector + n - 1
    PROVE  t \div d = io.sector \div d
<1>1. io.sector \in Nat /\ io.sector % d \in 0 .. d - 1
    BY Numbers, SMT
<1>2. t \in io.sector .. io.sector + (d - (io.sector % d)) - 1
    BY <1>1, SMT
<1> QED BY <1>1, <1>2, SameUnit

\* The i-th sector of the request, i in the step, is a sector of the step.
LEMMA ChunkSector ==
    ASSUME Structure, NEW n \in Nat, NEW i \in Chunk(n)
    PROVE  FirstSector + i \in io.sector .. io.sector + n - 1
<1>1. io.sector \in Nat /\ io.index \in Nat
    BY Numbers
<1> QED BY <1>1 DEF Chunk, FirstSector

\* A write to a written cluster
LEMMA ClusterWriteData == Contract /\ Structure' /\ RwCluster /\ io.write => Contract'
<1> SUFFICES ASSUME Contract, Structure', RwCluster, io.write PROVE Contract'
    OBVIOUS
<1> USE DEF Contract
<1> DEFINE n == Least(Left, ClusterSize - (io.sector % ClusterSize))
<1>1. /\ Rw /\ io.phase = "run" /\ Written(InCluster) /\ UNCHANGED <<clusters, disk>>
      /\ modified' = [s \in Sectors |-> IF s \in io.sector .. io.sector + n - 1
                                        THEN io.data ELSE modified[s]]
      /\ io' = Advance(n)
    BY DEF RwCluster, Rw
<1>2. n \in 1 .. Left /\ n <= ClusterSize - (io.sector % ClusterSize)
    BY <1>1, Pace, SizeAssumption DEF Structure
<1> HIDE DEF n
<1>3. /\ io'.phase = "run" /\ io'.write = io.write /\ io'.data = io.data
      /\ io'.index = io.index + n /\ io'.sector = io.sector + n /\ io'.count = io.count
    BY <1>1 DEF Advance, Structure, NTypeOK, IoType
<1>4. /\ io.sector \in Nat /\ io.index \in Nat /\ io.count \in Nat /\ Left \in Nat
      /\ n \in Nat /\ Left = io.count - io.index
    BY <1>2, Numbers DEF Left
<1>5. /\ Left' = Left - n
      /\ Unstored = io.sector .. io.sector + Left - 1
      /\ Unstored' = io.sector + n .. io.sector + Left - 1
      /\ Ahead = io.sector .. io.sector + Left - 1
      /\ Ahead' = io.sector + n .. io.sector + Left - 1
    <2>1. Left' = Left - n
        BY <1>3, <1>4 DEF Left
    <2>2. io.sector + n + (Left - n) - 1 = io.sector + Left - 1
        BY <1>4
    <2> QED BY <1>1, <1>3, <2>1, <2>2 DEF Unstored, Ahead
<1>6. ASSUME NEW s \in Sectors \ Unstored' PROVE Contents(s)' = disk'[s]
    <2>1. CASE s \in io.sector .. io.sector + n - 1
        <3>1. ClusterOf(s) = InCluster
            BY <1>2, <1>4, <2>1, ChunkUnit, SizeAssumption DEF ClusterOf, InCluster
        <3>2. s \in Ahead
            BY <1>2, <1>4, <1>5, <2>1
        <3>3. disk[s] = io.data
            BY <3>2 DEF Storing
        <3> QED BY <1>1, <2>1, <3>1, <3>3 DEF Contents, Written
    <2>2. CASE s \notin io.sector .. io.sector + n - 1
        <3>1. s \notin Unstored
            BY <1>2, <1>4, <1>5, <2>2, SMTT(30) DEF Sectors
        <3>2. Contents(s) = disk[s]
            BY <3>1 DEF WritesKept
        <3> QED BY <1>1, <2>2, <3>2 DEF Contents, Written
    <2> QED BY <2>1, <2>2
<1>7. WritesKept'
    BY <1>6 DEF WritesKept
<1>8. Storing'
    BY <1>1, <1>2, <1>3, <1>4, <1>5 DEF Storing
<1>9. Fetched'
    BY <1>3 DEF Fetched
<1> QED BY <1>7, <1>8, <1>9

\* A turn of the loop of a read that returns what is due keeps the contract.
LEMMA ReadData ==
    ASSUME Contract, Structure', Rw, ~io.write, NEW n \in 1 .. Left,
           UNCHANGED <<clusters, modified, disk>>,
           io'.phase = "run", io'.write = io.write, io'.index = io.index + n,
           io'.sector = io.sector + n, io'.count = io.count,
           \A i \in Chunk(n) : io'.buf[i] = Due(i),
           \A i \in Sectors \ Chunk(n) : io'.buf[i] = io.buf[i],
           n < Left => \A t \in FirstSector .. io.sector + n - 1 :
                           BlockOf(t) = BlockOf(io.sector + n) => Written(ClusterOf(t))
    PROVE  Contract'
<1> USE DEF Contract
<1>1. /\ io.sector \in Nat /\ io.index \in Nat /\ io.count \in Nat /\ Left \in Nat
      /\ n \in Nat /\ Left = io.count - io.index /\ NSectors \in Nat
      /\ io.index + n <= io.count /\ io.count <= NSectors
    BY Numbers DEF Left, Structure, NTypeOK, IoType
<1>2. FirstSector' = FirstSector /\ Left' = Left - n
    BY <1>1 DEF FirstSector, Left
<1>3. Unstored = {} /\ Unstored' = {}
    BY DEF Unstored
<1>4. WritesKept'
    BY <1>3 DEF WritesKept, Contents, Written
<1>5. Storing'
    BY DEF Storing
<1>6. ASSUME NEW i \in 0 .. io'.index - 1 PROVE io'.buf[i] = Due(i)'
    <2>1. Due(i)' = Due(i)
        BY <1>2 DEF Due, Shadowed, Written
    <2>2. CASE i \in Chunk(n)
        BY <2>1, <2>2
    <2>3. CASE i \notin Chunk(n)
        <3>1. i \in 0 .. io.index - 1 /\ i \in Sectors
            BY <1>1, <2>3 DEF Chunk, Sectors
        <3>2. io.buf[i] = Due(i)
            BY <3>1 DEF Fetched, Rw
        <3> QED BY <2>1, <2>3, <3>1, <3>2
    <2> QED BY <2>2, <2>3
<1>7. Left' > 0 =>
          \A t \in FirstSector' .. io'.sector - 1 :
              BlockOf(t) = BlockOf(io'.sector) => Written(ClusterOf(t))'
    BY <1>1, <1>2 DEF Written
<1>8. Fetched'
    BY <1>6, <1>7 DEF Fetched
<1> QED BY <1>4, <1>5, <1>8

\* A read of a written cluster: what is behind in its block is all written, so
\* the data of the cluster is due.
LEMMA ClusterReadData == Contract /\ Structure' /\ RwCluster /\ ~io.write => Contract'
<1> SUFFICES ASSUME Contract, Structure', RwCluster, ~io.write PROVE Contract'
    OBVIOUS
<1> USE DEF Contract
<1> DEFINE n == Least(Left, ClusterSize - (io.sector % ClusterSize))
           got == [i \in Sectors |-> IF i \in Chunk(n)
                                     THEN modified[FirstSector + i] ELSE io.buf[i]]
<1>1. /\ Rw /\ io.phase = "run" /\ Written(InCluster) /\ UNCHANGED <<clusters, modified, disk>>
      /\ io' = [Advance(n) EXCEPT !.buf = got]
    BY DEF RwCluster, Rw
<1>2. /\ n \in 1 .. Left /\ n <= ClusterSize - (io.sector % ClusterSize)
      /\ io.index + n \in 0 .. NSectors
    BY <1>1, Pace, SizeAssumption DEF Structure
<1> HIDE DEF n
<1>3. /\ io'.phase = "run" /\ io'.write = io.write /\ io'.buf = got
      /\ io'.index = io.index + n /\ io'.sector = io.sector + n /\ io'.count = io.count
    <2> HIDE DEF got
    <2> QED BY <1>1 DEF Advance, Structure, NTypeOK, IoType
<1>4. /\ io.sector \in Nat /\ n \in Nat /\ FirstSector \in Nat /\ io.index \in Nat
      /\ Left \in Nat /\ NSectors \in Nat
    BY <1>2, Numbers
<1>5. ASSUME NEW t \in io.sector .. io.sector + n - 1
      PROVE  t \in Nat /\ Written(ClusterOf(t)) /\ BlockOf(t) = BlockOf(io.sector)
    <2>1. ClusterOf(t) = InCluster /\ t \in Nat
        BY <1>2, <1>4, ChunkUnit, SizeAssumption DEF ClusterOf, InCluster
    <2> QED BY <1>1, <1>4, <2>1, ClusterInBlock DEF InCluster
<1>6. ASSUME NEW t \in FirstSector .. io.sector + n - 1, BlockOf(t) = BlockOf(io.sector)
      PROVE  Written(ClusterOf(t))
    <2>1. CASE t \in FirstSector .. io.sector - 1
        BY <1>1, <1>6, <2>1 DEF Fetched, Rw
    <2>2. CASE t \in io.sector .. io.sector + n - 1
        BY <1>5, <2>2
    <2> QED BY <1>4, <2>1, <2>2
<1>7. ASSUME NEW i \in Chunk(n) PROVE io'.buf[i] = Due(i)
    <2> DEFINE s == FirstSector + i
    <2>1. s \in io.sector .. io.sector + n - 1 /\ i \in Sectors /\ s \in Sectors
        <3>1. s \in io.sector .. io.sector + n - 1
            BY <1>4, ChunkSector
        <3>2. s \in Sectors
            BY <1>1, <1>2, Moved DEF Structure
        <3>3. i \in Sectors
            BY <1>2, <1>4 DEF Chunk, Sectors
        <3> QED BY <3>1, <3>2, <3>3
    <2> HIDE DEF s
    <2>2. Written(ClusterOf(s)) /\ BlockOf(s) = BlockOf(io.sector)
        BY <1>5, <2>1
    <2>3. \A t \in FirstSector .. s : BlockOf(t) = BlockOf(s) => Written(ClusterOf(t))
        <3>1. \A t \in FirstSector .. s : t \in FirstSector .. io.sector + n - 1
            BY <1>4, <2>1
        <3> QED BY <1>6, <2>2, <3>1
    <2>4. ~Shadowed(i)
        BY <2>3 DEF Shadowed, s
    <2>5. modified[s] = disk[s]
        <3>1. Unstored = {}
            BY DEF Unstored
        <3> QED BY <2>1, <2>2, <3>1 DEF WritesKept, Contents
    <2> QED BY <1>3, <2>1, <2>4, <2>5 DEF Due, s
<1>8. \A i \in Sectors \ Chunk(n) : io'.buf[i] = io.buf[i]
    BY <1>3
<1>9. ASSUME NEW t \in FirstSector .. io.sector + n - 1, BlockOf(t) = BlockOf(io.sector + n)
      PROVE  Written(ClusterOf(t))
    <2>1. CASE t \in io.sector .. io.sector + n - 1
        BY <1>5, <2>1
    <2>2. CASE t \in FirstSector .. io.sector - 1
        <3>1. /\ t \in Nat /\ io.sector + n \in Nat /\ t <= io.sector
              /\ io.sector <= io.sector + n /\ BlockSize \in Nat \ {0}
            BY <1>4, <2>2, SizeAssumption
        <3>2. BlockOf(t) <= BlockOf(io.sector) /\ BlockOf(io.sector) <= BlockOf(io.sector + n)
            BY <1>4, <3>1, DivMonotone DEF BlockOf
        <3>3. BlockOf(t) \in Int /\ BlockOf(io.sector) \in Int
            BY <1>4, <3>1 DEF BlockOf
        <3>4. BlockOf(t) = BlockOf(io.sector)
            BY <1>9, <3>2, <3>3
        <3> QED BY <1>6, <3>4
    <2> QED BY <1>4, <2>1, <2>2
<1> QED BY <1>1, <1>2, <1>3, <1>7, <1>8, <1>9, ReadData

\* A read of unwritten data: the block is the server's, and so is the disk
\* where no cluster shadows it; the next turn starts in another block.
LEMMA BlockReadData == Contract /\ Structure' /\ RwBlock => Contract'
<1> SUFFICES ASSUME Contract, Structure', RwBlock PROVE Contract'
    OBVIOUS
<1> USE DEF Contract
<1> DEFINE n == Least(Left, BlockSize - (io.sector % BlockSize))
           got == [i \in Sectors |-> IF i \in Chunk(n)
                                     THEN BlockData(FirstSector + i) ELSE io.buf[i]]
<1>1. /\ Rw /\ io.phase = "run" /\ ~io.write /\ ~Written(InCluster)
      /\ BlockOf(io.sector) \in Loaded
      /\ UNCHANGED <<clusters, modified, disk>>
      /\ io' = [Advance(n) EXCEPT !.cur = NoBlock, !.buf = got]
    BY DEF RwBlock, Rw
<1>2. /\ n \in 1 .. Left /\ n <= BlockSize - (io.sector % BlockSize)
      /\ io.index + n \in 0 .. NSectors
    BY <1>1, Pace, SizeAssumption DEF Structure
<1>3. n < Left => n = BlockSize - (io.sector % BlockSize)
    <2>1. Left \in Nat
        BY Numbers
    <2> QED BY <2>1 DEF Least
<1> HIDE DEF n
<1>4. /\ io'.phase = "run" /\ io'.write = io.write /\ io'.buf = got
      /\ io'.index = io.index + n /\ io'.sector = io.sector + n /\ io'.count = io.count
    <2> HIDE DEF got
    <2> QED BY <1>1 DEF Advance, Structure, NTypeOK, IoType
<1>5. /\ io.sector \in Nat /\ n \in Nat /\ FirstSector \in Nat /\ io.index \in Nat
      /\ Left \in Nat /\ NSectors \in Nat /\ FirstSector <= io.sector
    <2>1. FirstSector <= io.sector
        BY Numbers DEF FirstSector
    <2> QED BY <1>2, <2>1, Numbers
<1>6. ASSUME NEW t \in io.sector .. io.sector + n - 1 PROVE BlockOf(t) = BlockOf(io.sector)
    BY <1>2, <1>5, ChunkUnit, SizeAssumption DEF BlockOf
<1>7. ASSUME NEW i \in Chunk(n) PROVE io'.buf[i] = Due(i)
    <2> DEFINE s == FirstSector + i
    <2>1. s \in io.sector .. io.sector + n - 1 /\ i \in Sectors /\ s \in Sectors
        <3>1. s \in io.sector .. io.sector + n - 1
            BY <1>5, ChunkSector
        <3>2. s \in Sectors
            BY <1>1, <1>2, Moved DEF Structure
        <3>3. i \in Sectors
            BY <1>2, <1>5 DEF Chunk, Sectors
        <3> QED BY <3>1, <3>2, <3>3
    <2>2. io'.buf[i] = BlockData(s)
        BY <1>4, <2>1
    <2> HIDE DEF s
    <2>3. BlockData(s) = Image[s] /\ BlockOf(s) = BlockOf(io.sector)
        BY <1>1, <1>6, <2>1 DEF BlockData, Loaded
    <2>4. CASE Written(ClusterOf(s))
        <3>1. io.sector \in FirstSector .. s
            BY <1>5, <2>1
        <3>2. Shadowed(i)
            BY <1>1, <2>3, <2>4, <3>1 DEF Shadowed, InCluster, s
        <3> QED BY <2>2, <2>3, <3>2 DEF Due, s
    <2>5. CASE ~Written(ClusterOf(s))
        <3>1. ~Shadowed(i)
            BY <2>5 DEF Shadowed, s
        <3>2. Unstored = {}
            BY <1>1 DEF Unstored
        <3>3. disk[s] = Image[s]
            BY <2>1, <2>5, <3>2 DEF WritesKept, Contents
        <3> QED BY <2>2, <2>3, <3>1, <3>3 DEF Due, s
    <2> QED BY <2>4, <2>5
<1>8. \A i \in Sectors \ Chunk(n) : io'.buf[i] = io.buf[i]
    BY <1>4
<1>9. ASSUME n < Left, NEW t \in FirstSector .. io.sector + n - 1
      PROVE  BlockOf(t) # BlockOf(io.sector + n)
    <2>1. BlockOf(io.sector + n) = BlockOf(io.sector) + 1
        BY <1>3, <1>5, <1>9, NextUnit, SizeAssumption DEF BlockOf
    <2>2. BlockOf(t) <= BlockOf(io.sector)
        <3>1. CASE t \in io.sector .. io.sector + n - 1
            BY <1>5, <1>6, <3>1, SizeAssumption, SMTT(30) DEF BlockOf
        <3>2. CASE t \in FirstSector .. io.sector - 1
            <4>1. t \in Nat /\ t <= io.sector /\ BlockSize \in Nat \ {0}
                BY <1>5, <3>2, SizeAssumption
            <4> QED BY <1>5, <4>1, DivMonotone DEF BlockOf
        <3> QED BY <1>5, <3>1, <3>2
    <2>3. BlockOf(io.sector) \in Int /\ BlockOf(t) \in Int
        BY <1>5, SizeAssumption DEF BlockOf
    <2> QED BY <2>1, <2>2, <2>3
<1> QED BY <1>1, <1>2, <1>4, <1>7, <1>8, <1>9, ReadData

LEMMA ContractStep == Contract /\ [NetNext]_nvars => Contract'
<1> SUFFICES ASSUME Contract, [NetNext]_nvars PROVE Contract'
    OBVIOUS
<1>1. Structure'
    BY StructureStep DEF Contract
<1>2. CASE UNCHANGED nvars
    <2>1. UNCHANGED <<clusters, modified, disk>> /\ io' = io
        BY <1>2 DEF nvars
    <2> QED BY <1>1, <2>1, SameData
<1>3. CASE Open
    BY <1>1, <1>3, OpenData
<1>4. CASE Run
    BY <1>1, <1>4, ClusterWriteData, ClusterReadData, BlockReadData, AllocateData, PauseData
       DEF Run
<1>5. CASE Network \/ \E g \in loads : Fail(g)
    BY <1>1, <1>5, NetworkData
<1>6. CASE \E r \in Requests : Submit(r)
    BY <1>1, <1>6, SubmitData
<1>7. CASE Ended
    BY <1>2, <1>7 DEF Ended
<1> QED BY <1>2, <1>3, <1>4, <1>5, <1>6, <1>7 DEF NetNext

LEMMA ContractHolds == NetSpec => []Contract
    BY ContractInit, ContractStep, PTL DEF NetSpec

\* Whatever is evicted, downloaded again and waited for in between, the written
\* clusters and the server's image together hold what was written.
THEOREM WritesSafe == NetSpec => []WritesKept
<1>1. Contract => WritesKept
    BY DEF Contract
<1> QED BY <1>1, ContractHolds, PTL

\* A read that ends returns, sector by sector, the data written last, or the
\* server's where bf_rw_async1 copies past a written cluster.
THEOREM ReadsSafe == NetSpec => []ReadsExact
<1>1. Contract => ReadsExact
    <2> SUFFICES ASSUME Contract, io.phase = "run", Left = 0, ~io.write,
                        NEW i \in 0 .. io.count - 1
                 PROVE  io.buf[i] = Due(i)
        BY DEF ReadsExact, Due
    <2>1. io.index = io.count
        BY Numbers DEF Contract, Left
    <2> QED BY <2>1 DEF Contract, Fetched
<1> QED BY <1>1, ContractHolds, PTL

=============================================================================

------------------------------ MODULE BlockNet ------------------------------
(***************************************************************************)
(* The HTTP block device (temu/block_net.c): a disk image cut into blocks  *)
(* that are downloaded on demand, a cache of blocks with least recently    *)
(* used replacement, blocks fetched ahead in groups when the image is      *)
(* opened, and the guest's writes kept aside in clusters, never sent back. *)
(*                                                                         *)
(* The program is one thread.  A request runs the loop of bf_rw_async1     *)
(* inside read_async or write_async until it ends or has to wait for a     *)
(* block; the arrival of a block runs it again.  One turn of that loop is  *)
(* one step here (io.phase = "run"), during which nothing else happens.    *)
(* The caller (virtio.c) has one request in progress at a time, and may    *)
(* start the next one inside the callback that ends a request.             *)
(***************************************************************************)
EXTENDS Integers, Sequences, FiniteSets

CONSTANTS
    NBlocks,       \* blocks of the image
    BlockSize,     \* sectors of a block
    ClusterSize,   \* sectors of a cluster (8 in the code)
    CacheMax,      \* n_cached_blocks_max
    Prefetch,      \* the groups of blocks the image file asks for
    Image,         \* what the server holds: sector -> value
    Vals,          \* contents of a sector
    Junk,          \* the contents of a block that has not arrived
    Requests       \* what the caller asks for

Blocks == 0 .. NBlocks - 1
NSectors == NBlocks * BlockSize
Sectors == 0 .. NSectors - 1

ClusterOf(s) == s \div ClusterSize
BlockOf(s) == s \div BlockSize
Clusters == {ClusterOf(s) : s \in Sectors}

\* count sectors from first on; a write stores data in each of them.
RequestType == [write : BOOLEAN, first : Sectors, count : 1 .. NSectors, data : Vals]

ASSUME SizeAssumption ==
    /\ NBlocks \in Nat \ {0} /\ CacheMax \in Nat \ {0}
    /\ BlockSize \in Nat \ {0} /\ ClusterSize \in Nat \ {0}

\* Both sizes are powers of two and a cluster is "smaller than cached blocks".
ASSUME ClusterAssumption == BlockSize % ClusterSize = 0

ASSUME DataAssumption ==
    /\ Image \in [Sectors -> Vals] /\ Junk \notin Vals
    /\ Prefetch \in Seq(SUBSET Blocks)
    /\ Requests \subseteq RequestType
    /\ \A r \in Requests : r.first + r.count <= NSectors

VARIABLES
    cache,      \* state of each block: "none", "loading" or "loaded"
    newer,      \* the order of the list: <<a, b>> if a was used after b
    clusters,   \* the written clusters
    modified,   \* the data of the written clusters: sector -> value
    loads,      \* downloads under way, each the set of blocks it will bring
    todo,       \* blocks the running callback has still to look at
    io,         \* the current request
    disk        \* history: what the disk should hold

nvars == <<cache, newer, clusters, modified, loads, todo, io, disk>>

NoBlock == -1

Phases == {"init", "idle", "run", "wait", "exit"}

\* next and ask: the group of Prefetch at hand and the blocks of it that have
\* to be downloaded, while phase is "init"; nested: the caller is inside the
\* callback that has ended its request.
IoType == [phase : Phases, next : Nat, ask : SUBSET Blocks, nested : BOOLEAN,
           write : BOOLEAN, sector : 0 .. NSectors, index : 0 .. NSectors,
           count : 0 .. NSectors, data : Vals \cup {Junk},
           buf : [Sectors -> Vals \cup {Junk}], cur : Blocks \cup {NoBlock}]

-----------------------------------------------------------------------------
(* The cache *)

Cached == {b \in Blocks : cache[b] # "none"}
Loading == {b \in Blocks : cache[b] = "loading"}
Loaded == {b \in Blocks : cache[b] = "loaded"}

\* b goes to the front of the list, the blocks of set out leave it.
Touch(b, out) ==
    newer' = {p \in newer : p[1] # b /\ p[2] # b /\ p[1] \notin out /\ p[2] \notin out}
                 \cup {<<b, x>> : x \in Cached \ (out \cup {b})}

\* Mutant: blocks that are still being loaded are freed as well.
Victims_AnyState ==
    LET excess == Cardinality(Cached) - CacheMax + 1
    IN  {b \in Cached : Cardinality({x \in Cached : <<b, x>> \in newer}) < excess}

\* bf_add_block frees loaded blocks, the least recently used first, until the
\* new block fits or none is left.
Victims ==
    LET excess == Cardinality(Cached) - CacheMax + 1
    IN  {b \in Loaded : Cardinality({x \in Loaded : <<b, x>> \in newer}) < excess}

bf_add_block(b) ==
    /\ cache' = [x \in Blocks |-> CASE x = b -> "loading"
                                    [] x # b /\ x \in Victims -> "none"
                                    [] OTHER -> cache[x]]
    /\ Touch(b, Victims)

\* The buffer of a block that has not arrived holds no data yet.
BlockData(s) == IF cache[BlockOf(s)] = "loaded" THEN Image[s] ELSE Junk

-----------------------------------------------------------------------------
(* Opening the image: bf_init_onload *)

Opening == io.phase = "init" /\ io.next <= Len(Prefetch)

\* One block of the group: a block that is cached, or on its way, is not asked
\* for again.
PrefetchBlock ==
    /\ Opening
    /\ \E b \in todo :
          /\ todo' = todo \ {b}
          /\ IF b \in Cached
             THEN Touch(b, {}) /\ UNCHANGED <<cache, io>>
             ELSE bf_add_block(b) /\ io' = [io EXCEPT !.ask = @ \cup {b}]
    /\ UNCHANGED <<clusters, modified, loads, disk>>

\* The k-th group of the image file
GroupAt(k) == IF k <= Len(Prefetch) THEN Prefetch[k] ELSE {}

\* The group is complete: one download brings the blocks that were missing.
PrefetchGroup ==
    /\ Opening /\ todo = {}
    /\ loads' = IF io.ask = {} THEN loads ELSE loads \cup {io.ask}
    /\ io' = [io EXCEPT !.next = @ + 1, !.ask = {}]
    /\ todo' = GroupAt(io.next + 1)
    /\ UNCHANGED <<cache, newer, clusters, modified, disk>>

\* start_cb: the machine may use the disk.
PrefetchDone ==
    /\ io.phase = "init" /\ io.next > Len(Prefetch)
    /\ io' = [io EXCEPT !.phase = "idle"]
    /\ UNCHANGED <<cache, newer, clusters, modified, loads, todo, disk>>

-----------------------------------------------------------------------------
(* Requests *)

\* bf_read_async, bf_write_async: the request is recorded and the loop runs.
Submit(r) ==
    /\ io.phase = "idle"
    /\ todo = {} \/ io.nested
    /\ io' = [io EXCEPT !.phase = "run", !.write = r.write, !.sector = r.first,
                        !.index = 0, !.count = r.count, !.data = r.data]
    /\ disk' = IF r.write
               THEN [s \in Sectors |-> IF s \in r.first .. r.first + r.count - 1
                                       THEN r.data ELSE disk[s]]
               ELSE disk
    /\ UNCHANGED <<cache, newer, clusters, modified, loads, todo>>

Left == io.count - io.index
Least(a, b) == IF a < b THEN a ELSE b

InCluster == ClusterOf(io.sector)
Written(c) == c \in clusters

\* The request moves on by n sectors.
Advance(n) == [io EXCEPT !.index = @ + n, !.sector = @ + n]

\* The sectors of the step, counted from the start of the request
Chunk(n) == io.index .. io.index + n - 1
FirstSector == io.sector - io.index

Rw == io.phase = "run" /\ Left > 0

\* The sector lies in a cluster that has been written.
RwCluster ==
    /\ Rw /\ Written(InCluster)
    /\ LET n == Least(Left, ClusterSize - (io.sector % ClusterSize))
       IN  IF io.write
           THEN /\ modified' = [s \in Sectors |-> IF s \in io.sector .. io.sector + n - 1
                                                 THEN io.data ELSE modified[s]]
                /\ io' = Advance(n)
           ELSE /\ io' = [Advance(n) EXCEPT !.buf =
                      [i \in Sectors |-> IF i \in Chunk(n)
                                         THEN modified[FirstSector + i] ELSE io.buf[i]]]
                /\ UNCHANGED modified
    /\ UNCHANGED <<cache, newer, clusters, loads, todo, disk>>

\* Mutant: the state of the block is not looked at.
RwBlock_NoState ==
    /\ Rw /\ ~Written(InCluster)
    /\ BlockOf(io.sector) \in Cached /\ ~io.write
    /\ Touch(BlockOf(io.sector), {})
    /\ LET n == Least(Left, BlockSize - (io.sector % BlockSize))
       IN  io' = [Advance(n) EXCEPT !.cur = NoBlock, !.buf =
                     [i \in Sectors |-> IF i \in Chunk(n)
                         THEN BlockData(FirstSector + i) ELSE io.buf[i]]]
    /\ UNCHANGED <<cache, clusters, modified, loads, todo, disk>>

\* A read of unwritten data: everything up to the end of the block.
RwBlock ==
    /\ Rw /\ ~Written(InCluster)
    /\ BlockOf(io.sector) \in Loaded /\ ~io.write
    /\ Touch(BlockOf(io.sector), {})
    /\ LET n == Least(Left, BlockSize - (io.sector % BlockSize))
       IN  io' = [Advance(n) EXCEPT !.cur = NoBlock, !.buf =
                     [i \in Sectors |-> IF i \in Chunk(n)
                         THEN BlockData(FirstSector + i) ELSE io.buf[i]]]
    /\ UNCHANGED <<cache, clusters, modified, loads, todo, disk>>

\* Mutant: the cluster is not filled from the block.
RwAllocate_NoCopy ==
    /\ Rw /\ ~Written(InCluster)
    /\ BlockOf(io.sector) \in Loaded /\ io.write
    /\ Touch(BlockOf(io.sector), {})
    /\ clusters' = clusters \cup {InCluster}
    /\ modified' = [s \in Sectors |-> IF ClusterOf(s) = InCluster
                                      THEN io.data ELSE modified[s]]
    /\ io' = [io EXCEPT !.cur = BlockOf(io.sector)]
    /\ UNCHANGED <<cache, loads, todo, disk>>

\* The first write to a cluster copies it out of the block.  cur_block_num is
\* left standing.
RwAllocate ==
    /\ Rw /\ ~Written(InCluster)
    /\ BlockOf(io.sector) \in Loaded /\ io.write
    /\ Touch(BlockOf(io.sector), {})
    /\ clusters' = clusters \cup {InCluster}
    /\ modified' = [s \in Sectors |-> IF ClusterOf(s) = InCluster
                                      THEN BlockData(s) ELSE modified[s]]
    /\ io' = [io EXCEPT !.cur = BlockOf(io.sector)]
    /\ UNCHANGED <<cache, loads, todo, disk>>

\* Mutant: the loop looks at the block again instead of returning.
RwWait_Spins ==
    /\ Rw /\ ~Written(InCluster) /\ BlockOf(io.sector) \in Loading
    /\ Touch(BlockOf(io.sector), {})
    /\ io' = [io EXCEPT !.cur = BlockOf(io.sector)]
    /\ UNCHANGED <<cache, clusters, modified, loads, todo, disk>>

\* Mutant: a request that finds its block on the way ends.
RwWait_Returns0 ==
    /\ Rw /\ ~Written(InCluster) /\ BlockOf(io.sector) \in Loading
    /\ Touch(BlockOf(io.sector), {})
    /\ io' = [io EXCEPT !.phase = "idle", !.cur = BlockOf(io.sector)]
    /\ UNCHANGED <<cache, clusters, modified, loads, todo, disk>>

\* Mutant: the request waits for the number of the cluster.
RwWait_ClusterNumber ==
    /\ Rw /\ ~Written(InCluster) /\ BlockOf(io.sector) \in Loading
    /\ Touch(BlockOf(io.sector), {})
    /\ io' = [io EXCEPT !.phase = "wait", !.cur = InCluster]
    /\ UNCHANGED <<cache, clusters, modified, loads, todo, disk>>

\* The block is on its way.
RwWait ==
    /\ Rw /\ ~Written(InCluster) /\ BlockOf(io.sector) \in Loading
    /\ Touch(BlockOf(io.sector), {})
    /\ io' = [io EXCEPT !.phase = "wait", !.cur = BlockOf(io.sector)]
    /\ UNCHANGED <<cache, clusters, modified, loads, todo, disk>>

\* The block has to be downloaded.
RwLoad ==
    /\ Rw /\ ~Written(InCluster) /\ BlockOf(io.sector) \notin Cached
    /\ bf_add_block(BlockOf(io.sector))
    /\ loads' = loads \cup {{BlockOf(io.sector)}}
    /\ io' = [io EXCEPT !.phase = "wait", !.cur = BlockOf(io.sector)]
    /\ UNCHANGED <<clusters, modified, todo, disk>>

\* The request is complete: the return value 0, or the callback.  The buffer
\* is the caller's again.
RwEnd ==
    /\ io.phase = "run" /\ Left = 0
    /\ io' = [io EXCEPT !.phase = "idle", !.nested = TRUE,
                        !.buf = [i \in Sectors |-> Junk]]
    /\ UNCHANGED <<cache, newer, clusters, modified, loads, todo, disk>>

-----------------------------------------------------------------------------
(* The network *)

Waiting == io.phase \in {"idle", "wait"} /\ todo = {}

\* bf_read_onload, bf_prefetch_group_onload: a download is complete.
Arrive(g) ==
    /\ Waiting
    /\ loads' = loads \ {g}
    /\ todo' = g
    /\ io' = [io EXCEPT !.nested = FALSE]
    /\ UNCHANGED <<cache, newer, clusters, modified, disk>>

\* bf_update_block: a block of the download is stored; the request that waits
\* for it, if there is one, runs on.
UpdateBlock ==
    /\ io.phase \in {"idle", "wait"}
    /\ \E b \in todo :
          /\ todo' = todo \ {b}
          /\ cache' = [cache EXCEPT ![b] = "loaded"]
          /\ io' = [io EXCEPT !.nested = FALSE,
                              !.phase = IF b = io.cur THEN "run" ELSE @]
    /\ UNCHANGED <<newer, clusters, modified, loads, disk>>

\* A download fails: exit(1).
Fail(g) ==
    /\ Waiting
    /\ io' = [io EXCEPT !.phase = "exit"]
    /\ UNCHANGED <<cache, newer, clusters, modified, loads, todo, disk>>

Ended == io.phase = "exit" /\ UNCHANGED nvars

-----------------------------------------------------------------------------

NetInit ==
    /\ cache = [b \in Blocks |-> "none"] /\ newer = {}
    /\ clusters = {} /\ modified = [s \in Sectors |-> Junk]
    /\ loads = {} /\ todo = GroupAt(1)
    /\ disk = Image
    /\ io \in [phase : {"init"}, next : {1}, ask : {{}}, nested : {FALSE},
               write : {FALSE}, sector : {0}, index : {0}, count : {0},
               data : {Junk}, buf : {[i \in Sectors |-> Junk]}, cur : {NoBlock}]

Open == PrefetchBlock \/ PrefetchGroup \/ PrefetchDone
Run == RwCluster \/ RwBlock \/ RwAllocate \/ RwWait \/ RwLoad \/ RwEnd
Network == (\E g \in loads : Arrive(g)) \/ UpdateBlock

NetNext == \/ Open \/ Run \/ Network
           \/ \E r \in Requests : Submit(r)
           \/ \E g \in loads : Fail(g)
           \/ Ended

NetSpec == NetInit /\ [][NetNext]_nvars

\* The thread runs on, and each download ends, with its data or with an error.
NetFair == /\ NetSpec /\ WF_nvars(Open \/ Run \/ UpdateBlock)
           /\ \A g \in SUBSET Blocks : WF_nvars(g \in loads /\ (Arrive(g) \/ Fail(g)))

-----------------------------------------------------------------------------
(* Properties *)

\* Type correctness.
NTypeOK ==
    /\ cache \in [Blocks -> {"none", "loading", "loaded"}]
    /\ newer \subseteq Blocks \X Blocks
    /\ clusters \subseteq Clusters /\ modified \in [Sectors -> Vals \cup {Junk}]
    /\ loads \subseteq SUBSET Blocks /\ todo \subseteq Blocks
    /\ io \in IoType
    /\ disk \in [Sectors -> Vals]

\* The callback of a download holds pointers to cached blocks and asserts that
\* they are still being loaded: no block is freed, downloaded twice or stored
\* twice while a download for it is under way.
DownloadsValid ==
    /\ \A g \in loads : g \subseteq Loading
    /\ \A g, h \in loads : g # h => g \cap h = {}
    /\ io.phase # "init" =>
          /\ todo \subseteq Loading
          /\ \A g \in loads : g \cap todo = {}

\* bf_update_block resumes the current request when the block that arrives is
\* cur_block_num, which is not reset after a write.  A stale value never
\* resumes a request that is not waiting, and a request that waits will be
\* resumed: its block is on the way.
ResumeExact ==
    /\ io.cur \in Loading => io.phase \in {"wait", "exit"}
    /\ io.phase = "wait" =>
          io.cur \in Loading /\ io.cur \in todo \cup UNION loads

\* What a request would find at sector s
Contents(s) == IF Written(ClusterOf(s)) THEN modified[s] ELSE Image[s]

\* The sectors a write in progress has still to store
Unstored == IF io.write /\ io.phase \in {"run", "wait", "exit"}
            THEN io.sector .. io.sector + Left - 1 ELSE {}

\* Between requests the clusters and the image together hold every write, and
\* nothing but the writes, whatever blocks were evicted and loaded in between.
WritesKept == \A s \in Sectors \ Unstored : Contents(s) = disk[s]

\* The i-th sector of the request has been written, and an earlier sector of
\* the request in the same block has not.
Shadowed(i) ==
    LET s == FirstSector + i
    IN  /\ Written(ClusterOf(s))
        /\ \E t \in FirstSector .. s : BlockOf(t) = BlockOf(s) /\ ~Written(ClusterOf(t))

\* What bf_rw_async1 does promise: a read that ends has, for each sector, the
\* data last written to it, or the server's when a sector before it in the
\* same block and request was never written; never the contents of a block
\* that had not arrived, of an evicted one or of another request.
ReadsExact ==
    io.phase = "run" /\ Left = 0 /\ ~io.write =>
        \A i \in 0 .. io.count - 1 :
            LET s == FirstSector + i
            IN  io.buf[i] = IF Shadowed(i) THEN Image[s] ELSE disk[s]

\* A request ends, unless the process does.
RequestEnds == (io.phase \in {"run", "wait"}) ~> (io.phase \in {"idle", "exit"})

=============================================================================

----------------------------- MODULE MCBlockNet -----------------------------
(***************************************************************************)
(* Three blocks of two clusters each, of which the cache holds two; the    *)
(* first block is fetched ahead, then the second in a group with it.       *)
(***************************************************************************)
EXTENDS BlockNet

MCImage == [s \in Sectors |-> s]
MCVals == 0 .. NSectors

\* Written data: no sector of the image holds it
New == NSectors
MCPrefetch == <<{0}, {0, 1}>>

Read(f, n) == [write |-> FALSE, first |-> f, count |-> n, data |-> New]
Write(f, n) == [write |-> TRUE, first |-> f, count |-> n, data |-> New]

\* Reads and writes that start and end inside a cluster, cross into the next
\* one, and cross into the next block
All == {Read(f, n) : f \in {0, 3, 6}, n \in 1 .. 4} \cup {Write(f, n) : f \in {1, 3, 8}, n \in {1, 3}}
=============================================================================

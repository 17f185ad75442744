----------------------------- MODULE BlockStore -----------------------------
(***************************************************************************)
(* What the block device promises its driver.  Requests are served one at  *)
(* a time in the order in which they were published; a read returns what   *)
(* the disk holds when it is served, a write changes the disk then; each   *)
(* request that is served is handed back once.  A request of a type the    *)
(* device does not know is consumed and never handed back.                 *)
(***************************************************************************)
EXTENDS Naturals, Sequences

CONSTANTS
    Heads,       \* descriptor chains the driver owns
    Sectors,     \* sectors of the disk
    Vals         \* contents of a sector

VARIABLES
    disk,        \* contents of the disk
    job,         \* the request in each chain
    queue,       \* published chains, oldest first
    writable     \* FALSE: the image is read only

avars == <<disk, job, queue, writable>>

Types == {"in", "out", "other"}
Idle == [stage |-> "free"]

Requests == [type : Types, sector : Sectors, data : Vals]

AInit == /\ disk \in [Sectors -> Vals]
         /\ job = [h \in Heads |-> Idle]
         /\ queue = <<>>
         /\ writable \in BOOLEAN

Submit(h, r) ==
    /\ job[h] = Idle
    /\ job' = [job EXCEPT ![h] = [stage |-> "queued", req |-> r]]
    /\ queue' = Append(queue, h)
    /\ UNCHANGED <<disk, writable>>

\* The answer to request r on a disk with contents d
Answer(r, d) ==
    CASE r.type = "in" -> [stage |-> "served", req |-> [r EXCEPT !.data = d[r.sector]],
                           ok |-> TRUE]
      [] r.type = "out" -> [stage |-> "served", req |-> r, ok |-> writable]
      [] r.type = "other" -> [stage |-> "lost"]

Serve ==
    /\ queue # <<>>
    /\ LET h == Head(queue)
           r == job[h].req
       IN  /\ job' = [job EXCEPT ![h] = Answer(r, disk)]
           /\ disk' = IF r.type = "out" /\ writable
                      THEN [disk EXCEPT ![r.sector] = r.data] ELSE disk
    /\ queue' = Tail(queue)
    /\ UNCHANGED writable

Collect(h) ==
    /\ job[h].stage = "served"
    /\ job' = [job EXCEPT ![h] = Idle]
    /\ UNCHANGED <<disk, queue, writable>>

\* A device reset forgets every request and keeps the disk.
Forget ==
    /\ job' = [h \in Heads |-> Idle]
    /\ queue' = <<>>
    /\ UNCHANGED <<disk, writable>>

ANext ==
    \/ \E h \in Heads, r \in Requests : Submit(h, r)
    \/ Serve
    \/ \E h \in Heads : Collect(h)
    \/ Forget

StoreSpec == AInit /\ [][ANext]_avars

=============================================================================

----------------------------- MODULE DataCache -----------------------------
(***************************************************************************)
(* The sectored data cache (src/src/cache.cc): tag array, MSHR table, miss *)
(* queue and the hit and miss handlers of the write policies.  It is the   *)
(* L1 cache of an NDP unit (write through) and the L2 cache of a memory    *)
(* channel (write back), both allocating on a miss and lazily fetching.    *)
(*                                                                         *)
(* An access that the cache refuses (RESERVATION_FAIL) changes nothing and *)
(* is tried again by its owner, so only accepted accesses are steps.  The  *)
(* victim of a miss is any line the replacement policy may choose.  Left   *)
(* out are WRITE_ALLOCATE and FETCH_ON_WRITE, which no configuration uses, *)
(* and the sectored MSHR.  Replies are given as the owners give them:      *)
(* NdpRamulator to a lazy write at once, LDSTUnit to a write that was sent *)
(* on when its acknowledgement comes.                                      *)
(***************************************************************************)
EXTENDS Integers, Sequences, FiniteSets, FiniteSetsExt

CONSTANTS
    Blocks,            \* block addresses
    NumSectors,        \* sectors of a line
    SetIndex,          \* block -> the set it maps to
    Assoc,             \* ways of a set
    MshrEntries, MshrMaxMerge,
    MissQueueSize,
    Policies,          \* the write and write-allocate policies considered
    MaxRequests        \* bound: requests in one behaviour

Sectors == 0..(NumSectors - 1)

ASSUME CacheSizesAssumption ==
    /\ NumSectors \in Nat \ {0} /\ Assoc \in Nat \ {0}
    /\ MshrEntries \in Nat \ {0} /\ MshrMaxMerge \in Nat \ {0}
    /\ MissQueueSize \in Nat \ {0}
    /\ MaxRequests \in Nat
    /\ SetIndex \in [Blocks -> Nat]
    /\ "none" \notin Blocks

ASSUME PoliciesAssumption ==
    Policies \subseteq
        [write : {"WRITE_BACK", "WRITE_THROUGH"}, alloc : {"LAZY_FETCH_ON_READ"}]
        \cup [write : {"WRITE_BACK", "WRITE_THROUGH", "WRITE_EVICT", "LOCAL_WB_GLOBAL_WT"},
              alloc : {"NO_WRITE_ALLOCATE"}]

VARIABLES
    policy,
    lines,              \* <<set, way>> -> [tag, status, modified_on_fill]
    mshrs,              \* sector address -> requests waiting for it
    current_response,   \* sector addresses whose data has come
    extra_mf_fields,    \* request sent as a fetch -> line it will fill
    miss_queue,
    in_memory,          \* requests the next level has not answered yet
    next_id,
    answered,           \* requests whose reply has been given to the owner
    overwritten         \* history: a write has hit a sector before its fill

cache_vars == <<policy, lines, mshrs, current_response, extra_mf_fields, miss_queue,
                   in_memory, next_id, answered, overwritten>>

Lines == {<<SetIndex[b], w>> : b \in Blocks, w \in 1..Assoc}

\* A mem_fetch.  The cache makes those with op "write_back" itself; they are
\* nobody's request and carry the id 0.
MemFetch == [id : 0..MaxRequests, op : {"read", "atomic", "write", "write_back"},
             block : Blocks, sector : Sectors]

Addr(mf) == <<mf.block, mf.sector>>

-----------------------------------------------------------------------------
(* The tag array.                                                          *)

InvalidLine(l) == \A s \in Sectors : lines[l].status[s] = "INVALID"
ReservedLine(l) == \E s \in Sectors : lines[l].status[s] = "RESERVED"
ModifiedSectors(l) == {s \in Sectors : lines[l].status[s] = "MODIFIED"}

Ways(b) == {l \in Lines : l[1] = SetIndex[b]}

\* The lines, at most one, that hold block b.
Match(b) == {l \in Ways(b) : lines[l].tag = b /\ ~InvalidLine(l)}

\* The lines probe may choose for a block that misses: an invalid one if there
\* is one, otherwise one without a reserved sector.  None: RESERVATION_FAIL.
EvictsReserved(b) ==
    IF \E l \in Ways(b) : InvalidLine(l) THEN {l \in Ways(b) : InvalidLine(l)}
    ELSE Ways(b)

Victims(b) ==
    IF \E l \in Ways(b) : InvalidLine(l) THEN {l \in Ways(b) : InvalidLine(l)}
    ELSE {l \in Ways(b) : ~ReservedLine(l)}

SectorStatus(mf) == {lines[l].status[mf.sector] : l \in Match(mf.block)}

Hit(mf) == SectorStatus(mf) \cap {"VALID", "MODIFIED"} # {}

\* The line an access that does not hit uses: the one that holds the block
\* (HIT_RESERVED, SECTOR_MISS) or a victim (MISS).
Candidates(mf) == IF Match(mf.block) # {} THEN Match(mf.block) ELSE Victims(mf.block)

\* The line l after access has allocated it for mf.
Allocated(l, mf) ==
    IF lines[l].tag = mf.block /\ ~InvalidLine(l)
    THEN IF lines[l].status[mf.sector] = "RESERVED" THEN lines[l]
         ELSE [lines[l] EXCEPT !.status[mf.sector] = "RESERVED",
                               !.modified_on_fill = @ \ {mf.sector}]
    ELSE [tag |-> mf.block,
          status |-> [s \in Sectors |-> IF s = mf.sector THEN "RESERVED" ELSE "INVALID"],
          modified_on_fill |-> {}]

\* The write-backs of the block that l gives up for mf: as many packets as it
\* has modified sectors, from the start of the block.
write_back(l, mf) ==
    IF lines[l].tag = mf.block \/ policy.write = "WRITE_THROUGH" THEN <<>>
    ELSE [i \in 1..Cardinality(ModifiedSectors(l)) |->
            [id |-> 0, op |-> "write_back", block |-> lines[l].tag, sector |-> i - 1]]

-----------------------------------------------------------------------------
(* The handlers.                                                           *)

\* The second form lets the queue grow by one too many.
OneMore(n) == Len(miss_queue) + n > MissQueueSize + 1

miss_queue_full(n) == Len(miss_queue) + n > MissQueueSize

MshrProbe(a) == a \in DOMAIN mshrs

MshrFull(a) ==
    IF MshrProbe(a) THEN Len(mshrs[a]) >= MshrMaxMerge
    ELSE Cardinality(DOMAIN mshrs) >= MshrEntries

MshrAdd(a, mf) ==
    [b \in DOMAIN mshrs \cup {a} |->
        IF b # a THEN mshrs[b]
        ELSE IF MshrProbe(a) THEN Append(mshrs[a], mf) ELSE <<mf>>]

SetStatus(l, mf, st) == [lines EXCEPT ![l].status[mf.sector] = st]

rd_hit_base(mf) ==
    /\ Hit(mf)
    /\ \E l \in Match(mf.block) :
          lines' = IF mf.op = "atomic" THEN SetStatus(l, mf, "MODIFIED") ELSE lines
    /\ answered' = answered \cup {mf.id}
    /\ UNCHANGED <<mshrs, extra_mf_fields, miss_queue, overwritten>>

\* rd_miss_base and send_read_request.
rd_miss_base(mf) ==
    /\ ~Hit(mf)
    /\ ~miss_queue_full(1)
    /\ ~MshrFull(Addr(mf))
    /\ \E l \in Candidates(mf) :
          /\ lines' = [lines EXCEPT ![l] = Allocated(l, mf)]
          /\ mshrs' = MshrAdd(Addr(mf), mf)
          /\ IF MshrProbe(Addr(mf))
             THEN /\ miss_queue' = miss_queue \o write_back(l, mf)
                  /\ UNCHANGED extra_mf_fields
             ELSE /\ miss_queue' = Append(miss_queue, mf) \o write_back(l, mf)
                  /\ extra_mf_fields' = [f \in DOMAIN extra_mf_fields \cup {mf} |->
                                            IF f = mf THEN l ELSE extra_mf_fields[f]]
    /\ UNCHANGED <<answered, overwritten>>

wr_hit_wb(mf) ==
    /\ \E l \in Match(mf.block) : lines' = SetStatus(l, mf, "MODIFIED")
    /\ answered' = answered \cup {mf.id}
    /\ UNCHANGED miss_queue

\* The second form answers although the acknowledgement will, too.
AnswersTwice(mf) ==
    /\ ~miss_queue_full(0)
    /\ \E l \in Match(mf.block) : lines' = SetStatus(l, mf, "MODIFIED")
    /\ miss_queue' = Append(miss_queue, mf)
    /\ answered' = answered \cup {mf.id}

wr_hit_wt(mf) ==
    /\ ~miss_queue_full(0)
    /\ \E l \in Match(mf.block) : lines' = SetStatus(l, mf, "MODIFIED")
    /\ miss_queue' = Append(miss_queue, mf)
    /\ UNCHANGED answered

wr_hit_we(mf) ==
    /\ ~miss_queue_full(0)
    /\ \E l \in Match(mf.block) : lines' = SetStatus(l, mf, "INVALID")
    /\ miss_queue' = Append(miss_queue, mf)
    /\ UNCHANGED answered

\* The last policy evicts for the host and writes back for the NDP units.
wr_hit(mf) ==
    /\ Hit(mf)
    /\ \/ policy.write \in {"WRITE_BACK", "LOCAL_WB_GLOBAL_WT"} /\ wr_hit_wb(mf)
       \/ policy.write = "WRITE_THROUGH" /\ wr_hit_wt(mf)
       \/ policy.write \in {"WRITE_EVICT", "LOCAL_WB_GLOBAL_WT"} /\ wr_hit_we(mf)
    /\ UNCHANGED <<mshrs, extra_mf_fields, overwritten>>

wr_miss_no_wa(mf) ==
    /\ ~Hit(mf)
    /\ policy.alloc = "NO_WRITE_ALLOCATE"
    /\ ~miss_queue_full(0)
    /\ miss_queue' = Append(miss_queue, mf)
    /\ UNCHANGED <<lines, mshrs, extra_mf_fields, answered, overwritten>>

\* The sector becomes MODIFIED at once, also when a fetch for it is under way;
\* the flag tells that fetch to leave it MODIFIED.
wr_miss_wa_lazy_fetch_on_read(mf) ==
    /\ ~Hit(mf)
    /\ policy.alloc = "LAZY_FETCH_ON_READ"
    /\ ~miss_queue_full(0)
    /\ \E l \in Candidates(mf) :
          LET pending == IF "RESERVED" \in SectorStatus(mf) THEN {mf.sector} ELSE {}
              new == Allocated(l, mf)
          IN  /\ lines' = [lines EXCEPT ![l] =
                              [new EXCEPT !.status[mf.sector] = "MODIFIED",
                                          !.modified_on_fill = @ \cup pending]]
              /\ miss_queue' = IF policy.write = "WRITE_THROUGH"
                               THEN Append(miss_queue, mf)
                               ELSE miss_queue \o write_back(l, mf)
    /\ answered' = IF policy.write = "WRITE_THROUGH" THEN answered
                   ELSE answered \cup {mf.id}
    /\ overwritten' = (overwritten \/ "RESERVED" \in SectorStatus(mf))
    /\ UNCHANGED <<mshrs, extra_mf_fields>>

access(mf) ==
    /\ next_id < MaxRequests
    /\ mf.id = next_id + 1
    /\ next_id' = next_id + 1
    /\ \/ mf.op \in {"read", "atomic"} /\ (rd_hit_base(mf) \/ rd_miss_base(mf))
       \/ mf.op = "write" /\ (wr_hit(mf) \/ wr_miss_no_wa(mf)
                                \/ wr_miss_wa_lazy_fetch_on_read(mf))
    /\ UNCHANGED <<policy, current_response, in_memory>>

\* One request moves on to the next level, unless the queue there is full: the
\* step is then late.  The next level answers in any order.  It drops the
\* acknowledgement of a write-back, so nobody waits for one.
cycle ==
    /\ miss_queue # <<>>
    /\ in_memory' = in_memory \cup ({Head(miss_queue)} \ {mf \in MemFetch : mf.op = "write_back"})
    /\ miss_queue' = Tail(miss_queue)
    /\ UNCHANGED <<policy, lines, mshrs, current_response, extra_mf_fields, next_id,
                   answered, overwritten>>

\* What a fill leaves in the sector: a write hit it while it was reserved, or
\* an atomic waits for it.
FillStatus(l, mf) ==
    IF \/ mf.sector \in lines[l].modified_on_fill
       \/ \E i \in 1..Len(mshrs[Addr(mf)]) : mshrs[Addr(mf)][i].op = "atomic"
    THEN "MODIFIED" ELSE "VALID"

\* The fetches still waited for when mf has come, and a form that does not
\* erase mf.
NotErased(mf) == DOMAIN extra_mf_fields

StillWaiting(mf) == DOMAIN extra_mf_fields \ {mf}

\* The answer to a fetch.  The line is the one recorded when it was sent.
fill(mf) ==
    /\ mf \in DOMAIN extra_mf_fields
    /\ LET l == extra_mf_fields[mf]
       IN  lines' = SetStatus(l, mf, FillStatus(l, mf))
    /\ current_response' = Append(current_response, Addr(mf))
    /\ extra_mf_fields' = [f \in StillWaiting(mf) |-> extra_mf_fields[f]]
    /\ in_memory' = in_memory \ {mf}
    /\ UNCHANGED <<policy, mshrs, miss_queue, next_id, answered, overwritten>>

\* The answer to a write that was sent on goes to the owner of the write.
write_ack(mf) ==
    /\ mf.op = "write"
    /\ in_memory' = in_memory \ {mf}
    /\ answered' = answered \cup {mf.id}
    /\ UNCHANGED <<policy, lines, mshrs, current_response, extra_mf_fields, miss_queue,
                   next_id, overwritten>>

\* The entry of the sector is done with its front.
LastOfEntry(a) == Len(mshrs[a]) = 1

pop_next_access ==
    /\ current_response # <<>>
    /\ LET a == Head(current_response)
           last == LastOfEntry(a)
       IN  /\ answered' = answered \cup {Head(mshrs[a]).id}
           /\ mshrs' = [b \in {c \in DOMAIN mshrs : c = a => ~last} |->
                          IF b = a THEN Tail(mshrs[a]) ELSE mshrs[b]]
           /\ current_response' = IF last THEN Tail(current_response) ELSE current_response
    /\ UNCHANGED <<policy, lines, extra_mf_fields, miss_queue, in_memory, next_id,
                   overwritten>>

NoBlock == "none"

EmptyLine == [tag |-> NoBlock,
              status |-> [s \in Sectors |-> "INVALID"],
              modified_on_fill |-> {}]

CacheInit ==
    /\ policy \in Policies
    /\ lines = [l \in Lines |-> EmptyLine]
    /\ mshrs = [a \in {} |-> <<>>]
    /\ current_response = <<>>
    /\ extra_mf_fields = [f \in {} |-> f]
    /\ miss_queue = <<>>
    /\ in_memory = {}
    /\ next_id = 0
    /\ answered = {}
    /\ overwritten = FALSE

CacheStep ==
    \/ cycle
    \/ \E mf \in in_memory : fill(mf) \/ write_ack(mf)
    \/ pop_next_access

CacheNext ==
    \/ \E mf \in MemFetch : access(mf)
    \/ CacheStep

CacheSpec == CacheInit /\ [][CacheNext]_cache_vars

-----------------------------------------------------------------------------
(* Properties.                                                             *)

Outstanding == Range(miss_queue) \cup in_memory

CacheTypeOK ==
    /\ policy \in Policies
    /\ lines \in [Lines -> [tag : Blocks \cup {NoBlock},
                            status : [Sectors -> {"INVALID", "RESERVED", "VALID", "MODIFIED"}],
                            modified_on_fill : SUBSET Sectors]]
    /\ DOMAIN mshrs \subseteq Blocks \X Sectors
    /\ \A a \in DOMAIN mshrs : mshrs[a] \in Seq(MemFetch)
    /\ current_response \in Seq(Blocks \X Sectors)
    /\ DOMAIN extra_mf_fields \subseteq MemFetch
    /\ \A f \in DOMAIN extra_mf_fields : extra_mf_fields[f] \in Lines
    /\ miss_queue \in Seq(MemFetch)
    /\ in_memory \subseteq MemFetch
    /\ next_id \in 0..MaxRequests
    /\ answered \subseteq 1..MaxRequests
    /\ overwritten \in BOOLEAN

\* The MSHR table and the traffic below it agree: an entry, within the limits
\* of the table, either has its data, once, or has exactly one fetch on the
\* way, made for the request at its front (the assertions of mark_ready and
\* pop_next_access, and waiting_for_fill, rest on this).
MshrsMatchFetches ==
    LET fetched == {Addr(f) : f \in DOMAIN extra_mf_fields}
        ready == Range(current_response)
    IN  /\ DOMAIN mshrs = fetched \cup ready /\ fetched \cap ready = {}
        /\ IsInjective(current_response)
        /\ \A f, g \in DOMAIN extra_mf_fields : Addr(f) = Addr(g) => f = g
        /\ \A f \in DOMAIN extra_mf_fields : f \in Outstanding /\ f = mshrs[Addr(f)][1]
        /\ Cardinality(DOMAIN mshrs) <= MshrEntries
        /\ \A a \in DOMAIN mshrs : Len(mshrs[a]) \in 1..MshrMaxMerge

\* Every accepted request is in exactly one place until it is answered: it
\* waits in one MSHR entry, or it is a write on its way to the next level.
\* So none is lost, and LDSTUnit, which deletes a request with its reply, sees
\* each one once.
RequestsInOnePlace ==
    \A i \in 1..next_id :
        LET waiting == {p \in (DOMAIN mshrs) \X (1..MshrMaxMerge) :
                            p[2] <= Len(mshrs[p[1]]) /\ mshrs[p[1]][p[2]].id = i}
            sent == {mf \in Outstanding : mf.id = i /\ mf.op = "write"}
        IN  Cardinality(waiting) + Cardinality(sent) = IF i \in answered THEN 0 ELSE 1

\* A miss is let in while one place is free (a write even when none is), and
\* may then add the write-backs of a whole line: the miss queue outgrows
\* miss_queue_size, but never by more than the sectors of a line.
MissQueueBounded == Len(miss_queue) <= MissQueueSize + NumSectors

\* A fetch fills the line that was allocated for it.  The index kept in
\* extra_mf_fields is not checked against the tag by TagArray::fill, so this
\* needs the line to stay reserved meanwhile.  A lazy write to a pending
\* sector takes the reservation away: after one the line may be evicted, and
\* the fetch then fills the line of another block.
FillsOwnLine ==
    ~overwritten => \A f \in DOMAIN extra_mf_fields :
        /\ lines[extra_mf_fields[f]].tag = f.block
        /\ lines[extra_mf_fields[f]].status[f.sector] = "RESERVED"

=============================================================================

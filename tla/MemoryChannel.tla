--------------------------- MODULE MemoryChannel ---------------------------
(***************************************************************************)
(* A memory channel of the device (src/ndp_ramulator.cc): the L2 cache, in *)
(* front of it the queues from and to the crossbar, one of each per bank,  *)
(* behind it the queue to the DRAM and the DRAM's return queue.  The cache *)
(* is DataCache in full; its steps are taken together with those of the    *)
(* queues.                                                                 *)
(*                                                                         *)
(* A load that needs a back-invalidation goes to the host, which turns it  *)
(* into a write (HostRunner).  Until that write has passed the cache, the  *)
(* channel keeps back the answers of other loads of the same unit of       *)
(* addresses: they are parked, and released by the write, whichever bank   *)
(* they came from.                                                         *)
(*                                                                         *)
(* A request is a mem_fetch of DataCache with two fields more: n, its      *)
(* number, and bi, which says that it is (or became) a back-invalidation.  *)
(* The crossbar, the DRAM and the host deliver in any order.               *)
(***************************************************************************)
EXTENDS DataCache, Bags

CONSTANTS
    Banks,              \* l2d_num_banks
    BankOf,             \* block -> its bank
    BiUnitOf,           \* block -> addr / bi_unit_size
    RequestQueueSize    \* request_queue_size

ASSUME ChannelAssumption ==
    /\ RequestQueueSize \in Nat \ {0}
    /\ BankOf \in [Blocks -> Banks]
    /\ NumSectors = 1   \* bound: a block is one packet
    \* the write policy of the L2 cache in every configuration
    /\ \A p \in Policies : p.write = "WRITE_BACK" /\ p.alloc = "LAZY_FETCH_ON_READ"

VARIABLES
    from_crossbar,   \* m_from_crossbar_queue: bank -> requests
    latency,         \* m_cache_latency_queue: bank -> answers
    to_crossbar,     \* m_to_crossbar_queue: bank -> answers
    bi_queue,        \* m_to_crossbar_bi_queue: bank -> answers
    to_mem,          \* m_to_mem_queue
    dram,            \* bag of the requests inside the DRAM
    return_queue,    \* the DRAM's answers
    pending_lds,     \* _bi_pending_lds: unit -> parked loads
    handled,         \* m_handled_bi_addr
    inprogress,      \* m_inprogress_bi_addr
    travelling,      \* requests in the crossbar
    at_host,         \* back-invalidations at the host, or on the way there
    issued,          \* requests made
    returned,        \* requests whose answers have left the channel, or the L1
    l1_lines,        \* blocks of which a store has left a line in an L1
    l1_answered      \* units whose back-invalidation an L1 has answered (history)

queueVars == <<from_crossbar, latency, to_crossbar, bi_queue, to_mem, dram, return_queue>>
biVars == <<pending_lds, handled, inprogress>>
outerVars == <<travelling, at_host, issued, returned, l1_lines, l1_answered>>

channelVars == <<cache_vars, queueVars, biVars, outerVars>>

Units == {BiUnitOf[b] : b \in Blocks}

Unit(mf) == BiUnitOf[mf.block]

\* fifo_pipeline and DelayQueue.
full(q) == Len(q) >= RequestQueueSize

push(q, b, mf) == [q EXCEPT ![b] = Append(@, mf)]

pop(q, b) == [q EXCEPT ![b] = Tail(@)]

ChannelInit ==
    /\ CacheInit
    /\ from_crossbar = [b \in Banks |-> <<>>]
    /\ latency = [b \in Banks |-> <<>>]
    /\ to_crossbar = [b \in Banks |-> <<>>]
    /\ bi_queue = [b \in Banks |-> <<>>]
    /\ to_mem = <<>>
    /\ dram = EmptyBag
    /\ return_queue = <<>>
    /\ pending_lds = [u \in Units |-> <<>>]
    /\ handled = {}
    /\ inprogress = {}
    /\ travelling = {}
    /\ at_host = {}
    /\ issued = 0
    /\ returned = {}
    /\ l1_lines = {}
    /\ l1_answered = {}

----------------------------------------------------------------------------
\* The NDP unit.

\* The load/store unit marks the unit of addresses of a load before the L1 is
\* asked.  The first load of a unit that nobody has handled may be made a
\* back-invalidation; any other load leaves a unit in progress alone.
MarkLoad(u, bi) ==
    /\ bi => u \notin handled \cup inprogress
    /\ handled' = IF u \in inprogress THEN handled ELSE handled \cup {u}
    /\ inprogress' = IF bi THEN inprogress \cup {u} ELSE inprogress

\* A load that misses in the L1, or passes it by as an atomic does.
NewLoad(b, bi) ==
    /\ issued < MaxRequests
    /\ issued' = issued + 1
    /\ LET mf == [id |-> 0, op |-> "read", block |-> b, sector |-> 0, n |-> issued', bi |-> bi]
       IN  /\ MarkLoad(Unit(mf), bi)
           /\ at_host' = IF bi THEN at_host \cup {mf} ELSE at_host
           /\ travelling' = IF bi THEN travelling ELSE travelling \cup {mf}
    /\ UNCHANGED <<pending_lds, returned, l1_lines, l1_answered>>
    /\ UNCHANGED <<cache_vars, queueVars>>

\* A load that hits the line of a store is answered by the L1, marked or not:
\* a back-invalidation goes no further, and its unit stays in progress.  A line
\* that a load brought is not counted, for its unit is handled by then and a
\* hit changes nothing here.
LoadHitsL1(b, bi) ==
    /\ issued < MaxRequests
    /\ b \in l1_lines
    /\ issued' = issued + 1
    /\ MarkLoad(BiUnitOf[b], bi)
    /\ returned' = returned \cup {issued'}
    /\ l1_answered' = IF bi THEN l1_answered \cup {BiUnitOf[b]} ELSE l1_answered
    /\ UNCHANGED <<pending_lds, at_host, travelling, l1_lines>>
    /\ UNCHANGED <<cache_vars, queueVars>>

\* A store makes a back-invalidation that it never sends, and marks the unit.
\* The L1 writes through, and keeps the line until it is evicted, which the
\* choice between NewLoad and LoadHitsL1 leaves open.
NewStore(b, bi) ==
    /\ issued < MaxRequests
    /\ issued' = issued + 1
    /\ LET mf == [id |-> 0, op |-> "write", block |-> b, sector |-> 0, n |-> issued', bi |-> FALSE]
       IN  /\ bi => Unit(mf) \notin handled \cup inprogress
           /\ handled' = IF bi THEN handled \cup {Unit(mf)} ELSE handled
           /\ travelling' = travelling \cup {mf}
    /\ l1_lines' = l1_lines \cup {b}
    /\ UNCHANGED <<pending_lds, inprogress, at_host, returned, l1_answered>>
    /\ UNCHANGED <<cache_vars, queueVars>>

\* The host makes a write of the load.
HostAnswersBi ==
    /\ \E mf \in at_host :
          /\ at_host' = at_host \ {mf}
          /\ travelling' = travelling \cup {[mf EXCEPT !.op = "write"]}
    /\ UNCHANGED <<issued, returned, l1_lines, l1_answered, cache_vars, queueVars, biVars>>

\* ICNT to Memory.
Arrive ==
    /\ \E mf \in travelling :
          /\ ~full(from_crossbar[BankOf[mf.block]])
          /\ from_crossbar' = push(from_crossbar, BankOf[mf.block], mf)
          /\ travelling' = travelling \ {mf}
    /\ UNCHANGED <<latency, to_crossbar, bi_queue, to_mem, dram, return_queue>>
    /\ UNCHANGED <<at_host, issued, returned, l1_lines, l1_answered, cache_vars, biVars>>

\* Memory to ICNT.
Leave(b) ==
    /\ to_crossbar[b] # <<>>
    /\ returned' = returned \cup {Head(to_crossbar[b]).n}
    /\ to_crossbar' = pop(to_crossbar, b)
    /\ UNCHANGED <<from_crossbar, latency, bi_queue, to_mem, dram, return_queue>>
    /\ UNCHANGED <<travelling, at_host, issued, l1_lines, l1_answered, cache_vars, biVars>>

----------------------------------------------------------------------------
\* NdpRamulator::cache_cycle, for one bank.

\* The head of the queue accesses the cache.  A hit or a lazy write is answered
\* through the latency queue, which is not asked for room.
AccessCache(b) ==
    /\ from_crossbar[b] # <<>>
    /\ LET mf == [Head(from_crossbar[b]) EXCEPT !.id = next_id + 1]
       IN  /\ access(mf)
           /\ latency' = IF mf.id \in answered' THEN push(latency, b, mf) ELSE latency
    /\ from_crossbar' = pop(from_crossbar, b)
    /\ UNCHANGED <<to_crossbar, bi_queue, to_mem, dram, return_queue, biVars, outerVars>>

\* A request whose data has come, by the first bank that looks.
TakeReady(b) ==
    /\ ~full(latency[b])
    /\ pop_next_access
    /\ latency' = push(latency, b, Head(mshrs[Head(current_response)]))
    /\ UNCHANGED <<from_crossbar, to_crossbar, bi_queue, to_mem, dram, return_queue>>
    /\ UNCHANGED <<biVars, outerVars>>

BiToCrossbar(b) ==
    /\ bi_queue[b] # <<>>
    /\ ~full(to_crossbar[b])
    /\ to_crossbar' = push(to_crossbar, b, Head(bi_queue[b]))
    /\ bi_queue' = pop(bi_queue, b)
    /\ UNCHANGED <<from_crossbar, latency, to_mem, dram, return_queue>>
    /\ UNCHANGED <<cache_vars, biVars, outerVars>>

\* Mutant: only the loads parked by this bank are released.
ReleasedOfBank(u, b, c) ==
    SelectSeq(pending_lds[u], LAMBDA p : b = c /\ p.bank = c)

\* The loads of the unit that bank c parked.
Released(u, b, c) == SelectSeq(pending_lds[u], LAMBDA p : p.bank = c)

\* The write of a back-invalidation lets the parked loads of its unit go, each
\* through its bank, and ends the invalidation.
BiDone(b, mf) ==
    /\ bi_queue' = [c \in Banks |->
          LET out == Released(Unit(mf), b, c)
          IN  (IF c = b THEN Append(bi_queue[c], mf) ELSE bi_queue[c])
                 \o [i \in DOMAIN out |-> out[i].mf]]
    /\ pending_lds' = [pending_lds EXCEPT ![Unit(mf)] = <<>>]
    /\ inprogress' = inprogress \ {Unit(mf)}
    /\ UNCHANGED <<to_crossbar, handled>>

Park(b, mf) ==
    /\ pending_lds' = [pending_lds EXCEPT ![Unit(mf)] = Append(@, [mf |-> mf, bank |-> b])]
    /\ UNCHANGED <<to_crossbar, bi_queue, handled, inprogress>>

\* Mutant: a store's answer ends the invalidation as well.
EndsBiAnyWrite(mf) == Unit(mf) \in inprogress /\ mf.op = "write"

EndsBi(mf) == Unit(mf) \in inprogress /\ mf.op = "write" /\ mf.bi

MustPark(mf) == Unit(mf) \in inprogress /\ mf.op # "write"

\* The head of the latency queue, when its time has come and no released load
\* goes before it.
LatencyHead(b) ==
    /\ bi_queue[b] = <<>>
    /\ latency[b] # <<>>
    /\ LET mf == Head(latency[b])
       IN  \/ EndsBi(mf) /\ BiDone(b, mf)
           \/ MustPark(mf) /\ Park(b, mf)
           \/ /\ ~EndsBi(mf) /\ ~MustPark(mf)
              /\ ~full(to_crossbar[b])
              /\ to_crossbar' = push(to_crossbar, b, mf)
              /\ UNCHANGED <<bi_queue, biVars>>
    /\ latency' = pop(latency, b)
    /\ UNCHANGED <<from_crossbar, to_mem, dram, return_queue, cache_vars, outerVars>>

\* Cache::cycle, at the end of cache_cycle.
CacheCycle ==
    /\ miss_queue # <<>>
    /\ ~full(to_mem)
    /\ to_mem' = Append(to_mem, Head(miss_queue))
    /\ miss_queue' = Tail(miss_queue)
    /\ UNCHANGED <<policy, lines, mshrs, current_response, extra_mf_fields, in_memory,
                   next_id, answered, overwritten>>
    /\ UNCHANGED <<from_crossbar, latency, to_crossbar, bi_queue, dram, return_queue>>
    /\ UNCHANGED <<biVars, outerVars>>

----------------------------------------------------------------------------
\* NdpRamulator::process_memory_requests.

\* Ramulator::push.
ToMemory ==
    /\ to_mem # <<>>
    /\ dram' = dram (+) SetToBag({Head(to_mem)})
    /\ to_mem' = Tail(to_mem)
    /\ UNCHANGED <<from_crossbar, latency, to_crossbar, bi_queue, return_queue>>
    /\ UNCHANGED <<cache_vars, biVars, outerVars>>

\* The DRAM is done with a request.
DramAnswers ==
    /\ \E mf \in BagToSet(dram) :
          /\ dram' = dram (-) SetToBag({mf})
          /\ return_queue' = Append(return_queue, mf)
    /\ UNCHANGED <<from_crossbar, latency, to_crossbar, bi_queue, to_mem>>
    /\ UNCHANGED <<cache_vars, biVars, outerVars>>

\* A response the cache waits for fills it, the acknowledgement of a write-back
\* is dropped, and any other stays at the head of the queue.
FromMemory ==
    /\ return_queue # <<>>
    /\ LET mf == Head(return_queue)
       IN  \/ fill(mf)
           \/ /\ mf \notin DOMAIN extra_mf_fields
              /\ mf.op = "write_back"
              /\ UNCHANGED cache_vars
    /\ return_queue' = Tail(return_queue)
    /\ UNCHANGED <<from_crossbar, latency, to_crossbar, bi_queue, to_mem, dram>>
    /\ UNCHANGED <<biVars, outerVars>>

----------------------------------------------------------------------------
ChannelStep ==
    \/ HostAnswersBi
    \/ Arrive
    \/ \E b \in Banks :
          Leave(b) \/ AccessCache(b) \/ TakeReady(b) \/ BiToCrossbar(b) \/ LatencyHead(b)
    \/ CacheCycle
    \/ ToMemory
    \/ DramAnswers
    \/ FromMemory

ChannelNext ==
    \/ \E b \in Blocks, bi \in BOOLEAN : NewLoad(b, bi) \/ LoadHitsL1(b, bi) \/ NewStore(b, bi)
    \/ ChannelStep

\* cache_cycle and process_memory_requests run with their clocks, each bank in
\* every round; the crossbar, the DRAM and the host (RunFinishes of HostRunner)
\* deliver.  Nobody need make another request.
ChannelFairness ==
    /\ WF_channelVars(HostAnswersBi)
    /\ WF_channelVars(Arrive)
    /\ \A b \in Banks :
          /\ WF_channelVars(Leave(b))
          /\ WF_channelVars(AccessCache(b))
          /\ WF_channelVars(BiToCrossbar(b))
          /\ WF_channelVars(LatencyHead(b))
    /\ WF_channelVars(\E b \in Banks : TakeReady(b))
    /\ WF_channelVars(CacheCycle)
    /\ WF_channelVars(ToMemory)
    /\ WF_channelVars(DramAnswers)
    /\ WF_channelVars(FromMemory)

ChannelSpec == ChannelInit /\ [][ChannelNext]_channelVars /\ ChannelFairness

----------------------------------------------------------------------------
\* Properties.

\* A back-invalidation is under way from the load to the answer of its write.
BiUnderWay(u) ==
    {mf \in at_host \cup travelling
            \cup UNION {Range(from_crossbar[b]) \cup Range(latency[b]) : b \in Banks} :
        mf.bi /\ Unit(mf) = u}

\* A unit of addresses is marked as in progress exactly as long as one
\* back-invalidation for it is under way, and only such a unit has parked loads:
\* a parked load always has a write behind it that will release it
\* (ndp_ramulator.cc:119-137, ldst_unit.cc:194).  The one exception is a unit
\* whose invalidating load an L1 has answered (ldst_unit.cc:427): it has no
\* write, and stays in progress for good.
ParkedHaveInvalidation ==
    \A u \in Units :
        /\ Cardinality(BiUnderWay(u)) = IF u \in inprogress \ l1_answered THEN 1 ELSE 0
        /\ pending_lds[u] # <<>> \/ u \in l1_answered => u \in inprogress

\* The loads parked for a back-invalidation that will never come.
Abandoned == {p.mf.n : p \in UNION {Range(pending_lds[u]) : u \in l1_answered}}

\* Every request is answered, but for the loads parked behind a back-invalidation
\* that an L1 has answered: no other load stays parked, no response without a
\* taker stops the return queue, no queue waits for another in a circle, and the
\* abandoned loads keep back nobody else (ndp_ramulator.cc:53-153, :213-244).
RequestsReturned == <>[](1..issued = returned \cup Abandoned)
=============================================================================

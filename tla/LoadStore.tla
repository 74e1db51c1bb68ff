----------------------------- MODULE LoadStore -----------------------------
(***************************************************************************)
(* The load/store path of an NDP unit: LDSTUnit, its L1 cache, the data    *)
(* TLB, and the queues of NdpUnit that join them to the memory.            *)
(*                                                                         *)
(* A load or store instruction is split into packets, one mem_fetch each.  *)
(* A packet waits for the L1; what the L1 sends on passes through the TLB, *)
(* which sends a walk of its own (a mem_fetch for the table entry) over    *)
(* the same queues, and then goes to memory.  A load is complete when all  *)
(* its packets are answered.                                               *)
(*                                                                         *)
(* Each handler is an action, and each round of a loop over banks or units *)
(* a step of it.  They run in every cycle, on queues with latencies of     *)
(* their own, so a step of one may come before or after any step of        *)
(* another; "matured" says that the latency of a front is over.  The L1 is *)
(* write through, as in every configuration; back-invalidation is off.     *)
(* The crossbar and the memory beyond it answer in any order.              *)
(***************************************************************************)
EXTENDS Integers, FiniteSetsExt, MshrCache

CONSTANTS
    InstKinds,         \* instructions that may be issued
    Addrs,             \* packet addresses, numbers as addr_set is sorted
    NumBanks,          \* banks of the L1, and of the queues to memory
    PageSize,
    L1Size, TlbSize,   \* CacheSizes of the two caches
    Modes,             \* the configurations considered
    MaxInsts           \* bound: instructions in one behaviour

Banks == 0..(NumBanks - 1)

ASSUME LoadStoreAssumption ==
    /\ NumBanks \in Nat \ {0} /\ PageSize \in Nat \ {0}
    /\ MaxInsts \in Nat
    /\ Addrs \subseteq Nat /\ IsFiniteSet(Addrs)
    /\ L1Size \in CacheSizes /\ TlbSize \in CacheSizes
    /\ InstKinds \subseteq [op : {"load", "store", "atomic"}, addrs : SUBSET Addrs \ {{}},
                            spad : BOOLEAN, last_inst : BOOLEAN]
    /\ Modes \subseteq [ops : SUBSET {"load", "store", "atomic"},
                        request_queue_size : Nat \ {0}, dram_tlb_miss_handling : BOOLEAN]

VARIABLES
    mode,               \* the configuration, fixed
    insts,              \* instructions issued so far
    ldst_units,         \* those in a load/store unit
    spad_units, spad_delay_queue,
    l1_latency_queue,   \* bank -> packets on their way into the L1
    l1,                 \* the L1 cache
    to_tlb_queue,
    tlb,                \* the TLB: its cache and its queues
    tlb_req,            \* walks on their way to memory
    to_mem, from_mem,   \* bank -> packets and walks
    in_memory,
    acct                \* [pending_ldst, pending_write_count, to_reg, finished_contexts]

\* A mem_fetch: a packet of instruction inst, or the walk made for it.
MemFetch == [inst : 1..MaxInsts, addr : Addrs, op : {"load", "store", "atomic"},
             walk : BOOLEAN]

Page(mf) == mf.addr \div PageSize
Walk(mf) == [mf EXCEPT !.walk = TRUE]
OriginalMf(mf) == [mf EXCEPT !.walk = FALSE]

\* The bank of a mem_fetch; the table entry of a walk has an address too.
BankOf(mf) == (IF mf.walk THEN Page(mf) ELSE mf.addr) % NumBanks

Full(queue) == Len(queue) >= mode.request_queue_size

\* Tlb::full counts the walks that wait for the table as well.
tlb_full(t) == Len(t.request_queue) + Len(t.dram_queue) >= mode.request_queue_size

-----------------------------------------------------------------------------
(* Completion.                                                             *)

\* The load has all its packets: its register is written back, and its
\* context is finished if it was the last instruction.
Complete(r, i) ==
    [r EXCEPT !.pending_ldst = [j \in DOMAIN @ \ {i} |-> @[j]],
              !.to_reg = Append(@, i),
              !.finished_contexts = IF insts[i].last_inst THEN Append(@, i) ELSE @]

\* One packet of a load is answered.
LoadPacketDone(r, i) ==
    IF r.pending_ldst[i] > 1 THEN [r EXCEPT !.pending_ldst[i] = @ - 1] ELSE Complete(r, i)

\* Mutants of handle_response: a load completes with its first packet; the
\* acknowledgement of a store is ignored, or counted twice.
FirstPacketCompletes(r, mf) ==
    IF mf.op = "store" THEN [r EXCEPT !.pending_write_count = @ - 1]
    ELSE IF mf.inst \in DOMAIN r.pending_ldst THEN Complete(r, mf.inst) ELSE r

AckIgnored(r, mf) == IF mf.op = "store" THEN r ELSE LoadPacketDone(r, mf.inst)

\* The record r after the reply of mf.
handle_response(r, mf) ==
    IF mf.op = "store" THEN [r EXCEPT !.pending_write_count = @ - 1]
    ELSE LoadPacketDone(r, mf.inst)

-----------------------------------------------------------------------------
(* Instructions.                                                           *)

\* connect_to_ldst_unit: the front of a sub-core's queue enters a free unit.
issue_ldst_unit(k) ==
    /\ Len(insts) < MaxInsts
    /\ k.op \in mode.ops
    /\ insts' = Append(insts, k)
    /\ IF k.spad THEN /\ spad_units' = spad_units \cup {Len(insts) + 1}
                      /\ UNCHANGED ldst_units
       ELSE /\ ldst_units' = ldst_units \cup {Len(insts) + 1}
            /\ UNCHANGED spad_units
    /\ UNCHANGED <<mode, spad_delay_queue, l1_latency_queue, l1, to_tlb_queue, tlb, tlb_req,
                   to_mem, from_mem, in_memory, acct>>

\* The packets of instruction i for bank b, in the order of addr_set.
Packets(i, b) ==
    LET sorted == SetToSortSeq({a \in insts[i].addrs : a % NumBanks = b}, <)
    IN  [n \in 1..Len(sorted) |-> [inst |-> i, addr |-> sorted[n], op |-> insts[i].op,
                                   walk |-> FALSE]]

\* Mutant: a load as last instruction finishes its context too.
AnyLastFinishes(i) == insts[i].last_inst

\* A store as last instruction finishes its context as it leaves the unit.
FinishesInUnit(i) == insts[i].last_inst /\ insts[i].op = "store"

\* All packets of an instruction enter the latency queues of their banks, which
\* have no limit: check_l1_hit_pipeline_full compares with an index that is
\* never set.
process_ldst_inst(i) ==
    LET n == Cardinality(insts[i].addrs)
        load == insts[i].op # "store"
    IN  /\ i \in ldst_units
        /\ ldst_units' = ldst_units \ {i}
        /\ l1_latency_queue' = [b \in Banks |-> l1_latency_queue[b] \o Packets(i, b)]
        /\ acct' = [acct EXCEPT
                      !.pending_ldst = [j \in DOMAIN @ \cup (IF load THEN {i} ELSE {}) |->
                                          IF j = i THEN n ELSE @[j]],
                      !.pending_write_count = IF load THEN @ ELSE @ + n,
                      !.finished_contexts = IF FinishesInUnit(i) THEN Append(@, i) ELSE @]
        /\ UNCHANGED <<mode, insts, spad_units, spad_delay_queue, l1, to_tlb_queue, tlb,
                       tlb_req, to_mem, from_mem, in_memory>>

\* One scratchpad unit: it takes the front of the common delay queue out, then
\* its own instruction i goes in (0: it has none that is due).  The context of
\* a last instruction is finished as it goes in.
process_spad_inst(matured, i) ==
    /\ i \in spad_units \cup {0}
    /\ matured => spad_delay_queue # <<>>
    /\ matured \/ i # 0
    /\ spad_units' = spad_units \ {i}
    /\ LET left == IF matured THEN Tail(spad_delay_queue) ELSE spad_delay_queue
           loaded == matured /\ insts[Head(spad_delay_queue)].op # "store"
           finished == i # 0 /\ insts[i].last_inst
       IN  /\ spad_delay_queue' = IF i = 0 THEN left ELSE Append(left, i)
           /\ acct' = [acct EXCEPT
                         !.to_reg = IF loaded THEN Append(@, Head(spad_delay_queue)) ELSE @,
                         !.finished_contexts = IF finished THEN Append(@, i) ELSE @]
    /\ UNCHANGED <<mode, insts, ldst_units, l1_latency_queue, l1, to_tlb_queue, tlb, tlb_req,
                   to_mem, from_mem, in_memory>>

\* All registers written since the last cycle become ready.
rf_writeback ==
    /\ acct.to_reg # <<>>
    /\ acct' = [acct EXCEPT !.to_reg = <<>>]
    /\ UNCHANGED <<mode, insts, ldst_units, spad_units, spad_delay_queue, l1_latency_queue,
                   l1, to_tlb_queue, tlb, tlb_req, to_mem, from_mem, in_memory>>

-----------------------------------------------------------------------------
(* The L1 and the TLB.                                                     *)

\* What the L1 may do with the front of a latency queue.  A reservation
\* failure leaves it where it is.
L1Outcomes(mf) ==
    IF mf.op = "atomic" /\ Len(to_tlb_queue) < mode.request_queue_size THEN {"bypass"}
    ELSE {o \in {"hit", "miss", "write"} :
            CASE o = "hit"   -> mf.op # "store" /\ CanHit(l1, mf.addr)
              [] o = "miss"  -> mf.op # "store" /\ CanMiss(l1, mf.addr, 1, L1Size)
              [] o = "write" -> mf.op = "store" /\ ~miss_queue_full(l1, 0, L1Size)}

\* One bank: the front of its latency queue accesses the L1 (or, an atomic,
\* goes past it), the L1 gives one answer, and one request goes to the TLB.
process_l1d_access(b, outcome) ==
    LET mf == Head(l1_latency_queue[b])
        accessed == CASE outcome = "miss"  -> send_read_request(l1, mf.addr, mf)
                      [] outcome = "write" -> send_write_request(l1, mf.addr, mf)
                      [] OTHER -> l1
        hit == IF outcome = "hit" THEN handle_response(acct, mf) ELSE acct
        queued == IF outcome = "bypass" THEN Append(to_tlb_queue, mf) ELSE to_tlb_queue
        answer == access_ready(accessed)
        translate == queued # <<>> /\ ~tlb_full(tlb)
    IN  /\ IF outcome = "wait"
           THEN /\ answer \/ translate
                /\ UNCHANGED l1_latency_queue
           ELSE /\ l1_latency_queue[b] # <<>> /\ outcome \in L1Outcomes(mf)
                /\ l1_latency_queue' = [l1_latency_queue EXCEPT ![b] = Tail(@)]
        /\ l1' = IF answer THEN pop_next_access(accessed) ELSE accessed
        /\ acct' = IF answer THEN handle_response(hit, top_next_access(accessed)) ELSE hit
        /\ to_tlb_queue' = IF translate THEN Tail(queued) ELSE queued
        /\ tlb' = IF translate THEN [tlb EXCEPT !.request_queue = Append(@, Head(queued))]
                  ELSE tlb
        /\ UNCHANGED <<mode, insts, ldst_units, spad_units, spad_delay_queue, tlb_req, to_mem,
                       from_mem, in_memory>>

\* Cache::cycle of the L1, whose misses go to the TLB.
l1d_cache_cycle ==
    /\ l1.miss_queue # <<>> /\ ~Full(to_tlb_queue)
    /\ to_tlb_queue' = Append(to_tlb_queue, Head(l1.miss_queue))
    /\ l1' = [l1 EXCEPT !.miss_queue = Tail(@)]
    /\ UNCHANGED <<mode, insts, ldst_units, spad_units, spad_delay_queue, l1_latency_queue,
                   tlb, tlb_req, to_mem, from_mem, in_memory, acct>>

\* What the TLB may do with the front of its request queue; on a hit with no
\* room for the result, and on a reservation failure, it stays there.
TlbOutcomes(t) ==
    LET mf == Head(t.request_queue)
    IN  {o \in {"hit", "miss"} :
            CASE o = "hit"  -> CanHit(t.cache, Page(mf)) /\ ~Full(t.finished_mf)
              [] o = "miss" -> CanMiss(t.cache, Page(mf), 0, TlbSize)}

\* The TLB after the table's own latency is over for the first walk waiting.
DramDone(t) ==
    [t EXCEPT !.dram_queue = Tail(@), !.cache = fill(@, Page(Head(t.dram_queue)))]

\* Mutant: the result is looked at but not taken out.
DeliverAgain(t) ==
    IF access_ready(t.cache) /\ ~Full(t.finished_mf)
    THEN [t EXCEPT !.finished_mf = Append(@, OriginalMf(top_next_access(t.cache)))]
    ELSE t

\* The TLB after one translated request has become a result, if there is one.
Deliver(t) ==
    IF access_ready(t.cache) /\ ~Full(t.finished_mf)
    THEN [t EXCEPT !.finished_mf = Append(@, OriginalMf(top_next_access(t.cache))),
                   !.cache = pop_next_access(@)]
    ELSE t

\* The TLB after an access by the front of its request queue.
Translate(t, outcome) ==
    LET mf == Head(t.request_queue)
        rest == [t EXCEPT !.request_queue = Tail(@)]
    IN  IF outcome = "hit" THEN [rest EXCEPT !.finished_mf = Append(@, mf)]
        ELSE [rest EXCEPT !.cache = send_read_request(@, Page(mf), Walk(mf))]

\* One bank's round: bank_access_cycle, then the first walk goes to memory if
\* this is its bank.
tlb_cycle(b, matured, outcome) ==
    LET filled == IF matured THEN DramDone(tlb) ELSE tlb
        delivered == Deliver(filled)
        send == tlb_req # <<>> /\ BankOf(Head(tlb_req)) = b /\ ~Full(to_mem[b])
    IN  /\ matured => tlb.dram_queue # <<>>
        /\ IF outcome = "wait" THEN tlb' = delivered
           ELSE /\ delivered.request_queue # <<>> /\ outcome \in TlbOutcomes(delivered)
                /\ tlb' = Translate(delivered, outcome)
        /\ IF send THEN /\ to_mem' = [to_mem EXCEPT ![b] = Append(@, Head(tlb_req))]
                        /\ tlb_req' = Tail(tlb_req)
           ELSE UNCHANGED <<to_mem, tlb_req>>
        /\ UNCHANGED <<mode, insts, ldst_units, spad_units, spad_delay_queue, l1_latency_queue,
                       l1, to_tlb_queue, from_mem, in_memory, acct>>

\* Cache::cycle of the TLB, whose misses become walks.
tlb_cache_cycle ==
    /\ tlb.cache.miss_queue # <<>> /\ ~Full(tlb_req)
    /\ tlb_req' = Append(tlb_req, Head(tlb.cache.miss_queue))
    /\ tlb' = [tlb EXCEPT !.cache.miss_queue = Tail(@)]
    /\ UNCHANGED <<mode, insts, ldst_units, spad_units, spad_delay_queue, l1_latency_queue,
                   l1, to_tlb_queue, to_mem, from_mem, in_memory, acct>>

\* LDSTUnit::cycle sends the translated requests on, up to the first whose
\* bank has no room.
tlb_handle ==
    LET For(b, n) == SelectSeq(SubSeq(tlb.finished_mf, 1, n), LAMBDA mf : BankOf(mf) = b)
        Fits(n) == \A b \in Banks :
                      Len(to_mem[b]) + Len(For(b, n)) <= mode.request_queue_size
        n == Max({m \in 0..Len(tlb.finished_mf) : Fits(m)})
    IN  /\ n > 0
        /\ to_mem' = [b \in Banks |-> to_mem[b] \o For(b, n)]
        /\ tlb' = [tlb EXCEPT !.finished_mf = SubSeq(@, n + 1, Len(@))]
        /\ UNCHANGED <<mode, insts, ldst_units, spad_units, spad_delay_queue, l1_latency_queue,
                       l1, to_tlb_queue, tlb_req, from_mem, in_memory, acct>>

-----------------------------------------------------------------------------
(* Memory.                                                                 *)

\* The entry of a walk is filled, or waits for the table's latency when it is
\* the first use of that entry by any unit (slow).
tlb_fill(mf, slow) ==
    tlb' = IF slow THEN [tlb EXCEPT !.dram_queue = Append(@, mf)]
           ELSE [tlb EXCEPT !.cache = fill(@, Page(mf))]

\* A reply to the load/store unit fills the L1 if the L1 waits for it, which
\* is not asked for an atomic; else it answers a store or an atomic.
handle_from_mem(mf) ==
    IF mf.op # "atomic" /\ waiting_for_fill(l1, mf.addr, mf)
    THEN l1' = fill(l1, mf.addr) /\ UNCHANGED acct
    ELSE acct' = handle_response(acct, mf) /\ UNCHANGED l1

\* The first reply of a bank goes to the TLB if the TLB waits for it.
from_mem_handle(b, slow) ==
    LET mf == Head(from_mem[b])
        of_tlb == mf.walk /\ waiting_for_fill(tlb.cache, Page(mf), mf)
    IN  /\ from_mem[b] # <<>>
        /\ slow => of_tlb /\ mode.dram_tlb_miss_handling
        /\ from_mem' = [from_mem EXCEPT ![b] = Tail(@)]
        /\ IF of_tlb THEN tlb_fill(mf, slow) /\ UNCHANGED <<l1, acct>>
           ELSE handle_from_mem(mf) /\ UNCHANGED tlb
        /\ UNCHANGED <<mode, insts, ldst_units, spad_units, spad_delay_queue, l1_latency_queue,
                       to_tlb_queue, tlb_req, to_mem, in_memory>>

\* The crossbar takes a request of a bank's queue to memory.
MemoryAccept(b) ==
    /\ to_mem[b] # <<>>
    /\ in_memory' = in_memory \cup {Head(to_mem[b])}
    /\ to_mem' = [to_mem EXCEPT ![b] = Tail(@)]
    /\ UNCHANGED <<mode, insts, ldst_units, spad_units, spad_delay_queue, l1_latency_queue,
                   l1, to_tlb_queue, tlb, tlb_req, from_mem, acct>>

\* It brings back any answer that is ready, when the queue has room.
MemoryReply(mf) ==
    /\ mf \in in_memory /\ ~Full(from_mem[BankOf(mf)])
    /\ in_memory' = in_memory \ {mf}
    /\ from_mem' = [from_mem EXCEPT ![BankOf(mf)] = Append(@, mf)]
    /\ UNCHANGED <<mode, insts, ldst_units, spad_units, spad_delay_queue, l1_latency_queue,
                   l1, to_tlb_queue, tlb, tlb_req, to_mem, acct>>

-----------------------------------------------------------------------------
Init ==
    /\ mode \in Modes
    /\ insts = <<>>
    /\ ldst_units = {} /\ spad_units = {} /\ spad_delay_queue = <<>>
    /\ l1_latency_queue = [b \in Banks |-> <<>>]
    /\ l1 = EmptyCache
    /\ to_tlb_queue = <<>>
    /\ tlb = [cache |-> EmptyCache, request_queue |-> <<>>, dram_queue |-> <<>>,
              finished_mf |-> <<>>]
    /\ tlb_req = <<>>
    /\ to_mem = [b \in Banks |-> <<>>] /\ from_mem = [b \in Banks |-> <<>>]
    /\ in_memory = {}
    /\ acct = [pending_ldst |-> [i \in {} |-> 0], pending_write_count |-> 0,
               to_reg |-> <<>>, finished_contexts |-> <<>>]

vars == <<mode, insts, ldst_units, spad_units, spad_delay_queue, l1_latency_queue, l1,
          to_tlb_queue, tlb, tlb_req, to_mem, from_mem, in_memory, acct>>

Next ==
    \/ \E k \in InstKinds : issue_ldst_unit(k)
    \/ \E i \in ldst_units : process_ldst_inst(i)
    \/ \E matured \in BOOLEAN, i \in spad_units \cup {0} : process_spad_inst(matured, i)
    \/ rf_writeback
    \/ \E b \in Banks, outcome \in {"wait", "bypass", "hit", "miss", "write"} :
          process_l1d_access(b, outcome)
    \/ l1d_cache_cycle
    \/ \E b \in Banks, matured \in BOOLEAN, outcome \in {"wait", "hit", "miss"} :
          tlb_cycle(b, matured, outcome)
    \/ tlb_cache_cycle
    \/ tlb_handle
    \/ \E b \in Banks, slow \in BOOLEAN : from_mem_handle(b, slow)
    \/ \E b \in Banks : MemoryAccept(b)
    \/ \E mf \in in_memory : MemoryReply(mf)

\* Every handler runs in every cycle, so it does not stop while one of its
\* rounds could change something; a bounded program keeps no round from its
\* turn for good.  Issuing is up to the program.
Fairness ==
    /\ WF_vars(\E i \in ldst_units : process_ldst_inst(i))
    /\ WF_vars(\E matured \in BOOLEAN, i \in spad_units \cup {0} : process_spad_inst(matured, i))
    /\ WF_vars(rf_writeback)
    /\ WF_vars(\E b \in Banks, outcome \in {"wait", "bypass", "hit", "miss", "write"} :
                  process_l1d_access(b, outcome))
    /\ WF_vars(\E b \in Banks, matured \in BOOLEAN, outcome \in {"wait", "hit", "miss"} :
                  tlb_cycle(b, matured, outcome))
    /\ WF_vars(l1d_cache_cycle) /\ WF_vars(tlb_cache_cycle) /\ WF_vars(tlb_handle)
    /\ WF_vars(\E b \in Banks, slow \in BOOLEAN : from_mem_handle(b, slow))
    /\ WF_vars(\E b \in Banks : MemoryAccept(b))
    /\ WF_vars(\E mf \in in_memory : MemoryReply(mf))

Spec == Init /\ [][Next]_vars /\ Fairness

-----------------------------------------------------------------------------
(* Where a packet is.                                                      *)

\* How often mf occurs in a sequence, and in the sequences of a function.
InSeq(seq, mf) == Cardinality({n \in DOMAIN seq : seq[n] = mf})
InSeqs(f, mf) == MapThenSumSet(LAMBDA k : InSeq(f[k], mf), DOMAIN f)

\* All packets of the instructions handed to the L1 pipeline so far.
IssuedPackets ==
    UNION {{[inst |-> i, addr |-> a, op |-> insts[i].op, walk |-> FALSE] : a \in insts[i].addrs} :
             i \in {j \in DOMAIN insts : ~insts[j].spad /\ j \notin ldst_units}}

InMemoryPath(mf) ==
    InSeqs(to_mem, mf) + InSeqs(from_mem, mf) + (IF mf \in in_memory THEN 1 ELSE 0)

\* How often the packet is between the L1 and the answer of the memory; one
\* that waits for its translation is represented by its walk.
OnPath(mf) ==
    InSeq(l1.miss_queue, mf) + InSeq(to_tlb_queue, mf) + InSeq(tlb.request_queue, mf)
    + InSeqs(tlb.cache.mshrs, Walk(mf)) + InSeq(tlb.finished_mf, mf) + InMemoryPath(mf)

WalkOnPath(walk) ==
    InSeq(tlb.cache.miss_queue, walk) + InSeq(tlb_req, walk) + InSeq(tlb.dram_queue, walk)
    + InMemoryPath(walk)

\* The fetches a cache has sent and whose data it has not.
Fetching(c) == {c.mshrs[a][1] : a \in DOMAIN c.mshrs \ ToSet(c.current_response)}

\* How often a packet is waiting, with its instruction, for an answer.
Outstanding(mf) ==
    InSeqs(l1_latency_queue, mf)
    + (IF mf.op = "load" THEN InSeqs(l1.mshrs, mf) ELSE OnPath(mf))

OutstandingOf(i) ==
    MapThenSumSet(LAMBDA mf : Outstanding(mf), {mf \in IssuedPackets : mf.inst = i})

-----------------------------------------------------------------------------
(* Properties.                                                             *)

\* The variables hold values of their types, and each queue that tests for
\* room before it is pushed stays within its size.
TypeOK ==
    /\ mode \in Modes /\ insts \in Seq(InstKinds)
    /\ ldst_units \cup spad_units \cup ToSet(spad_delay_queue) \subseteq DOMAIN insts
    /\ \A queue \in {to_tlb_queue, tlb.request_queue, tlb.dram_queue, tlb.finished_mf, tlb_req,
                     l1.miss_queue, tlb.cache.miss_queue}
                   \cup ToSet(l1_latency_queue) \cup ToSet(to_mem) \cup ToSet(from_mem) :
          queue \in Seq(MemFetch)
    /\ in_memory \subseteq MemFetch
    /\ DOMAIN acct.pending_ldst \subseteq DOMAIN insts
    /\ acct.pending_write_count \in Nat

\* A load is pending exactly as long as one of its packets is unanswered, and
\* its count is the number of them: no packet is answered twice or lost, so
\* handle_response (ldst_unit.cc) completes the load once and with its last
\* packet, although packets hit, merge and come back from memory in any order.
LoadsCounted ==
    \A i \in DOMAIN insts :
      ~insts[i].spad /\ insts[i].op # "store" /\ i \notin ldst_units =>
        IF i \in DOMAIN acct.pending_ldst THEN acct.pending_ldst[i] = OutstandingOf(i)
        ELSE OutstandingOf(i) = 0

\* m_pending_write_count is the number of store packets not acknowledged, so
\* an LDSTUnit that says it is not active has no store on the way.
StoresCounted ==
    acct.pending_write_count =
      MapThenSumSet(LAMBDA mf : Outstanding(mf), {mf \in IssuedPackets : mf.op = "store"})

\* The way to memory neither drops nor repeats a request: the L1 waits for
\* exactly the loads that are on it, each once, also while a load is parked in
\* the TLB behind a walk; and the TLB waits for exactly the walks on theirs.
PathExact ==
    /\ \A mf \in IssuedPackets :
          /\ mf.op = "load" => OnPath(mf) = IF mf \in Fetching(l1) THEN 1 ELSE 0
          /\ WalkOnPath(Walk(mf)) = IF Walk(mf) \in Fetching(tlb.cache) THEN 1 ELSE 0
          /\ Outstanding(mf) <= 1

\* A context is finished at most once, by its last instruction, and one that
\* ends with a global load only when all packets of the load are answered.
FinishedOnce ==
    /\ IsInjective(acct.finished_contexts)
    /\ \A i \in ToSet(acct.finished_contexts) :
          /\ insts[i].last_inst
          /\ ~insts[i].spad /\ insts[i].op # "store" => OutstandingOf(i) = 0

\* Atomics are performed at the L2 and never enter the L1, as the comment in
\* process_ldst_inst says.  The code bypasses the L1 only while the queue to the
\* TLB has room.
AtomicsPassL1 ==
    \A a \in DOMAIN l1.mshrs : \A mf \in ToSet(l1.mshrs[a]) : mf.op # "atomic"

\* Every load and store that is issued leaves its unit, is answered, and
\* its register is handed on, whatever the other requests do: the bounded
\* queues between L1, TLB and memory, which walks share with the requests that
\* wait for them, never block each other for good.
Served ==
    /\ \A i \in 1..MaxInsts :
          (i \in DOMAIN insts) ~>
            i \notin UNION {ldst_units, spad_units, ToSet(spad_delay_queue),
                           DOMAIN acct.pending_ldst, ToSet(acct.to_reg)}
    /\ []<>(acct.pending_write_count = 0)
=============================================================================

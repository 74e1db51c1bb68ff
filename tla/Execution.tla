----------------------------- MODULE Execution -----------------------------
(***************************************************************************)
(* How a sub-core executes the columns in its instruction queue: fetching  *)
(* through the two instruction caches, issue under the ready bits of the   *)
(* register unit, the execution units, and what is left when a column      *)
(* finishes: its registers go to the next column.                          *)
(*                                                                         *)
(* A handler is an action, and a round of its loop over columns, fetches   *)
(* or units a step.  Latencies and initiation intervals are open.  The     *)
(* stages whose order matters, the release of finished columns and the     *)
(* write-back after it, are one step.  Memory is outside; LoadStore has    *)
(* the way of a load to it.                                                *)
(***************************************************************************)
EXTENDS Integers, FiniteSetsExt, MshrCache

CONSTANTS
    Programs,        \* sequence of programs, the code a column may have
    NumRegs,         \* physical registers of the sub-core
    UthreadSlots,    \* columns in the instruction queue
    FifoSize,        \* capacity of each fifo
    InstsPerBlock,   \* instructions in a cache block
    L0Size, L1Size,  \* CacheSizes of the instruction caches
    MaxColumns,      \* bound: columns in one behaviour
    MaxLoops         \* bound: branches taken by one column

Ops == {"alu", "branch", "fpu", "load", "store", "scalar_store", "spad_load", "logic", "exit"}

\* src are the registers an instruction reads (a store: its base, then its
\* data), dest the one it writes or 0, target where a branch goes.
Instructions == [op : Ops, src : Seq(Nat), dest : Nat, target : Nat]

ASSUME ExecutionAssumption ==
    /\ \A p \in DOMAIN Programs : \A n \in DOMAIN Programs[p] :
         Programs[p][n].op \in {"store", "scalar_store"} => Len(Programs[p][n].src) = 2
    /\ Programs \in Seq(Seq(Instructions)) /\ \A p \in DOMAIN Programs : Programs[p] # <<>>
    /\ {NumRegs, MaxColumns, MaxLoops} \subseteq Nat
    /\ {UthreadSlots, FifoSize, InstsPerBlock} \subseteq Nat \ {0}
    /\ L0Size \in CacheSizes /\ L1Size \in CacheSizes

VARIABLES
    after_rename, \* columns that have their registers and wait for a slot
    columns,      \* the instruction queue
    num_columns,  \* columns so far
    free_regs, not_ready,
    units,        \* unit -> operations in it
    to_ldst, to_spad, in_ldst, in_spad,
    to_reg, finished_contexts,
    icache_queue, l0_icache, to_icache, l1_icache, inst_memory, from_icache

fetch_vars == <<icache_queue, l0_icache, to_icache, l1_icache, inst_memory, from_icache>>
memory_vars == <<to_ldst, to_spad, in_ldst, in_spad>>
other_vars == <<after_rename, num_columns, free_regs>>
exec_vars == <<not_ready, units, to_reg, finished_contexts, memory_vars>>
vars == <<after_rename, columns, num_columns, free_regs, not_ready, units, to_reg, finished_contexts,
          memory_vars, fetch_vars>>

Units == {"i", "f", "address"}
Full(queue) == Len(queue) >= FifoSize

\* The column with an identity, and the queue after it is changed; a pointer
\* to a column that is gone changes nothing here.
Alive(id) == \E c \in DOMAIN columns : columns[c].id = id
Column(id) == columns[CHOOSE c \in DOMAIN columns : columns[c].id = id]
Updated(id, col) == [c \in DOMAIN columns |-> IF columns[c].id = id THEN col ELSE columns[c]]

Code(col) == Programs[col.program]

-----------------------------------------------------------------------------
(* Columns come and go.                                                    *)

\* The registers a column takes, in the order in which Convert meets them: x1
\* and x2 for its address and offset, then each one it writes.
Taken(program) ==
    FoldLeft(LAMBDA seen, inst : IF inst.dest = 0 \/ inst.dest \in ToSet(seen) THEN seen
                                 ELSE Append(seen, inst.dest),
             <<1, 2>>, program)

\* The registers that RenameFull asks for (NdpUnit has the difference).
Required(program) == {program[n].dest : n \in DOMAIN program} \ {0}

\* Each register the column takes becomes the next free one.
instruction_register_allocate(p) ==
    LET taken == Taken(Programs[p])
    IN  /\ num_columns < MaxColumns
        /\ Cardinality(Required(Programs[p])) <= Len(free_regs)
        /\ num_columns' = num_columns + 1
        /\ after_rename' = Append(after_rename,
             [id |-> num_columns + 1, program |-> p, pc |-> 1, block |-> FALSE,
              pending |-> FALSE, current_inst |-> 0, taken |-> 0,
              mapping |-> [r \in ToSet(taken) |->
                             free_regs[CHOOSE n \in DOMAIN taken : taken[n] = r]]])
        /\ free_regs' = SubSeq(free_regs, Len(taken) + 1, Len(free_regs))
        /\ UNCHANGED <<columns, exec_vars, fetch_vars>>

\* The first renamed column gets a slot of the instruction queue.
instruction_queue_allocate ==
    /\ after_rename # <<>> /\ Len(columns) < UthreadSlots
    /\ columns' = Append(columns, Head(after_rename))
    /\ after_rename' = Tail(after_rename)
    /\ UNCHANGED <<num_columns, free_regs, exec_vars, fetch_vars>>

\* Mutant: x1 and x2 are not put back.
FreeWritten(free, id) ==
    LET mapping == Column(id).mapping
        sorted == SetToSortSeq(DOMAIN mapping \ {1, 2}, <)
    IN  free \o [n \in DOMAIN sorted |-> mapping[sorted[n]]]

\* The free list after the registers of a finished column were put back, in the
\* order of the map they are kept in.
FreeRegs(free, id) ==
    LET mapping == Column(id).mapping
        sorted == SetToSortSeq(DOMAIN mapping, <)
    IN  free \o [n \in DOMAIN sorted |-> mapping[sorted[n]]]

\* The first two stages of NdpUnit::cycle: all finished columns are taken out
\* of the queue and their registers freed, then all registers that were
\* loaded become ready.
handle_finished_and_writeback ==
    /\ finished_contexts # <<>> \/ to_reg # <<>>
    /\ free_regs' = FoldLeft(FreeRegs, free_regs, finished_contexts)
    /\ columns' = SelectSeq(columns, LAMBDA col : col.id \notin ToSet(finished_contexts))
    /\ not_ready' = not_ready \ ToSet(to_reg)
    /\ finished_contexts' = <<>> /\ to_reg' = <<>>
    /\ UNCHANGED <<after_rename, num_columns, units, memory_vars, fetch_vars>>

-----------------------------------------------------------------------------
(* Fetching.                                                               *)

\* A fetch names its column; its block follows from the program counter at the
\* time of the request.
BlockOf(mf) == <<mf.program, (mf.pc - 1) \div InstsPerBlock>>

\* Mutant: the column stays marked as waiting.
PendingKept(mf) ==
    IF ~Alive(mf.id) THEN columns
    ELSE Updated(mf.id, [Column(mf.id) EXCEPT !.current_inst = Column(mf.id).pc])

\* The queue after an instruction has come for a column: the one at its
\* program counter now.
Delivered(mf) ==
    IF ~Alive(mf.id) THEN columns
    ELSE Updated(mf.id, [Column(mf.id) EXCEPT !.current_inst = Column(mf.id).pc,
                                              !.pending = FALSE])

CanRequest(col) ==
    col.current_inst = 0 /\ ~col.block /\ ~col.pending /\ col.pc <= Len(Code(col))

\* A column that has no instruction asks for the next one.
request_fetch(c) ==
    /\ CanRequest(columns[c])
    /\ columns' = [columns EXCEPT ![c].pending = TRUE]
    /\ icache_queue' = Append(icache_queue, [id |-> columns[c].id, pc |-> columns[c].pc,
                                             program |-> columns[c].program])
    /\ UNCHANGED <<other_vars, exec_vars, l0_icache, to_icache, l1_icache, inst_memory, from_icache>>

\* The first fetch finds its block in the L0 cache, or waits for it there.
access_l0(outcome) ==
    LET mf == Head(icache_queue)
    IN  /\ icache_queue # <<>>
        /\ icache_queue' = Tail(icache_queue)
        /\ \/ /\ outcome = "hit" /\ CanHit(l0_icache, BlockOf(mf))
              /\ columns' = Delivered(mf)
              /\ UNCHANGED l0_icache
           \/ /\ outcome = "miss" /\ CanMiss(l0_icache, BlockOf(mf), 0, L0Size)
              /\ l0_icache' = send_read_request(l0_icache, BlockOf(mf), mf)
              /\ UNCHANGED columns
        /\ UNCHANGED <<other_vars, exec_vars, to_icache, l1_icache, inst_memory, from_icache>>

\* A fetch that waited for its block is served.
l0_ready ==
    /\ access_ready(l0_icache)
    /\ columns' = Delivered(top_next_access(l0_icache))
    /\ l0_icache' = pop_next_access(l0_icache)
    /\ UNCHANGED <<other_vars, exec_vars, icache_queue, to_icache, l1_icache, inst_memory, from_icache>>

\* The L0 cache takes the block it waits for, and sends its first miss on.
l0_inst_cache_cycle ==
    LET mf == Head(from_icache)
        take == from_icache # <<>> /\ waiting_for_fill(l0_icache, BlockOf(mf), mf)
        filled == IF take THEN fill(l0_icache, BlockOf(mf)) ELSE l0_icache
        send == filled.miss_queue # <<>> /\ ~Full(to_icache)
    IN  /\ take \/ send
        /\ from_icache' = IF take THEN Tail(from_icache) ELSE from_icache
        /\ to_icache' = IF send THEN Append(to_icache, Head(filled.miss_queue)) ELSE to_icache
        /\ l0_icache' = IF send THEN [filled EXCEPT !.miss_queue = Tail(@)] ELSE filled
        /\ UNCHANGED <<columns, other_vars, exec_vars, icache_queue, l1_icache, inst_memory>>

\* The L1 cache sends its first miss on, answers the fetch at the head of its
\* queue, and one that waited; each answer needs room in the fifo back.  The
\* queue is the fifo from the sub-core, its latency being open.
l1_send ==
    /\ l1_icache.miss_queue # <<>>
    /\ inst_memory' = inst_memory \cup {Head(l1_icache.miss_queue)}
    /\ l1_icache' = [l1_icache EXCEPT !.miss_queue = Tail(@)]
    /\ UNCHANGED <<columns, other_vars, exec_vars, icache_queue, l0_icache, to_icache,
                   from_icache>>

access_l1(outcome) ==
    LET mf == Head(to_icache)
    IN  /\ to_icache # <<>>
        /\ to_icache' = Tail(to_icache)
        /\ \/ /\ outcome = "hit" /\ CanHit(l1_icache, BlockOf(mf)) /\ ~Full(from_icache)
              /\ from_icache' = Append(from_icache, mf)
              /\ UNCHANGED l1_icache
           \/ /\ outcome = "miss" /\ CanMiss(l1_icache, BlockOf(mf), 0, L1Size)
              /\ l1_icache' = send_read_request(l1_icache, BlockOf(mf), mf)
              /\ UNCHANGED from_icache
        /\ UNCHANGED <<columns, other_vars, exec_vars, icache_queue, l0_icache, inst_memory>>

l1_ready ==
    /\ access_ready(l1_icache) /\ ~Full(from_icache)
    /\ from_icache' = Append(from_icache, top_next_access(l1_icache))
    /\ l1_icache' = pop_next_access(l1_icache)
    /\ UNCHANGED <<columns, other_vars, exec_vars, icache_queue, l0_icache, to_icache,
                   inst_memory>>

\* External: the instruction TLB and memory answer in any order, and
\* from_mem_handle gives the block to the L1 cache that waits for it.
InstReply(mf) ==
    /\ waiting_for_fill(l1_icache, BlockOf(mf), mf)
    /\ l1_icache' = fill(l1_icache, BlockOf(mf))
    /\ inst_memory' = inst_memory \ {mf}
    /\ UNCHANGED <<columns, other_vars, exec_vars, icache_queue, l0_icache, to_icache,
                   from_icache>>

-----------------------------------------------------------------------------
(* Issue and execution.                                                    *)

Stores == {"store", "scalar_store"}
MemoryOps == Stores \cup {"load", "spad_load"}

get_unit(op) == CASE op \in MemoryOps -> "address" [] op = "fpu" -> "f" [] OTHER -> "i"

\* Mutant: only the first source is looked at.
FirstSource(inst) == {inst.src[n] : n \in {1} \cap DOMAIN inst.src}

\* The sources check_dependency_fail asks for: of a scalar store its base and
\* the offset, not its data; of AND, OR, LB and their like none.
CheckedSources(inst) ==
    CASE inst.op = "scalar_store" -> {inst.src[1]}
      [] inst.op \in {"logic", "exit"} -> {}
      [] OTHER -> ToSet(inst.src)

\* The instruction a column has been given, as it is in flight: its registers
\* renamed, and marked if it is the last.  A branch marks the number
\* of a register before renaming, which nobody asks for: its dest is 0.
Operation(col) ==
    LET inst == Code(col)[col.current_inst]
    IN  [id |-> col.id, op |-> inst.op, target |-> inst.target,
         order |-> <<col.taken, col.current_inst>>,
         src |-> {col.mapping[r] : r \in ToSet(inst.src)},
         dest |-> IF inst.dest = 0 THEN 0 ELSE col.mapping[inst.dest],
         last_inst |-> col.current_inst = Len(Code(col)) /\ inst.op # "branch"]

can_fetch(col) == ~col.block /\ ~col.pending /\ col.current_inst # 0

\* The column's instruction goes to a unit; a branch blocks the column, an
\* exit finishes it at once.
issue(c) ==
    LET col == columns[c]
        inst == Code(col)[col.current_inst]
        operation == Operation(col)
    IN  /\ can_fetch(col)
        /\ {col.mapping[r] : r \in CheckedSources(inst)} \cap not_ready = {}
        /\ \/ /\ inst.op = "exit"
              /\ finished_contexts' = Append(finished_contexts, col.id)
              /\ UNCHANGED <<units, not_ready>>
           \/ /\ inst.op # "exit"
              /\ units' = [units EXCEPT ![get_unit(inst.op)] = Append(@, operation)]
              /\ not_ready' = not_ready \cup ({operation.dest} \ {0})
              /\ UNCHANGED finished_contexts
        /\ columns' = [columns EXCEPT ![c] =
             [col EXCEPT !.current_inst = 0,
                         !.block = (inst.op = "branch"),
                         !.pc = IF inst.op = "branch" THEN @ ELSE @ + 1]]
        /\ UNCHANGED <<other_vars, to_reg, memory_vars, fetch_vars>>

FinishIf(last, id) ==
    finished_contexts' = IF last THEN Append(finished_contexts, id) ELSE finished_contexts

\* A unit's oldest operation is done: its register is ready.
process_default_execution_units(unit) ==
    LET operation == Head(units[unit])
    IN  /\ units[unit] # <<>> /\ operation.op # "branch"
        /\ units' = [units EXCEPT ![unit] = Tail(@)]
        /\ not_ready' = not_ready \ {operation.dest}
        /\ FinishIf(operation.last_inst, operation.id)
        /\ UNCHANGED <<columns, other_vars, to_reg, memory_vars, fetch_vars>>

\* Mutant: one instruction too early.
AtEnd(col, pc) == pc >= Len(Code(col))

PastEnd(col, pc) == pc > Len(Code(col))

\* A branch is done: the column goes on at its target or after it, and is
\* finished when there is nothing after it.
execute_branch(take) ==
    LET operation == Head(units["i"])
        col == Column(operation.id)
        pc == IF take THEN operation.target ELSE col.pc + 1
    IN  /\ units["i"] # <<>> /\ operation.op = "branch" /\ Alive(operation.id)
        /\ take => col.taken < MaxLoops
        /\ units' = [units EXCEPT !["i"] = Tail(@)]
        /\ columns' = Updated(col.id,
             [col EXCEPT !.block = FALSE, !.pc = pc, !.taken = IF take THEN @ + 1 ELSE @])
        /\ FinishIf(PastEnd(col, pc), col.id)
        /\ UNCHANGED <<other_vars, not_ready, to_reg, memory_vars, fetch_vars>>

\* A memory operation has its address and goes to the unit that does it.
process_address_inst ==
    LET operation == Head(units["address"])
        spad_op == operation.op = "spad_load"
    IN  /\ units["address"] # <<>>
        /\ ~Full(IF spad_op THEN to_spad ELSE to_ldst)
        /\ units' = [units EXCEPT !["address"] = Tail(@)]
        /\ to_spad' = IF spad_op THEN Append(to_spad, operation) ELSE to_spad
        /\ to_ldst' = IF spad_op THEN to_ldst ELSE Append(to_ldst, operation)
        /\ UNCHANGED <<columns, other_vars, not_ready, to_reg, finished_contexts, in_ldst,
                       in_spad, fetch_vars>>

\* The load/store unit takes an operation, asking its column for the vector
\* length.
connect_to_ldst_unit ==
    /\ to_ldst # <<>>
    /\ in_ldst' = in_ldst \cup {Head(to_ldst)} /\ to_ldst' = Tail(to_ldst)
    /\ UNCHANGED <<columns, other_vars, not_ready, units, to_reg, finished_contexts,
                   to_spad, in_spad, fetch_vars>>

\* A load has come back, or a store has been sent: LoadStore has the steps
\* in between.
ldst_done(operation) ==
    /\ in_ldst' = in_ldst \ {operation}
    /\ to_reg' = IF operation.op = "load" THEN Append(to_reg, operation.dest) ELSE to_reg
    /\ FinishIf(operation.last_inst, operation.id)
    /\ UNCHANGED <<columns, other_vars, not_ready, units, to_ldst, to_spad, in_spad,
                   fetch_vars>>

\* Mutant: the register is ready when the load enters the delay queue.
SpadReadyEarly ==
    /\ to_spad # <<>>
    /\ in_spad' = Append(in_spad, Head(to_spad)) /\ to_spad' = Tail(to_spad)
    /\ not_ready' = not_ready \ {Head(to_spad).dest}
    /\ FinishIf(Head(to_spad).last_inst, Head(to_spad).id)
    /\ UNCHANGED <<columns, other_vars, units, to_reg, to_ldst, in_ldst, fetch_vars>>

\* The scratchpad unit finishes the column when the load enters the delay
\* queue, and writes the register when it leaves it.
process_spad_inst ==
    /\ to_spad # <<>>
    /\ in_spad' = Append(in_spad, Head(to_spad)) /\ to_spad' = Tail(to_spad)
    /\ FinishIf(Head(to_spad).last_inst, Head(to_spad).id)
    /\ UNCHANGED <<columns, other_vars, not_ready, units, to_reg, to_ldst, in_ldst,
                   fetch_vars>>

spad_done ==
    /\ in_spad # <<>>
    /\ to_reg' = Append(to_reg, Head(in_spad).dest) /\ in_spad' = Tail(in_spad)
    /\ UNCHANGED <<columns, other_vars, not_ready, units, finished_contexts, to_ldst,
                   to_spad, in_ldst, fetch_vars>>

-----------------------------------------------------------------------------

Init ==
    /\ after_rename = <<>> /\ columns = <<>> /\ num_columns = 0
    /\ free_regs = [n \in 1..NumRegs |-> n] /\ not_ready = {}
    /\ units = [u \in Units |-> <<>>]
    /\ to_ldst = <<>> /\ to_spad = <<>> /\ in_ldst = {} /\ in_spad = <<>>
    /\ to_reg = <<>> /\ finished_contexts = <<>>
    /\ icache_queue = <<>> /\ to_icache = <<>> /\ from_icache = <<>> /\ inst_memory = {}
    /\ l0_icache = EmptyCache /\ l1_icache = EmptyCache

Fetching ==
    \/ \E c \in DOMAIN columns : request_fetch(c)
    \/ \E outcome \in {"hit", "miss"} : access_l0(outcome)
    \/ \E outcome \in {"hit", "miss"} : access_l1(outcome)
    \/ l0_ready
    \/ l0_inst_cache_cycle
    \/ l1_send
    \/ l1_ready
    \/ \E mf \in inst_memory : InstReply(mf)

Executing ==
    \/ \E c \in DOMAIN columns : issue(c)
    \/ \E unit \in {"i", "f"} : process_default_execution_units(unit)
    \/ \E take \in BOOLEAN : execute_branch(take)
    \/ process_address_inst
    \/ connect_to_ldst_unit
    \/ \E operation \in in_ldst : ldst_done(operation)
    \/ process_spad_inst
    \/ spad_done

Work ==
    \/ instruction_queue_allocate
    \/ handle_finished_and_writeback
    \/ Fetching
    \/ Executing

Next == Work \/ \E p \in DOMAIN Programs : instruction_register_allocate(p)

Spec == Init /\ [][Next]_vars

\* NdpUnit::cycle and SubCore::cycle call every handler in every cycle: some
\* handler that can do something does it.  This is less than the code gives.
Fairness == WF_vars(Work)

FairSpec == Spec /\ Fairness

-----------------------------------------------------------------------------
(* Properties.  They are about programs that read every register they      *)
(* write, with an instruction that check_dependency_fail makes wait, and   *)
(* whose operations have all been waited for when the last one is done.    *)

Operations ==
    UNION {ToSet(units[u]) : u \in Units} \cup ToSet(to_ldst) \cup ToSet(to_spad)
        \cup in_ldst \cup ToSet(in_spad)

\* Fetches that have not been given to their column, with their places.
Fetches ==
    {[at |-> <<>>, n |-> n, mf |-> icache_queue[n]] : n \in DOMAIN icache_queue}
        \cup UNION {{[at |-> a, n |-> n, mf |-> l0_icache.mshrs[a][n]] :
                        n \in DOMAIN l0_icache.mshrs[a]} : a \in DOMAIN l0_icache.mshrs}

\* The types; the fifos keep to their sizes, and there are never more columns
\* in the instruction queue than slots.
TypeOK ==
    /\ Len(columns) <= UthreadSlots /\ num_columns \in 0..MaxColumns
    /\ \A c \in DOMAIN columns :
         /\ columns[c].pc \in 1..(Len(Code(columns[c])) + 1)
         /\ columns[c].current_inst \in {0, columns[c].pc}
         /\ columns[c].taken \in 0..MaxLoops
    /\ ToSet(free_regs) \cup not_ready \subseteq 1..NumRegs
    /\ \A queue \in {to_ldst, to_spad, to_icache, from_icache} : Len(queue) <= FifoSize

\* The ready bits of register_unit.cc are exact: a register is not ready if and
\* only if an operation that writes it is in a unit, in memory, or has its
\* value on the way to the register file, and then there is one such operation.
ScoreboardExact ==
    LET writers == {operation \in Operations : operation.dest # 0}
    IN  /\ not_ready = {operation.dest : operation \in writers} \cup ToSet(to_reg)
        /\ Cardinality(not_ready) = Cardinality(writers) + Len(to_reg)

\* An instruction that execution_unit.cc issues finds all its sources written:
\* no operation that writes one of them is still in flight.
ReadsAfterWrites ==
    [][\A operation \in Operations' \ Operations :
          /\ operation.src \cap ToSet(to_reg) = {}
          /\ \A earlier \in Operations : earlier.dest \notin operation.src]_vars

\* A physical register belongs to one column or to the free list, whatever the
\* order in which columns finish, and FreeRegs never returns one that an
\* operation is still going to write.
RegistersOwnedOnce ==
    LET owned(col) == {col.mapping[r] : r \in DOMAIN col.mapping}
        all == columns \o after_rename
    IN  /\ \A c, d \in DOMAIN all : c # d => owned(all[c]) \cap owned(all[d]) = {}
        /\ Len(free_regs) = Cardinality(ToSet(free_regs))
        /\ ToSet(free_regs) = 1..NumRegs \ UNION {owned(all[c]) : c \in DOMAIN all}
        /\ ToSet(free_regs) \cap (not_ready \cup ToSet(to_reg)) = {}

\* A column that is about to be deleted is done with: it is in the queue, it is
\* finished once, and neither an operation nor a fetch holds a pointer to it.
FinishedIsQuiet ==
    /\ Len(finished_contexts) = Cardinality(ToSet(finished_contexts))
    /\ \A id \in ToSet(finished_contexts) :
         /\ Alive(id) /\ Column(id).pc > Len(Code(Column(id)))
         /\ \A operation \in Operations : operation.id # id
         /\ \A fetch \in Fetches : fetch.mf.id # id

\* Once no more columns come, all are executed to their end and the sub-core is
\* empty: no fetch is lost in the two caches, no instruction waits for ever for
\* a register, a unit or a fifo, and all registers are free and ready.
ColumnsFinish ==
    <>[](after_rename = <<>> /\ columns = <<>> /\ not_ready = {} /\ Len(free_regs) = NumRegs)
=============================================================================

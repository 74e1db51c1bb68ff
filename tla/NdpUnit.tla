------------------------------ MODULE NdpUnit ------------------------------
(***************************************************************************)
(* One NDP unit (src/src/ndp_unit.cc): the uthread generator together with *)
(* everything a request passes through on its way to a sub-core and back.  *)
(*                                                                         *)
(*   generator -> matched_requests -> instruction buffer -> inst_column_q  *)
(*     -> register renaming -> instruction queue -> finished_contexts      *)
(*     -> generator                                                        *)
(*                                                                         *)
(* NdpUnit::cycle is a sequence of stages; stage is the one to run next.   *)
(* Launches and registrations arrive between two cycles.  How long the     *)
(* instructions of a column take is left open: a column in an instruction  *)
(* queue finishes in some later cycle.  Of the three register files the    *)
(* integer one is modelled, its free list by its length.                   *)
(***************************************************************************)
EXTENDS UThreadGenerator

CONSTANTS
    NumSubCores,
    RequestQueueSize,       \* capacity of an inst_column_q
    UthreadSlots,           \* columns an instruction queue holds
    NumXregs,               \* physical integer registers of a sub-core
    Columns,                \* <<kernel, type, body>> -> its instructions:
                            \*   [empty : BOOLEAN, counted : SUBSET Nat,
                            \*    dests : SUBSET Nat]
    SubCoreCoarseGrained    \* is_subcore_coarse_grained()

SubCores == 0..(NumSubCores - 1)

ASSUME UnitSizesAssumption ==
    /\ NumSubCores \in Nat \ {0}
    /\ RequestQueueSize \in Nat \ {0}
    /\ UthreadSlots \in Nat \ {0}
    /\ NumXregs \in Nat
    /\ CoarseThreads = UthreadSlots * NumSubCores
    /\ SubCoreCoarseGrained \in BOOLEAN

ASSUME ColumnsAssumption ==
    \A k \in KernelIds :
        /\ <<k, "INITIALIZER", 0>> \in DOMAIN Columns
        /\ <<k, "FINALIZER", 0>> \in DOMAIN Columns
        /\ \A b \in 0..(NumKernelBodies[k] - 1) :
              <<k, "KERNEL_BODY", b>> \in DOMAIN Columns

ASSUME DestinationsAssumption ==
    \A c \in DOMAIN Columns :
        IsFiniteSet(Columns[c].counted) /\ IsFiniteSet(Columns[c].dests)

VARIABLES
    stage,               \* of NdpUnit::cycle
    matched_requests,    \* requests the generator has pushed
    inst_columns,        \* columns waiting in the instruction buffer
    inst_column_q,       \* sub-core -> columns sent to it
    last_sub_core_fetched,
    uthread_count,       \* sub-core -> columns it may still be sent
    free_xregs,          \* sub-core -> length of the free list
    xreg_mapping,        \* sub-core -> requests that hold a register mapping
    after_rename,        \* sub-core -> columns renamed, not yet queued
    inst_queue,          \* sub-core -> columns in the instruction queue
    dependency_info,     \* sub-core -> launch -> [type, body, count]
    finished_contexts    \* [request, sub_core], sub_core = -1 for an empty one

unit_vars == <<stage, matched_requests, inst_columns, inst_column_q,
               last_sub_core_fetched, uthread_count, free_xregs, xreg_mapping,
               after_rename, inst_queue, dependency_info, finished_contexts>>

all_vars == <<generator_vars, unit_vars>>

Column(r) == Columns[<<launch_infos[r.launch].kernel, r.type, r.body>>]

-----------------------------------------------------------------------------
(* The register unit.                                                      *)

\* count_required_regs goes by the class of the instruction: the names it counts
\* are the destination fields of the scalar instructions that are neither float
\* nor writes of a CSR.  That leaves out the integer registers which a vector or
\* a float instruction writes (vmv.x.s, vfirst, fmv.x.w), and it takes in the
\* field of instructions that write none.
count_required_regs(r) == Cardinality(Column(r).counted)

\* The registers Convert maps, and takes from the free list: x1 and x2, which
\* carry the address and the offset of the packet, and dests, every integer
\* register an instruction of whatever class writes.
MappedRegs(r) == Column(r).dests \cup {1, 2}

Convert(r) == Cardinality(MappedRegs(r))

ComparesWithAll(sc, r) == count_required_regs(r) > NumXregs

\* The length is unsigned: below zero, after pop_front on an empty list, it is
\* larger than any count.
RenameFull(sc, r) == free_xregs[sc] \in 0..(count_required_regs(r) - 1)

\* What FreeRegs gives back: everything the mapping of the request holds.
FreesDestinations(r) == Cardinality(Column(r).dests \ {1, 2})

FreeRegs(r) == Convert(r)

-----------------------------------------------------------------------------
(* The instruction queue.                                                  *)

\* A column may enter while a slot is free and no column of another phase of
\* its launch is in the queue.
SameStep(sc, r) ==
    r.launch \in DOMAIN dependency_info[sc] =>
        /\ dependency_info[sc][r.launch].type = r.type
        /\ dependency_info[sc][r.launch].body = r.body

can_push(sc, r) == Cardinality(inst_queue[sc]) < UthreadSlots /\ SameStep(sc, r)

\* dependency_info of sc after push of the columns rs, at most one, and after
\* finish_inst_column.
NeverCounts(sc, rs) ==
    LET info == dependency_info[sc]
    IN  [l \in DOMAIN info \cup {r.launch : r \in rs} |->
            IF l \in DOMAIN info THEN info[l]
            ELSE LET r == CHOOSE q \in rs : q.launch = l
                 IN  [type |-> r.type, body |-> r.body, count |-> 1]]

DependencyPush(sc, rs) ==
    LET info == dependency_info[sc]
    IN  [l \in DOMAIN info \cup {r.launch : r \in rs} |->
            IF l \in DOMAIN info
            THEN [info[l] EXCEPT !.count = @ + Cardinality({r \in rs : r.launch = l})]
            ELSE LET r == CHOOSE q \in rs : q.launch = l
                 IN  [type |-> r.type, body |-> r.body, count |-> 1]]

DependencyFinish(sc, r) ==
    LET info == dependency_info[sc]
        last == info[r.launch].count = 1
    IN  [l \in {m \in DOMAIN info : m = r.launch => ~last} |->
            IF l = r.launch THEN [info[l] EXCEPT !.count = @ - 1] ELSE info[l]]

finish_inst_column(sc, r) == inst_queue[sc] \ {r}

-----------------------------------------------------------------------------
(* The stages of NdpUnit::cycle.                                           *)

\* The head of a queue, as a set that is empty when the queue is, and the
\* queue without it when it has been taken.
Heads(q) == IF q = <<>> THEN {} ELSE {Head(q)}
Without(q, taken) == IF taken = {} THEN q ELSE Tail(q)

\* What has been taken, as the queue it joins at its end.
SeqOf(taken) == CHOOSE s \in [1..Cardinality(taken) -> taken] : IsInjective(s)

BeginCycle ==
    /\ stage = <<"idle", 0>> /\ threads = 0
    /\ stage' = <<"finish", 0>>
    /\ UNCHANGED <<generator_vars, matched_requests, inst_columns, inst_column_q,
                   last_sub_core_fetched, uthread_count, free_xregs, xreg_mapping,
                   after_rename, inst_queue, dependency_info, finished_contexts>>

\* handle_finished_context, one context at a time.  The context of an empty
\* column is counted, but frees neither registers nor a column.
HandleFinished ==
    /\ stage = <<"finish", 0>>
    /\ \E c \in finished_contexts :
          /\ handle_finished_context(c.request)
          /\ finished_contexts' = finished_contexts \ {c}
          /\ IF c.sub_core = -1
             THEN UNCHANGED <<free_xregs, xreg_mapping, inst_queue, dependency_info>>
             ELSE LET sc == c.sub_core
                      r == c.request
                  IN  /\ free_xregs' = [free_xregs EXCEPT ![sc] = @ + FreeRegs(r)]
                      /\ xreg_mapping' = [xreg_mapping EXCEPT ![sc] = @ \ {r}]
                      /\ inst_queue' = [inst_queue EXCEPT ![sc] = finish_inst_column(sc, r)]
                      /\ dependency_info' =
                            [dependency_info EXCEPT ![sc] = DependencyFinish(sc, r)]
    /\ UNCHANGED <<stage, matched_requests, inst_columns, inst_column_q,
                   last_sub_core_fetched, uthread_count, after_rename>>

AllFinishedHandled ==
    /\ stage = <<"finish", 0>>
    /\ finished_contexts = {}
    /\ stage' = <<"sub_core", 0>>
    /\ UNCHANGED <<generator_vars, matched_requests, inst_columns, inst_column_q,
                   last_sub_core_fetched, uthread_count, free_xregs, xreg_mapping,
                   after_rename, inst_queue, dependency_info, finished_contexts>>

\* The columns of sc that are still executing.
Running(sc) == {r \in inst_queue[sc] :
                   [request |-> r, sub_core |-> sc] \notin finished_contexts}

\* SubCore::cycle.  done are the columns whose last instruction completes;
\* then instruction_queue_allocate takes one renamed column, and
\* instruction_register_allocate renames one.  An empty column finishes as
\* soon as the instruction queue would take it.
SubCoreCycle(sc, done) ==
    LET entering == {r \in Heads(after_rename[sc]) : can_push(sc, r)}
        empty == {r \in entering : Column(r).empty}
        renamed == {r \in Heads(inst_column_q[sc]) : ~RenameFull(sc, r)}
    IN  /\ stage = <<"sub_core", sc>>
        /\ finished_contexts' = finished_contexts
             \cup {[request |-> r, sub_core |-> sc] : r \in done}
             \cup {[request |-> r, sub_core |-> -1] : r \in empty}
        /\ inst_queue' = [inst_queue EXCEPT ![sc] = @ \cup (entering \ empty)]
        /\ dependency_info' =
              [dependency_info EXCEPT ![sc] = DependencyPush(sc, entering \ empty)]
        /\ inst_column_q' = [inst_column_q EXCEPT ![sc] = Without(@, renamed)]
        /\ free_xregs' = [free_xregs EXCEPT ![sc] =
              IF renamed = {} THEN @ ELSE @ - Convert(Head(inst_column_q[sc]))]
        /\ xreg_mapping' = [xreg_mapping EXCEPT ![sc] = @ \cup renamed]
        /\ after_rename' =
              [after_rename EXCEPT ![sc] = Without(@, entering) \o SeqOf(renamed)]
        /\ stage' = IF sc + 1 \in SubCores THEN <<"sub_core", sc + 1>> ELSE <<"generate", 0>>
        /\ UNCHANGED <<generator_vars, matched_requests, inst_columns,
                       last_sub_core_fetched, uthread_count>>

\* In the coarse grained mode the generator refills the unit when every
\* instruction queue has run dry; the loop is GenerateUthread.
\* The other form refills it in every mode.
RefillsAlways ==
    /\ stage = <<"generate", 0>> /\ threads = 0
    /\ stage' = <<"dispatch", 0>>
    /\ threads' = IF \A sc \in SubCores : inst_queue[sc] = {} THEN CoarseThreads ELSE 0
    /\ UNCHANGED <<next_launch_id, registered_functions, launch_infos, launch_queue,
                   active_launch_ids, generated_requests, total_requests,
                   count_requests, launched, in_flight, matched_requests,
                   inst_columns, inst_column_q, last_sub_core_fetched, uthread_count,
                   free_xregs, xreg_mapping, after_rename, inst_queue,
                   dependency_info, finished_contexts>>

Generate ==
    LET dry == \A sc \in SubCores : inst_queue[sc] = {}
    IN  /\ stage = <<"generate", 0>> /\ threads = 0
        /\ stage' = <<"dispatch", 0>>
        /\ IF CoarseGrained /\ dry THEN generate_uthreads(CoarseThreads)
                                   ELSE UNCHANGED generator_vars
        /\ UNCHANGED <<matched_requests, inst_columns, inst_column_q,
                       last_sub_core_fetched, uthread_count, free_xregs, xreg_mapping,
                       after_rename, inst_queue, dependency_info, finished_contexts>>

\* What a step of the generator pushes into matched_requests, in its order.
NewlyPushed ==
    LET new == in_flight' \ in_flight
    IN  SeqOf({r \in new : r.type = "KERNEL_BODY"})
          \o SeqOf({r \in new : r.type # "KERNEL_BODY"})

GenerateUthread ==
    /\ generate_uthread
    /\ matched_requests' = matched_requests \o NewlyPushed
    /\ UNCHANGED <<stage, inst_columns, inst_column_q, last_sub_core_fetched,
                   uthread_count, free_xregs, xreg_mapping, after_rename,
                   inst_queue, dependency_info, finished_contexts>>

\* connect_instruction_buffer_to_sub_core: round robin from the sub-core after
\* the last one served.  Visited sub-cores with an empty instruction queue
\* get their uthread_count back.
Turn(i) == (last_sub_core_fetched + i) % NumSubCores

CountWhenVisited(sc) == IF inst_queue[sc] = {} THEN UthreadSlots ELSE uthread_count[sc]

Takers == {i \in 1..NumSubCores :
              /\ Len(inst_column_q[Turn(i)]) < RequestQueueSize
              /\ CountWhenVisited(Turn(i)) > 0}

connect_instruction_buffer_to_sub_core ==
    LET i == Min(Takers)
        visited == IF Takers = {} THEN SubCores ELSE {Turn(j) : j \in 1..i}
        counts == [sc \in SubCores |->
                     IF sc \in visited THEN CountWhenVisited(sc) ELSE uthread_count[sc]]
    IN  IF inst_columns = <<>>
        THEN UNCHANGED <<inst_column_q, last_sub_core_fetched, uthread_count>>
        ELSE IF Takers = {}
        THEN /\ uthread_count' = counts
             /\ UNCHANGED <<inst_column_q, last_sub_core_fetched>>
        ELSE /\ inst_column_q' =
                   [inst_column_q EXCEPT ![Turn(i)] = Append(@, Head(inst_columns))]
             /\ last_sub_core_fetched' = Turn(i)
             /\ uthread_count' = IF SubCoreCoarseGrained
                                 THEN [counts EXCEPT ![Turn(i)] = @ - 1] ELSE counts

\* The column that leaves the instruction buffer: none while no sub-core takes
\* it.  The other form takes it out all the same.
PoppedAnyway == Heads(inst_columns)

Fetched == {r \in Heads(inst_columns) : Takers # {}}

\* The rest of the cycle: connect_instruction_buffer_to_sub_core,
\* request_instruction_lookup, UThreadGenerator::cycle and
\* InstructionBuffer::cycle.  The delay queue of the instruction buffer holds
\* one request for one cycle, so what the lookup puts in comes out as a column
\* at the end of the same NdpUnit::cycle.
Dispatch ==
    LET looked_up == Heads(matched_requests)
    IN  /\ stage = <<"dispatch", 0>>
        /\ cycle
        /\ connect_instruction_buffer_to_sub_core
        /\ matched_requests' = Without(matched_requests, looked_up) \o NewlyPushed
        /\ inst_columns' = Without(inst_columns, Fetched) \o SeqOf(looked_up)
        /\ stage' = <<"idle", 0>>
        /\ UNCHANGED <<free_xregs, xreg_mapping, after_rename, inst_queue,
                       dependency_info, finished_contexts>>

-----------------------------------------------------------------------------
(* Calls from M2NDP, between two cycles.                                   *)

register_ndp_kernel(k) ==
    /\ stage = <<"idle", 0>>
    /\ register_kernel(k)
    /\ UNCHANGED unit_vars

launch_ndp_kernel(info) ==
    /\ stage = <<"idle", 0>>
    /\ launch(info)
    /\ UNCHANGED unit_vars

uthread_request ==
    /\ stage = <<"idle", 0>>
    /\ ScWork
    /\ generate_uthreads(1)
    /\ UNCHANGED unit_vars

UnitInit ==
    /\ Init
    /\ stage = <<"idle", 0>>
    /\ matched_requests = <<>>
    /\ inst_columns = <<>>
    /\ inst_column_q = [sc \in SubCores |-> <<>>]
    /\ last_sub_core_fetched = 0
    /\ uthread_count = [sc \in SubCores |-> 0]
    /\ free_xregs = [sc \in SubCores |-> NumXregs]
    /\ xreg_mapping = [sc \in SubCores |-> {}]
    /\ after_rename = [sc \in SubCores |-> <<>>]
    /\ inst_queue = [sc \in SubCores |-> {}]
    /\ dependency_info = [sc \in SubCores |-> [l \in {} |-> l]]
    /\ finished_contexts = {}

\* NdpUnit::cycle, the part that runs whatever the rest of the system does.
UnitCycle ==
    \/ BeginCycle
    \/ HandleFinished
    \/ AllFinishedHandled
    \/ \E sc \in SubCores : \E done \in SUBSET Running(sc) : SubCoreCycle(sc, done)
    \/ Generate
    \/ GenerateUthread
    \/ Dispatch

UnitNext ==
    \/ UnitCycle
    \/ \E k \in KernelIds : register_ndp_kernel(k)
    \/ \E info \in KernelLaunchInfo : launch_ndp_kernel(info)
    \/ uthread_request

UnitSpec == UnitInit /\ [][UnitNext]_all_vars

\* M2NDP::cycle calls NdpUnit::cycle for ever, every instruction completes,
\* and with sc_work the host keeps sending uthread requests.
UnitFairness ==
    /\ SF_all_vars(BeginCycle)
    /\ WF_all_vars(UnitCycle)
    /\ \A sc \in SubCores :
          SF_all_vars(\E done \in SUBSET Running(sc) \ {{}} : SubCoreCycle(sc, done))
    /\ SF_all_vars(uthread_request)

UnitFairSpec == UnitSpec /\ UnitFairness

-----------------------------------------------------------------------------
(* Properties.                                                             *)

Stages == {<<"idle", 0>>, <<"finish", 0>>, <<"generate", 0>>, <<"dispatch", 0>>}
            \cup ({"sub_core"} \X SubCores)

\* The unit's own state.  A dependency entry counts at least one column, and no
\* more than the instruction queue has slots.
UnitTypeOK ==
    /\ stage \in Stages
    /\ matched_requests \in Seq(Request)
    /\ inst_columns \in Seq(Request)
    /\ inst_column_q \in [SubCores -> Seq(Request)]
    /\ last_sub_core_fetched \in SubCores
    /\ uthread_count \in [SubCores -> 0..UthreadSlots]
    /\ free_xregs \in [SubCores -> Int]
    /\ xreg_mapping \in [SubCores -> SUBSET Request]
    /\ after_rename \in [SubCores -> Seq(Request)]
    /\ inst_queue \in [SubCores -> SUBSET Request]
    /\ \A sc \in SubCores :
          /\ Len(inst_column_q[sc]) <= RequestQueueSize
          /\ Cardinality(inst_queue[sc]) <= UthreadSlots
          /\ DOMAIN dependency_info[sc] \subseteq LaunchIds
          /\ \A l \in DOMAIN dependency_info[sc] :
                dependency_info[sc][l].count \in 1..UthreadSlots
    /\ \A c \in finished_contexts :
          c.request \in Request /\ c.sub_core \in SubCores \cup {-1}

\* The places a request in flight can be in, as a bag: where -> how often.
Places(r) ==
    {<<"matched", i>> : i \in {j \in 1..Len(matched_requests) : matched_requests[j] = r}}
    \cup {<<"buffer", i>> : i \in {j \in 1..Len(inst_columns) : inst_columns[j] = r}}
    \cup (UNION {{<<"sent", sc, i>> :
                     i \in {j \in 1..Len(inst_column_q[sc]) : inst_column_q[sc][j] = r}}
                 \cup {<<"renamed", sc, i>> :
                     i \in {j \in 1..Len(after_rename[sc]) : after_rename[sc][j] = r}}
                 : sc \in SubCores})
    \cup {<<"queue", sc>> : sc \in {s \in SubCores : r \in inst_queue[s]}}
    \cup {<<"empty", c>> : c \in {d \in finished_contexts : d.request = r /\ d.sub_core = -1}}

\* A request the generator waits for is in exactly one place of the unit: none
\* is dropped between two queues and none is duplicated.
OnePlace == \A r \in in_flight : Cardinality(Places(r)) = 1

\* The unit keeps the generator's side of the bargain: whatever a sub-core hands
\* back is a request the generator has pushed and has not counted yet.
UnitImplementsGenerator == Spec

\* InstructionQueue::can_push refuses a column while another phase of its
\* launch is in the queue.  The generator's barrier makes that check
\* redundant: a column that has left the generator is never held back by it,
\* so it cannot block the columns of other launches behind it.
DependencyNeverStalls ==
    \A sc \in SubCores :
        \A i \in 1..Len(after_rename[sc]) : SameStep(sc, after_rename[sc][i])

LaunchesOf(queue) == {r.launch : r \in queue}

ColumnsOf(l, queue) == {r \in queue : r.launch = l}

\* The dependency table counts the columns of each launch in the queue, as
\* the assertions in push and finish_inst_column expect.
DependencyCounts ==
    \A sc \in SubCores :
        /\ DOMAIN dependency_info[sc] = LaunchesOf(inst_queue[sc])
        /\ \A l \in DOMAIN dependency_info[sc] :
              dependency_info[sc][l].count = Cardinality(ColumnsOf(l, inst_queue[sc]))

\* RenamePush asserts !RenameFull(inst_column): Convert never takes a register
\* from an empty free list.
RenameNeverUnderflows == \A sc \in SubCores : free_xregs[sc] >= 0

\* What that check is worth, for any columns.  The step in which a free list runs
\* out renames a column that takes more registers than count_required_regs
\* counted for it, and what is missing is no more than the count is short by.
OverdraftIsShortCount ==
    [][\A sc \in SubCores :
         free_xregs[sc] >= 0 /\ free_xregs'[sc] < 0 =>
            \E r \in Heads(inst_column_q[sc]) :
               /\ xreg_mapping'[sc] = xreg_mapping[sc] \cup {r}
               /\ Convert(r) > count_required_regs(r)
               /\ free_xregs'[sc] + Convert(r) >= count_required_regs(r)]_all_vars

\* The entries of the register mapping of a sub-core: uthread and register.
HeldRegs(sc) == UNION {{r} \X MappedRegs(r) : r \in xreg_mapping[sc]}

\* Every register is on the free list or belongs to a uthread that is still in
\* flight in this sub-core: what a uthread took comes back with it, whatever was
\* counted for it.
RegistersReturned ==
    \A sc \in SubCores :
        /\ xreg_mapping[sc] = Range(after_rename[sc]) \cup inst_queue[sc]
        /\ free_xregs[sc] + Cardinality(HeldRegs(sc)) = NumXregs

\* NdpUnit::is_active, which M2NDP uses to end the simulation.  It asks neither
\* the instruction buffer nor the rename stage.
AsksNoGenerator ==
    \/ finished_contexts # {}
    \/ \E sc \in SubCores : inst_queue[sc] # {} \/ inst_column_q[sc] # <<>>
    \/ matched_requests # <<>>

is_active ==
    \/ finished_contexts # {}
    \/ \E sc \in SubCores : inst_queue[sc] # {} \/ inst_column_q[sc] # <<>>
    \/ DOMAIN launch_infos # {}
    \/ matched_requests # <<>>

\* The unit never looks idle while a launch waits or a request is under way.
ActiveWhileWorking ==
    launch_queue # <<>> \/ active_launch_ids # {} \/ in_flight # {} => is_active
-----------------------------------------------------------------------------
(* The inductive invariant behind these properties.                        *)

\* The parts of the unit a request passes through, and the requests in each.
Parts == ({"matched", "buffer", "empty"} \X {0})
           \cup ({"sent", "renamed", "queue"} \X SubCores)

EmptyContexts == {c \in finished_contexts : c.sub_core = -1}

RequestsIn(p) ==
    CASE p[1] = "matched" -> Range(matched_requests)
      [] p[1] = "buffer" -> Range(inst_columns)
      [] p[1] = "sent" -> Range(inst_column_q[p[2]])
      [] p[1] = "renamed" -> Range(after_rename[p[2]])
      [] p[1] = "queue" -> inst_queue[p[2]]
      [] p[1] = "empty" -> {c.request : c \in EmptyContexts}

Contents == [p \in Parts |-> RequestsIn(p)]

\* Every request of the set is in one of the parts, and in no other.
Partition(parts, requests) ==
    /\ \A p \in Parts : parts[p] \subseteq requests
    /\ \A r \in requests : \E p \in Parts : r \in parts[p]
    /\ \A p, q \in Parts : p # q => parts[p] \cap parts[q] = {}

\* A queue that holds requests, none of them twice.
Distinct(q) ==
    q \in Seq(Request) /\ \A i, j \in 1..Len(q) : q[i] = q[j] => i = j

DependencyEntry == [type : {"INITIALIZER", "KERNEL_BODY", "FINALIZER"},
                    body : Nat, count : Nat]

\* The dependency table of a sub-core tells which phase of which launch is in
\* its instruction queue, and with how many columns.
DependencyOK(info, queue) ==
    /\ DOMAIN info = LaunchesOf(queue)
    /\ \A l \in DOMAIN info :
          info[l] \in DependencyEntry /\ info[l].count = Cardinality(ColumnsOf(l, queue))
    /\ \A r \in queue : info[r.launch].type = r.type /\ info[r.launch].body = r.body

UnitInv ==
    /\ Distinct(matched_requests) /\ Distinct(inst_columns)
    /\ inst_column_q \in [SubCores -> Seq(Request)]
    /\ after_rename \in [SubCores -> Seq(Request)]
    /\ inst_queue \in [SubCores -> SUBSET Request]
    /\ finished_contexts \subseteq [request : Request, sub_core : SubCores \cup {-1}]
    /\ last_sub_core_fetched \in SubCores
    /\ Partition(Contents, in_flight)
    /\ \A c \in finished_contexts :
          c.sub_core # -1 => c.request \in inst_queue[c.sub_core]
    /\ DOMAIN dependency_info = SubCores
    /\ \A sc \in SubCores :
          /\ Distinct(inst_column_q[sc]) /\ Distinct(after_rename[sc])
          /\ DependencyOK(dependency_info[sc], inst_queue[sc])

\* The register unit's part of it.
RegistersInv ==
    /\ free_xregs \in [SubCores -> Int]
    /\ DOMAIN xreg_mapping = SubCores
    /\ RegistersReturned
    /\ \A sc \in SubCores : IsFiniteSet(HeldRegs(sc))
=============================================================================

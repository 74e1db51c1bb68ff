---------------------------- MODULE FunctionalRun ----------------------------
(***************************************************************************)
(* A kernel run on real data.  The same traces, renaming, instructions and *)
(* memory maps are used in two ways, and mode says which:                  *)
(*   "functional"  functional_runner/main.cc: for each launch line, the    *)
(*                 units one after the other, and in a unit NdpUnit::Run   *)
(*                 executes initializer, bodies and finalizer in a loop;   *)
(*   "timing"      the cycle-level simulator: uthreads of all units run    *)
(*                 concurrently, an instruction executes as a whole when   *)
(*                 ExecutionUnit::issue lets it go, and a unit starts a    *)
(*                 request once every request of an earlier stage has      *)
(*                 finished (KernelLaunch, which UThreadGenerator is       *)
(*                 proved to implement).                                   *)
(* A unit has one sub-core here, so one register unit.                     *)
(***************************************************************************)
EXTENDS TraceParser

CONSTANTS
    Jobs,           \* sequence of jobs: trace, launch lines, memory file, target file
    NumUnits,
    StrideSize,     \* m_stride_size: bytes of consecutive addresses of a unit
    SpadSize,       \* spad_size of the configuration
    UthreadSlots,   \* uthreads a unit runs at a time
    GarbageTypes,   \* what an m_type no constructor set may hold
    Modes           \* of "functional" and "timing"

ASSUME RunOK == NumUnits \in Nat \ {0} /\ StrideSize \in Nat \ {0} /\ UthreadSlots \in Nat \ {0}

VARIABLES
    mode,      \* which of the two programs runs
    job,       \* the job it was started with
    line,      \* the launch line being run
    memory,    \* the device's memory map
    spads,     \* unit -> scratchpad map of the launch
    regs,      \* unit -> register unit
    running,   \* uthread -> its renamed instructions, pc, csr
    done,      \* uthreads of this launch that have finished
    panic      \* why the program ended, or "none"

run_vars == <<mode, job, line, memory, spads, regs, running, done, panic>>

Units == 0 .. NumUnits - 1
Kernels == [j \in DOMAIN Jobs |-> parse_ndp_kernel(Jobs[j].trace)]
Launches == [j \in DOMAIN Jobs |->
                [l \in DOMAIN Jobs[j].launches |-> parse_kernel_launch(Jobs[j].launches[l])]]

\* get_matched_unit_id, and the packets of a launch a unit owns.
get_matched_unit_id(addr) == (addr \div StrideSize) % NumUnits
PacketsOf(info, u) ==
    {a \in {info.base_addr + k * PACKET_SIZE :
              k \in 0 .. (info.size + PACKET_SIZE - 1) \div PACKET_SIZE - 1} :
        get_matched_unit_id(a) = u}

\* The uthreads of a unit; a unit without packets has none.  stage orders them.
Uthreads(kernel, info, u) ==
    LET bodies == Len(kernel.bodies)
        own == PacketsOf(info, u)
        end(s) == [unit |-> u, stage |-> s, addr |-> info.base_addr, offset |-> u]
    IN IF own = {} \/ bodies = 0 THEN {}
       ELSE {end(0), end(bodies + 1)} \cup
            {[unit |-> u, stage |-> b, addr |-> a, offset |-> a - info.base_addr] :
                b \in 1 .. bodies, a \in own}
Schedule ==
    [j \in DOMAIN Jobs |-> [l \in DOMAIN Jobs[j].launches |->
        UNION {Uthreads(Kernels[j], Launches[j][l], u) : u \in Units}]]
SectionOf(kernel, t) ==
    CASE t.stage = 0 -> kernel.initializer
      [] t.stage = Len(kernel.bodies) + 1 -> kernel.finalizer
      [] OTHER -> kernel.bodies[t.stage]

\* The arguments in the scratchpad of a launch: packets of longs, then the
\* floats in a packet of their own.
LaunchScratchpad(info) ==
    LET num == info.arg_size \div DOUBLE_SIZE - info.num_float_args
        per == PACKET_SIZE \div DOUBLE_SIZE
        outer == TruncDiv(num - 1, per) + 1
        longs(k) == Fill(SetType(SewVector("INT64", 64, M1), "INT64"), "INT64",
                         {i \in 0 .. per - 1 : k * per + i < num},
                         LAMBDA i : info.args[k * per + i], {})
        floats == Fill(SewVector("FLOAT32", 32, M1), "FLOAT32", 0 .. info.num_float_args - 1,
                       LAMBDA i : info.float_args[i + 1], {})
        ints == FoldLeft(LAMBDA m, k : MapStore(m, SCRATCHPAD_BASE + k * PACKET_SIZE, longs(k)),
                         NewMap(SCRATCHPAD_BASE, info.smem_size), [k \in 1 .. outer |-> k - 1])
    IN IF info.num_float_args > 0
       THEN MapStore(ints, SCRATCHPAD_BASE + outer * PACKET_SIZE, floats) ELSE ints
\* What a launch asserts: NdpUnit::Run takes spad_size for kilobytes, the
\* generator for bytes; every argument packet lies in the scratchpad.
LaunchFits(info) ==
    /\ info.smem_size <= SpadSize * (IF mode = "functional" THEN 1024 ELSE 1)
    /\ \A a \in DOMAIN LaunchScratchpad(info).m_data_map : InRange(LaunchScratchpad(info), a)

-----------------------------------------------------------------------------
\* CSR's initial values, and the context of an uthread.
InitialCsr == [vsew |-> 32, vlmul |-> M1, vstart |-> 0]
NoUthreads == [t \in {} |-> 0]
ContextOf(t, g) ==
    [R |-> regs[t.unit], req |-> [addr |-> t.addr, offset |-> t.offset], ndp_id |-> t.unit,
     csr |-> running[t].csr, memory_map |-> memory, scratchpad_map |-> spads[t.unit],
     doBranch |-> FALSE, g |-> g, fault |-> "none"]

Init ==
    /\ mode \in Modes
    /\ job \in DOMAIN Jobs
    /\ line = 1
    /\ \E g \in GarbageTypes : memory = ReadMap(g, Jobs[job].memory_file)
    /\ spads = [u \in Units |-> LaunchScratchpad(Launches[job][1])]
    /\ regs = [u \in Units |-> InitRegisters(UNION {Schedule[job][l] : l \in DOMAIN Launches[job]})]
    /\ running = NoUthreads
    /\ done = {}
    /\ panic = IF /\ FileAccepted(Jobs[job].memory_file)
                  /\ Kernels[job].fault = "none"
                  /\ LaunchFits(Launches[job][1])
               THEN "none" ELSE "assert"

AllUthreads == Schedule[job][line]

\* Which uthread NdpUnit::Run and main() take next: by unit, stage, address.
Before(s, t) ==
    \/ s.unit < t.unit
    \/ s.unit = t.unit /\ s.stage < t.stage
    \/ s.unit = t.unit /\ s.stage = t.stage /\ s.addr < t.addr
MayStart(t) ==
    /\ t \notin DOMAIN running \cup done
    /\ IF mode = "functional" THEN DOMAIN running = {}
       ELSE Cardinality({s \in DOMAIN running : s.unit = t.unit}) < UthreadSlots
    /\ \A s \in AllUthreads :
          (IF mode = "functional" THEN Before(s, t) ELSE s.unit = t.unit /\ s.stage < t.stage)
             => s \in done

\* Convert names the registers of the whole section before it starts.
StartUthread(t) ==
    /\ panic = "none"
    /\ MayStart(t)
    /\ \E c \in {Convert(regs[t.unit], t, SectionOf(Kernels[job], t),
                        [addr |-> t.addr, offset |-> t.offset])} :
          /\ regs' = [regs EXCEPT ![t.unit] = c.R]
          /\ running' = Bind(running, t, [insts |-> c.insts, pc |-> 0, csr |-> InitialCsr])
          /\ panic' = c.R.fault
    /\ UNCHANGED <<mode, job, line, memory, spads, done>>

Current(t) == running[t].insts[running[t].pc + 1]
AtEnd(t) == running[t].pc >= Len(running[t].insts)

-----------------------------------------------------------------------------
\* The ADDRESS_OPs; the 64-bit indexed store and the unsigned byte load are none.
ScalarLoadsStores == {"LW", "SW", "FLW", "FSW", "SB", "SD", "LB", "LD"}
CheckIndexedOp == {"VLUXEI32", "VSUXEI32"}
AddressOps == UnitLoads \cup UnitStores \cup CheckIndexedOp \cup {"VLUXEI64", "VLSSEG"}
                \cup ScalarLoadsStores \cup amo_ops

\* What issue() refuses while it collects the packets of an access: a base that
\* is no integer register it knows (a scalar atomic's src[0] is the name of its
\* destination, never renamed), indices of another type, and no index at all.
IssueFault(c, inst) ==
    LET vs2 == ReadVreg(c, inst.src[IF inst.opcode \in amo_ops THEN 1 ELSE 2])
        vs3 == ReadVreg(c, inst.src[3])
        skipped(i) == Present(inst, 3) /\ vs3.m_type = "VMASK" /\ ~GetVmaskData(vs3, i)
    IN CASE inst.opcode \notin AddressOps -> "none"
         [] inst.src[0] \notin PXs \cup {REG_X0, REG_ADDR, REG_REQUEST_OFFSET, REG_NDP_ID} -> "throw"
         [] inst.opcode \notin CheckIndexedOp \cup vector_amo_ops -> "none"
         [] Faulty(vs2) -> vs2.fault
         [] vs2.m_type \notin {"INT32", "INT64", "FLOAT32", "INT16"} -> "throw"
         [] \A i \in Lanes(vs2) : skipped(i) -> "throw"
         [] OTHER -> "none"

\* Mutant: a taken branch goes to the instruction before the label.
AfterLabelMinusOne(t, label) == Kernels[job].loop_map[label] - 1

\* Where a taken branch goes.
AfterLabel(t, label) == Kernels[job].loop_map[label]

\* What an instruction does, unless issue() refuses it.
Issued(c, inst) ==
    IF mode = "timing" /\ IssueFault(c, inst) # "none"
    THEN WithFault(c, IssueFault(c, inst)) ELSE Execute(c, inst)

\* One instruction: an iteration of ExecuteInsts_Array, or issue() followed by
\* what the units do to pc.  EXIT ends an uthread only in the latter.
Step(t, g) ==
    /\ panic = "none"
    /\ ~AtEnd(t)
    /\ \E c \in {Issued(ContextOf(t, g), Current(t))} : \E label \in {IsBranch(c, Current(t))} :
          LET lost == label >= 0 /\ label \notin DOMAIN Kernels[job].loop_map
              pc == CASE Current(t).opcode = "EXIT" /\ mode = "timing" -> Len(running[t].insts)
                      [] label >= 0 /\ ~lost -> AfterLabel(t, label)
                      [] OTHER -> running[t].pc + 1
          IN /\ running' = [running EXCEPT ![t].pc = pc, ![t].csr = c.csr]
             /\ regs' = [regs EXCEPT ![t.unit] = c.R]
             /\ memory' = c.memory_map
             /\ spads' = [spads EXCEPT ![t.unit] = c.scratchpad_map]
             /\ panic' = IF lost THEN "overrun" ELSE c.fault
    /\ UNCHANGED <<mode, job, line, done>>

\* The end of a section: the registers go back.
FinishUthread(t) ==
    /\ panic = "none"
    /\ AtEnd(t)
    /\ running' = Restrict(running, DOMAIN running \ {t})
    /\ regs' = [regs EXCEPT ![t.unit] = FreeRegs(@, t)]
    /\ done' = done \cup {t}
    /\ UNCHANGED <<mode, job, line, memory, spads, panic>>

LaunchDone == AllUthreads \subseteq done

\* The next launch line, with a fresh scratchpad.
NextLaunch ==
    /\ panic = "none"
    /\ LaunchDone
    /\ line < Len(Jobs[job].launches)
    /\ line' = line + 1
    /\ spads' = [u \in Units |-> LaunchScratchpad(Launches[job][line + 1])]
    /\ done' = {}
    /\ panic' = IF LaunchFits(Launches[job][line + 1]) THEN "none" ELSE "assert"
    /\ UNCHANGED <<mode, job, memory, regs, running>>

Next ==
    \/ \E t \in AllUthreads : StartUthread(t)
    \/ \E t \in DOMAIN running : \E g \in GarbageTypes : Step(t, g)
    \/ \E t \in DOMAIN running : FinishUthread(t)
    \/ NextLaunch

\* Something is left to do.
CanWork ==
    /\ panic = "none"
    /\ DOMAIN running # {} \/ ~LaunchDone \/ line < Len(Jobs[job].launches)

\* The loops of the functional run go on by themselves, and in the timing run
\* every unit's uthreads are issued in turn: weak fairness of Next.  CanWork is
\* its enabling condition, and every step that changes a variable is a step of
\* Next.
Spec == /\ Init
        /\ [][Next]_run_vars
        /\ []<>(~CanWork) \/ []<><<TRUE>>_run_vars

-----------------------------------------------------------------------------
Finished == LaunchDone /\ line = Len(Jobs[job].launches)

\* The packet at file line k holds exactly the values and the type written there.
Holds(m, k) ==
    /\ CheckAddr(m, k.addr)
    /\ m.m_data_map[k.addr].m_type = k.type
    /\ \A i \in 0 .. LineElements(k.type) - 1 :
          GetData(m.m_data_map[k.addr], k.type, i) = k.values[i]

\* A kernel of supported instructions runs to its end without an assertion, a
\* throw or an access outside a vector, in every order in which the timing
\* simulator can issue and whatever the uninitialised types hold.  Two things the
\* simulator does not support are kept out of the jobs: a scalar atomic whose
\* destination is not x0, at which issue() throws, and more registers than
\* the register files have.
NoPanic == panic = "none"

\* When the last launch is over, memory holds the result the kernel computes,
\* in both programs and for every order of the uthreads (Execute and issue).
ResultExact ==
    Finished => \A i \in DOMAIN Jobs[job].target_file : Holds(memory, Jobs[job].target_file[i])

\* What an answer may be off by: nothing, or for a float one percent of the target.
Near(m, k) ==
    /\ CheckAddr(m, k.addr)
    /\ m.m_data_map[k.addr].m_type = k.type
    /\ \A i \in 0 .. LineElements(k.type) - 1 :
          LET off == Magnitude(GetData(m.m_data_map[k.addr], k.type, i) - k.values[i])
          IN  IF k.type \in Floats THEN 100 * off <= Magnitude(k.values[i]) ELSE off = 0

\* Targets Match compares: it skips INT16 and CHAR8 lines, and longs of -1.
Compared(k) == /\ k.type \notin {"INT16", "CHAR8"}
               /\ k.type = "INT64" => -1 \notin Range(k.values)

\* The verdict of the functional runner (HashMemoryMap::Match) can be relied on:
\* a target the memory holds is accepted, and one that is accepted and compared
\* differs from the memory in floats only, by one percent at most.
VerdictTrue ==
    Finished => \A f \in {Jobs[job].target_file} \cup Jobs[job].wrong_files :
        (\A i \in DOMAIN f : Compared(f[i])) =>
            LET verdict == Match(ReadMap("MAX_DataType", f), memory) IN
            /\ (\A i \in DOMAIN f : Holds(memory, f[i])) => verdict
            /\ verdict => \A i \in DOMAIN f : Near(memory, f[i])

\* Uthreads of a unit own their physical registers, the partners of groups
\* included: no register is bound twice or both bound and free, and none is
\* lost (Convert, DestRenameV, FreeRegs).
OwnedV(R, k) == Range(R.m_vreg_mapping[k])
                    \cup {R.m_double_vreg[p] : p \in {q \in Range(R.m_vreg_mapping[k]) : CheckDoubleReg(R, q)}}
RegistersPrivate ==
    \A u \in Units :
        LET R == regs[u]
            bound(k) == Range(R.m_xreg_mapping[k]) \cup Range(R.m_freg_mapping[k]) \cup OwnedV(R, k)
            free == Range(R.m_free_xregs) \cup Range(R.m_free_fregs) \cup Range(R.m_free_vregs)
            keys == DOMAIN R.m_xreg_mapping
        IN /\ \A j, k \in keys : j # k => bound(j) \cap bound(k) = {}
           /\ \A k \in keys : bound(k) \cap free = {}
           /\ free \cup UNION {bound(k) : k \in keys} = PXs \cup PFs \cup PVs

\* Every uthread ends: loops of the traces come to their end through the
\* labels the parser placed (loop_map, ExecuteInsts_Array).
RunEnds == <>(Finished \/ panic # "none")
=============================================================================

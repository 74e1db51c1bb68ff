----------------------------- MODULE HostRunner -----------------------------
(***************************************************************************)
(* The host of a timing simulation, driving one device over the CXL link:  *)
(* SimulationRunner (perf_runner/simulation_runner.cc), which launches the *)
(* kernels of a trace one command after the other, and KVRunner            *)
(* (perf_runner/kv_runner.cc), which injects key-value requests, each of   *)
(* them a launch and, for a get, a read of the result.                     *)
(*                                                                         *)
(* One iteration of run() is one step, made of the steps of its body on a  *)
(* record of the host's state.  The link, the device and its units step in *)
(* between, in any order.  The clock matters to the back-invalidations the *)
(* host has answered: each keeps the NDP cycles left until its deadline,   *)
(* down to -1 for any deadline in the past.                                *)
(*                                                                         *)
(* The objects a launch command points to (KernelLaunchInfo) are allocated *)
(* when the trace is parsed and deleted when the command is answered; live *)
(* is the set of those allocated.                                          *)
(***************************************************************************)
EXTENDS M2NDPDevice, Integers

CONSTANTS
    Scenarios,           \* what may be run: the runner, its serial option, the
                         \* commands and bounds on the back-invalidations and
                         \* the stores
    MaxKernelRegister,   \* max_kernel_register
    MaxMps,              \* max_mps, of the key-value runner
    BiHostLatency        \* bi_host_latency

ASSUME HostAssumption ==
    /\ CxlLinkBufferSize > 0
    /\ MaxMps > 0
    /\ BiHostLatency > 0    \* 100 wherever a configuration enables them

VARIABLES
    host,     \* the state of the runner, see HostInit
    done      \* run() has left its loop

vars == <<linkVars, deviceVars, scenario, host, done>>

runner == scenario.runner   \* "simulation" or "kv"

serial == scenario.serial   \* m_serial_launch, or serial of the injection queue

\* The requests of a launch: its command, and one for each uthread.
fill_memory_access(l) ==
    <<MemFetch("launch", l, TRUE, 0)>>
        \o [n \in 1..Info(l).uthreads |-> MemFetch("uthread", l, TRUE, n)]

Command(c) == FlattenSeq([i \in DOMAIN workload[c] |-> fill_memory_access(<<c, i>>)])

HostInit ==
    /\ scenario \in Scenarios
    /\ done = FALSE
    /\ host = [memory_reqs |-> <<>>,     \* m_memory_reqs[0]
               remaining |-> 0,          \* remaing_memory_reqs
               bi_reqs |-> <<>>,         \* m_bi_reqs, with the cycles left
               commands |-> Len(workload),  \* the length of m_ndp_commands
               registered |-> 0,         \* kernels registered by launches
               queue |-> <<>>,           \* InjectionQueue::m_queue
               injected |-> {},          \* InjectionQueue::m_injection_times
               live |-> Launches,        \* KernelLaunchInfo objects
               from_host |-> <<>>,       \* the ends of the link, filled in
               to_host |-> <<>>]         \* for the length of an iteration

Init == LinkInit /\ HostInit /\ DeviceInit

FirstCommand(h) == Len(workload) - h.commands + 1   \* m_ndp_commands.front()

----------------------------------------------------------------------------
\* The tests of the loop.  busy stands for the parts of is_active that see
\* only part of what is under way: the interconnect (not the link's buffers)
\* and the memory (not the units or the crossbar).

MayBeBusy ==
    IF net # {} \/ at_memory # {} \/ \E s \in stores : s.at = "memory"
    THEN BOOLEAN ELSE {FALSE}

is_active(busy) == is_launch_active \/ busy

finished(h) == h.commands = 0 /\ h.queue = <<>> /\ h.injected = {}


check_all_simulation_finished(h, busy) ==
    ~(h.remaining > 0 \/ h.memory_reqs # <<>> \/ ~finished(h) \/ is_active(busy))

\* Mutant: the devices are not asked.
check_single_forget_device(h, busy) == ~(h.remaining > 0 \/ h.memory_reqs # <<>>)

check_single_simulation_finished(h, busy) ==
    ~(h.remaining > 0 \/ h.memory_reqs # <<>> \/ is_active(busy))

check_can_launch_ndp_kernel(h) == h.registered < MaxKernelRegister

----------------------------------------------------------------------------
\* The body of the loop, step by step.

Tick(h) ==
    [h EXCEPT !.bi_reqs = [i \in DOMAIN @ |->
        [@[i] EXCEPT !.left = IF @ < 0 THEN @ ELSE @ - 1]]]

\* The first answered back-invalidation goes out while its deadline has not
\* passed: the test compares the other way round, so it goes out at once.
PopBi(h) ==
    IF h.bi_reqs # <<>> /\ Head(h.bi_reqs).left >= 0
    THEN [h EXCEPT !.bi_reqs = Tail(@),
                   !.memory_reqs = Append(@, Head(h.bi_reqs).mf)]
    ELSE h

\* SimulationRunner: the next command, once nothing runs.  No command of a
\* trace is a barrier.
LaunchNext(h, busy) ==
    IF check_single_simulation_finished(h, busy) /\ h.commands > 0
          /\ check_can_launch_ndp_kernel(h)
    THEN [h EXCEPT !.registered = @ + 1,
                   !.memory_reqs = Command(FirstCommand(h)),
                   !.commands = @ - 1]
    ELSE h

\* KVRunner: InjectionQueue::cycle, when its counter comes to one.
InjectionCycle(h, due) ==
    IF due /\ ~(serial /\ Cardinality(h.injected) > 1) /\ h.commands > 0
    THEN [h EXCEPT !.queue = Append(@, Command(FirstCommand(h))[1]), !.commands = @ - 1]
    ELSE h

\* KVRunner: top and pop of the injection queue.
Inject(h) ==
    IF h.queue # <<>> /\ Cardinality(h.injected) < MaxMps
    THEN [h EXCEPT !.memory_reqs = Append(@, Head(h.queue)),
                   !.injected = @ \cup {Head(h.queue).of},
                   !.queue = Tail(@)]
    ELSE h

\* Mutant: uthread requests wait too, for a launch that waits for them.
SerialCheckOfAll(h) == ~serial \/ runner = "kv" \/ ~(is_launch_active \/ h.remaining > 0)

\* In the serial mode a launch waits until the last one is answered and done.
SerialCheck(h) ==
    \/ ~serial
    \/ runner = "kv"
    \/ Head(h.memory_reqs).kind # "launch"
    \/ ~(is_launch_active \/ h.remaining > 0)

\* Mutant: the write of a back-invalidation is counted like a request.
CountsWriteback(mf) == mf.kind # "uthread"

\* Its answer goes to the unit, and a uthread request has none.
Counts(mf) == mf.kind \notin {"writeback", "uthread"}

PushRequest(h) ==
    IF h.memory_reqs # <<>> /\ SerialCheck(h) /\ has_buffer_from_host(h.from_host)
    THEN LET mf == Head(h.memory_reqs)
         IN  [h EXCEPT !.from_host = Append(@, mf),
                       !.memory_reqs = Tail(@),
                       !.remaining = @ + (IF Counts(mf) THEN 1 ELSE 0)]
    ELSE h

\* A request is over: its objects are deleted.
Finish(h, mf) ==
    [h EXCEPT !.injected = @ \ {mf.of}, !.live = @ \ {mf.of}]

\* Mutant: the info is deleted with the answer of the launch, and again with
\* the answer of the read.
ReplyFreesAtOnce(h, mf) ==
    IF mf.kind = "launch" /\ runner = "kv" /\ Info(mf.of).get
    THEN [h EXCEPT !.memory_reqs = Append(@, MemFetch("get", mf.of, TRUE, 0)),
                   !.live = @ \ {mf.of}]
    ELSE Finish(h, mf)

\* The launch of a get is followed by the read of its result.
Reply(h, mf) ==
    IF mf.kind = "launch" /\ runner = "kv" /\ Info(mf.of).get
    THEN [h EXCEPT !.memory_reqs = Append(@, MemFetch("get", mf.of, TRUE, 0))]
    ELSE Finish(h, mf)

TakeReply(h) ==
    IF h.to_host = <<>> THEN h
    ELSE LET mf == Head(h.to_host)
             g == [h EXCEPT !.to_host = Tail(@)]
         IN  IF mf.request
             THEN [g EXCEPT !.bi_reqs = Append(@,
                      [mf |-> MemFetch("writeback", mf.of, TRUE, 0),
                       left |-> BiHostLatency])]
             ELSE Reply([g EXCEPT !.remaining = @ - 1], mf)

process_memory_access(h) == TakeReply(PushRequest(h))

----------------------------------------------------------------------------
Body(h, busy, due) ==
    IF runner = "simulation"
    THEN process_memory_access(LaunchNext(PopBi(h), busy))
    ELSE process_memory_access(Inject(PopBi(InjectionCycle(h, due))))

\* The host, with the ends of the link as they are now.
Host == [host EXCEPT !.from_host = from_host, !.to_host = to_host]

\* One iteration of run(): tick tells whether the NDP clock advances, due
\* whether the injection queue's counter comes to one.
Iterate(tick, busy, due) ==
    /\ ~done
    /\ ~check_all_simulation_finished(Host, busy)
    /\ LET h == Body(IF tick THEN Tick(Host) ELSE Host, busy, due)
       IN  /\ host' = [h EXCEPT !.from_host = <<>>, !.to_host = <<>>]
           /\ from_host' = h.from_host
           /\ to_host' = h.to_host
    /\ UNCHANGED <<from_m2ndp, to_m2ndp, net, scenario, done>>
    /\ UNCHANGED deviceVars

LoopEnds(busy) ==
    /\ ~done
    /\ check_all_simulation_finished(Host, busy)
    /\ done' = TRUE
    /\ UNCHANGED <<linkVars, deviceVars, scenario, host>>

\* The link and the device stop with the loop that calls them.
Step(A) == ~done /\ A /\ UNCHANGED <<scenario, host, done>>

LinkStep(A) == Step(A) /\ UNCHANGED deviceVars

\* InjectionQueue::cycle counts NDP cycles.
HostStep ==
    \E busy \in MayBeBusy :
        \/ \E tick, due \in BOOLEAN : (due => tick) /\ Iterate(tick, busy, due)
        \/ LoopEnds(busy)

Next ==
    \/ HostStep
    \/ LinkStep(handle_from_host)
    \/ LinkStep(handle_to_host)
    \/ LinkStep(handle_from_m2ndp)
    \/ LinkStep(handle_to_m2ndp)
    \/ \E ready \in BOOLEAN : Step(transfer_cxl_to_memory(ready))
    \/ Step(transfer_memory_to_cxl)
    \/ Step(check_kernel_active)
    \/ \E l \in Launches, u \in Units : Step(UnitFinishes(l, u)) \/ Step(LoadNeedsBi(l, u))
    \/ Step(UnitStores)
    \/ Step(StoreMoves)
    \/ Step(MemoryAnswers)

\* The loop calls the link and the device in every iteration and each clock
\* advances again and again; the injection rate is positive; the units and the
\* memory finish what they are given (LaunchFinishes of NdpUnit and
\* RequestsReturned of MemoryChannel, for loads that no L1 abandons).
Fairness ==
    /\ WF_vars(\E busy \in MayBeBusy : Iterate(TRUE, busy, TRUE))
    /\ WF_vars(\E busy \in MayBeBusy : LoopEnds(busy))
    /\ WF_vars(LinkStep(handle_from_host))
    /\ WF_vars(LinkStep(handle_to_host))
    /\ WF_vars(LinkStep(handle_from_m2ndp))
    /\ WF_vars(LinkStep(handle_to_m2ndp))
    /\ WF_vars(Step(transfer_cxl_to_memory(TRUE)))
    /\ WF_vars(Step(transfer_memory_to_cxl))
    /\ WF_vars(Step(check_kernel_active))
    /\ WF_vars(\E l \in Launches, u \in Units : Step(UnitFinishes(l, u)))
    /\ WF_vars(Step(StoreMoves))
    /\ WF_vars(Step(MemoryAnswers))

Spec == Init /\ [][Next]_vars /\ Fairness

----------------------------------------------------------------------------
\* What is under way.

Sent(kinds) == {mf \in OnLink \cup ToSet(responses) \cup ToSet(crossbar) \cup at_memory :
                   mf.kind \in kinds}

\* The commands synchronous launches hold until they are done.
Held == {mf \in ToSet(launch_infos) : Info(mf.of).sync}

\* Launches that are on their way to the device or run on it.
UnderWay ==
    {mf.of : mf \in {m \in Sent({"launch"}) : m.request}} \cup
    {l \in Launches : working[l] # {}}

\* remaing_memory_reqs is the number of commands and reads sent and not yet
\* answered, wherever they or their answers are: in a buffer of the link, inside
\* it, held by a running launch or in the memory (simulation_runner.cc:186, :195
\* and kv_runner.cc).  Back-invalidations and uthread requests, which have no
\* answer for the host, leave it alone.
RequestsCounted ==
    host.remaining = Cardinality(Sent({"launch", "get"}) \cup Held)

\* A launch info is never used or deleted after it was deleted: as long as a
\* command, an answer or a read that points to it is waiting, under way, held by
\* the device or in the injection queue, it is allocated (m2ndp.cc:295,
\* simulation_runner.cc:200, kv_runner.cc).
InfoAlive ==
    \A mf \in Sent({"launch", "get"}) \cup Held \cup ToSet(host.queue)
              \cup {m \in ToSet(host.memory_reqs) : m.kind \in {"launch", "get"}} :
        mf.of \in host.live

\* SimulationRunner runs its commands one after the other: launches and uthread
\* requests of two commands are never under way together, and with serial_launch
\* no two launches are (simulation_runner.cc:83, :182).
LaunchesInOrder ==
    runner = "simulation" =>
        /\ \A l, m \in UnderWay \cup {mf.of : mf \in Sent({"uthread"})} : l[1] = m[1]
        /\ serial => Cardinality(UnderWay) <= 1


\* Every simulation comes to its end: all commands are launched, answered and
\* done, and the loop is left.
RunFinishes == <>done
=============================================================================

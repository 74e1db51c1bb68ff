-------------------------- MODULE UThreadGenerator --------------------------
(***************************************************************************)
(* The uthread generator of one NDP unit (src/src/uthread_generator.cc).   *)
(*                                                                         *)
(* A kernel launch becomes a deque of requests: one INITIALIZER, for each  *)
(* kernel body one KERNEL_BODY per 32-byte packet the unit owns, and one   *)
(* FINALIZER.  Launches wait in a FIFO until the scratchpad has room; the  *)
(* requests of an active launch are pushed into the unit's request queue,  *)
(* each phase only after the one before it has been counted as finished.   *)
(*                                                                         *)
(* Everything downstream of the request queue is abstracted here to        *)
(* in_flight, the set of requests pushed and not yet handed back by        *)
(* NdpUnit::handle_finished_context; they come back in any order.          *)
(***************************************************************************)
EXTENDS Integers, Sequences, FiniteSets, FiniteSetsExt

CONSTANTS
    MaxLaunches,       \* bound: launches in one behaviour
    MaxPackets,        \* bound: packets of one launch owned by this unit
    KernelIds,
    NumKernelBodies,   \* kernel id -> number of kernel bodies
    SmemSizes,         \* scratchpad sizes a launch may ask for
    SpadSize,          \* spad_size of the configuration
    SpadReserve,       \* the 8192 bytes check_kernel_launch holds back
    MaxKernelLaunch,   \* max_kernel_launch of the configuration
    CoarseThreads,     \* uthread_slots * num_sub_core
    CoarseGrained,     \* is_coarse_grained()
    ScWork             \* is_sc_work()

ASSUME BoundsAssumption == MaxLaunches \in Nat /\ MaxPackets \in Nat
ASSUME NumKernelBodiesAssumption ==
    NumKernelBodies \in [KernelIds -> Nat \ {0}]
ASSUME SizesAssumption ==
    /\ SmemSizes \subseteq Nat
    /\ SpadSize \in Nat
    /\ SpadReserve \in 0..SpadSize
    /\ MaxKernelLaunch \in Nat \ {0}
    /\ CoarseThreads \in Nat \ {0}
ASSUME ModeAssumption == CoarseGrained \in BOOLEAN /\ ScWork \in BOOLEAN

VARIABLES
    next_launch_id,        \* M2NDP's global_launch_id
    registered_functions,  \* kernel ids this unit knows
    launch_infos,          \* launch id -> launch, for the launches alive
    launch_queue,          \* launches waiting for the scratchpad
    active_launch_ids,
    generated_requests,    \* launch id -> front of its deque of requests
    total_requests,
    count_requests,        \* requests of the launch counted as finished
    launched,              \* a launch was activated in this cycle
    threads,               \* iterations left of a generate_uthreads loop
    in_flight              \* requests pushed and not yet finished

generator_vars == <<next_launch_id, registered_functions, launch_infos,
                    launch_queue, active_launch_ids, generated_requests,
                    total_requests, count_requests, launched, threads,
                    in_flight>>

LaunchIds == 0..(MaxLaunches - 1)

\* A launch as this unit sees it: the packets are those of the launch's
\* address range that check_addr_match gives to the unit.
KernelLaunchInfo == [kernel : KernelIds, packets : 0..MaxPackets,
                     smem : SmemSizes]

Request == [launch : LaunchIds,
            type : {"INITIALIZER", "KERNEL_BODY", "FINALIZER"},
            body : Nat, packet : Nat]

Initializer(l) == [launch |-> l, type |-> "INITIALIZER", body |-> 0, packet |-> 0]
KernelBody(l, b, p) == [launch |-> l, type |-> "KERNEL_BODY", body |-> b, packet |-> p]
Finalizer(l) == [launch |-> l, type |-> "FINALIZER", body |-> 0, packet |-> 0]
NoRequest == [launch |-> -1, type |-> "NONE", body |-> 0, packet |-> 0]

\* launch() appends the requests of a launch to its deque in a fixed order
\* and nothing is appended later, so the deque is determined by its front.
\* Following(r) is the request behind r.
Following(r) ==
    LET info == launch_infos[r.launch]
    IN  CASE r.type = "INITIALIZER" -> KernelBody(r.launch, 0, 0)
          [] r.type = "KERNEL_BODY" ->
               IF r.packet + 1 < info.packets
               THEN KernelBody(r.launch, r.body, r.packet + 1)
               ELSE IF r.body + 1 < NumKernelBodies[info.kernel]
                    THEN KernelBody(r.launch, r.body + 1, 0)
                    ELSE Finalizer(r.launch)
          [] OTHER -> NoRequest

RequestCount(info) ==
    IF info.packets = 0 THEN 0 ELSE 2 + NumKernelBodies[info.kernel] * info.packets

-----------------------------------------------------------------------------
(* Choosing what to push.  The deques and the active set are parameters,   *)
(* because cycle() evaluates these after it has changed them.              *)

\* Variants of check_can_issue a mistake could leave behind: kernel bodies not
\* held back, the finalizer one uthread early, and one uthread late.
BodiesNotHeldBack(r) ==
    r.type = "FINALIZER" => count_requests[r.launch] = total_requests[r.launch] - 1

FinalizerEarly(r) ==
    CASE r.type = "INITIALIZER" -> TRUE
      [] r.type = "KERNEL_BODY" ->
           /\ count_requests[r.launch] # 0
           /\ r.body = (count_requests[r.launch] - 1)
                         \div ((total_requests[r.launch] - 2)
                                 \div NumKernelBodies[launch_infos[r.launch].kernel])
      [] OTHER -> count_requests[r.launch] >= total_requests[r.launch] - 2

FinalizerLate(r) ==
    CASE r.type = "INITIALIZER" -> TRUE
      [] r.type = "KERNEL_BODY" -> count_requests[r.launch] # 0
      [] OTHER -> count_requests[r.launch] = total_requests[r.launch]

check_can_issue(r) ==
    LET count == count_requests[r.launch]
        total == total_requests[r.launch]
        bodies == NumKernelBodies[launch_infos[r.launch].kernel]
    IN  CASE r.type = "INITIALIZER" -> TRUE
          [] r.type = "KERNEL_BODY" ->
               count # 0 /\ r.body = (count - 1) \div ((total - 2) \div bodies)
          [] r.type = "FINALIZER" -> count = total - 1
          [] OTHER -> FALSE

Issuable(active, fronts) ==
    {l \in active : fronts[l] # NoRequest /\ check_can_issue(fronts[l])}

\* The lowest active launch whose front may be issued (m_active_launch_ids
\* is an ordered set), or -1.
get_next_launch_id(active, fronts) ==
    LET ids == Issuable(active, fronts)
    IN  IF ids = {} THEN -1 ELSE Min(ids)

\* The launches, at most one, whose front one iteration of the loop in
\* generate_uthreads pushes.
UthreadPush(active, fronts) ==
    LET l == get_next_launch_id(active, fronts)
    IN  {m \in {l} : m # -1 /\ fronts[m].type = "KERNEL_BODY" /\ count_requests[m] >= 1}

\* The launches, at most one, whose INITIALIZER or FINALIZER cycle() pushes.
EndPush(active, fronts) ==
    LET l == get_next_launch_id(active, fronts)
    IN  {m \in {l} : m # -1 /\ fronts[m].type # "KERNEL_BODY"}

\* The loop of generate_uthreads goes on.
Iterating == threads > 0

\* The deques after the pop.
Pop(fronts, ids) ==
    [l \in LaunchIds |-> IF l \in ids THEN Following(fronts[l]) ELSE fronts[l]]

Pushed(fronts, ids) == {fronts[l] : l \in ids}

get_allocated_spad_size(infos, active) ==
    MapThenSumSet(LAMBDA l : infos[l].smem, active)

-----------------------------------------------------------------------------
(* The operations of the class.                                            *)

\* The launches, at most one, that check_kernel_launch activates, and the
\* queue it leaves.  launch() calls it after it has written infos and queue.
check_kernel_launch(infos, queue) ==
    IF /\ queue # <<>>
       /\ ~launched
       /\ infos[Head(queue)].smem + get_allocated_spad_size(infos, active_launch_ids)
            <= SpadSize - SpadReserve
       /\ Cardinality(active_launch_ids) < MaxKernelLaunch
    THEN {Head(queue)} ELSE {}

StillQueued(infos, queue) ==
    IF check_kernel_launch(infos, queue) = {} THEN queue ELSE Tail(queue)

Activate(infos, queue) ==
    LET new == check_kernel_launch(infos, queue)
    IN  /\ active_launch_ids' = active_launch_ids \cup new
        /\ launch_queue' = StillQueued(infos, queue)
        /\ launched' = (launched \/ new # {})

register_kernel(k) ==
    /\ threads = 0
    /\ registered_functions' = registered_functions \cup {k}
    /\ UNCHANGED <<next_launch_id, launch_infos, launch_queue, active_launch_ids,
                   generated_requests, total_requests, count_requests, launched,
                   threads, in_flight>>

\* launch() for the id M2NDP::launch_ndp_kernel has just drawn.  The guard
\* on smem is the assertion at the top of launch().  A launch of a kernel
\* that is not registered stays in launch_infos and is never queued; one
\* with no packet for this unit finishes on the spot.
launch(info) ==
    LET l == next_launch_id
        infos == [i \in DOMAIN launch_infos \cup {l} |->
                    IF i = l THEN info ELSE launch_infos[i]]
    IN  /\ threads = 0
        /\ l < MaxLaunches
        /\ info.smem <= SpadSize
        /\ next_launch_id' = l + 1
        /\ \/ /\ info.kernel \notin registered_functions
              /\ launch_infos' = infos
              /\ UNCHANGED <<launch_queue, active_launch_ids, launched,
                             generated_requests, total_requests, count_requests>>
           \/ /\ info.kernel \in registered_functions
              /\ info.packets = 0
              /\ launch_infos' = launch_infos
              /\ total_requests' = [total_requests EXCEPT ![l] = 0]
              /\ count_requests' = [count_requests EXCEPT ![l] = 0]
              /\ Activate(launch_infos, launch_queue)
              /\ UNCHANGED generated_requests
           \/ /\ info.kernel \in registered_functions
              /\ info.packets > 0
              /\ launch_infos' = infos
              /\ total_requests' = [total_requests EXCEPT ![l] = RequestCount(info)]
              /\ count_requests' = [count_requests EXCEPT ![l] = 0]
              /\ generated_requests' = [generated_requests EXCEPT ![l] = Initializer(l)]
              /\ Activate(infos, Append(launch_queue, l))
        /\ UNCHANGED <<registered_functions, threads, in_flight>>

\* The one-activation-per-cycle flag when cycle() returns: the early return,
\* taken when no active launch has anything to issue, skips the reset.  The
\* second form never resets it.
NeverReset(active, fronts, new) == launched \/ new # {}

LaunchedAfter(active, fronts, new) ==
    /\ active # {}
    /\ get_next_launch_id(active, fronts) = -1
    /\ launched \/ new # {}

\* cycle(): activate a launch, push one uthread of a kernel body unless
\* another part of the system asks for them, then an INITIALIZER or a
\* FINALIZER.
cycle ==
    LET new == check_kernel_launch(launch_infos, launch_queue)
        active == active_launch_ids \cup new
        uthreads == IF CoarseGrained \/ ScWork THEN {}
                    ELSE UthreadPush(active, generated_requests)
        fronts == Pop(generated_requests, uthreads)
        ends == EndPush(active, fronts)
    IN  /\ threads = 0
        /\ active_launch_ids' = active
        /\ launch_queue' = StillQueued(launch_infos, launch_queue)
        /\ generated_requests' = Pop(fronts, ends)
        /\ in_flight' = in_flight \cup Pushed(generated_requests, uthreads)
                                  \cup Pushed(fronts, ends)
        /\ launched' = LaunchedAfter(active, fronts, new)
        /\ UNCHANGED <<next_launch_id, registered_functions, launch_infos,
                       total_requests, count_requests, threads>>

\* The two callers of generate_uthreads outside cycle(): NdpUnit::cycle asks
\* for a full set of uthreads when its sub-cores have run dry (coarse
\* grained), M2NDP::transfer_cxl_to_memory for one uthread per uthread
\* request of the host (sc_work).
generate_uthreads(n) ==
    /\ threads = 0
    /\ \/ CoarseGrained /\ n = CoarseThreads
       \/ ScWork /\ n = 1
    /\ threads' = n
    /\ UNCHANGED <<next_launch_id, registered_functions, launch_infos,
                   launch_queue, active_launch_ids, generated_requests,
                   total_requests, count_requests, launched, in_flight>>

\* One iteration of the loop in generate_uthreads.
generate_uthread ==
    LET uthreads == UthreadPush(active_launch_ids, generated_requests)
    IN  /\ Iterating
        /\ threads' = IF get_next_launch_id(active_launch_ids, generated_requests) = -1
                      THEN 0 ELSE threads - 1
        /\ generated_requests' = Pop(generated_requests, uthreads)
        /\ in_flight' = in_flight \cup Pushed(generated_requests, uthreads)
        /\ UNCHANGED <<next_launch_id, registered_functions, launch_infos,
                       launch_queue, active_launch_ids, total_requests,
                       count_requests, launched>>

\* The counters after a context has come back.  A FINALIZER is counted after
\* finish_launch has erased its launch's counter, which makes a new entry.
\* The second form forgets the initializers.
OnlyBodiesCounted(r) ==
    [count_requests EXCEPT ![r.launch] = IF r.type = "KERNEL_BODY" THEN @ + 1 ELSE @]

increase_count(r) ==
    [count_requests EXCEPT ![r.launch] = IF r.type = "FINALIZER" THEN 1 ELSE @ + 1]

\* NdpUnit::handle_finished_context for one context.
handle_finished_context(r) ==
    LET l == r.launch
    IN  /\ threads = 0
        /\ in_flight' = in_flight \ {r}
        /\ count_requests' = increase_count(r)
        /\ IF r.type = "FINALIZER"
           THEN /\ active_launch_ids' = active_launch_ids \ {l}
                /\ total_requests' = [total_requests EXCEPT ![l] = 0]
                /\ launch_infos' = [i \in DOMAIN launch_infos \ {l} |-> launch_infos[i]]
           ELSE UNCHANGED <<active_launch_ids, total_requests, launch_infos>>
        /\ UNCHANGED <<next_launch_id, registered_functions, launch_queue,
                       generated_requests, launched, threads>>

Init ==
    /\ next_launch_id = 0
    /\ registered_functions = {}
    /\ launch_infos = [l \in {} |-> l]
    /\ launch_queue = <<>>
    /\ active_launch_ids = {}
    /\ generated_requests = [l \in LaunchIds |-> NoRequest]
    /\ total_requests = [l \in LaunchIds |-> 0]
    /\ count_requests = [l \in LaunchIds |-> 0]
    /\ launched = FALSE
    /\ threads = 0
    /\ in_flight = {}

Next ==
    \/ \E k \in KernelIds : register_kernel(k)
    \/ \E info \in KernelLaunchInfo : launch(info)
    \/ cycle
    \/ \E n \in {1, CoarseThreads} : generate_uthreads(n)
    \/ generate_uthread
    \/ \E r \in in_flight : handle_finished_context(r)

Spec == Init /\ [][Next]_generator_vars

\* NdpUnit::cycle runs every NDP cycle and calls cycle() and
\* handle_finished_context() in it; a loop once entered runs to its end; the
\* sub-cores keep running dry (coarse grained) and the host keeps sending
\* uthread requests (sc_work).  Only some context in flight need finish.
Fairness ==
    /\ SF_generator_vars(cycle)
    /\ WF_generator_vars(generate_uthread)
    /\ WF_generator_vars(\E n \in {1, CoarseThreads} : generate_uthreads(n))
    /\ SF_generator_vars(\E r \in in_flight : handle_finished_context(r))

FairSpec == Spec /\ Fairness

-----------------------------------------------------------------------------
(* Properties.                                                             *)

\* The number of requests of a launch in front of r in its deque.
NumBefore(r, l) ==
    LET info == launch_infos[l]
        all == NumKernelBodies[info.kernel] * info.packets
    IN  CASE r.type = "INITIALIZER" -> 0
          [] r.type = "KERNEL_BODY" -> 1 + r.body * info.packets + r.packet
          [] r.type = "FINALIZER" -> 1 + all
          [] OTHER -> 2 + all

Enqueued(l) == \E i \in 1..Len(launch_queue) : launch_queue[i] = l

Underway(l) == l \in active_launch_ids \/ Enqueued(l)

InFlight(l) == {r \in in_flight : r.launch = l}

TypeOK ==
    /\ next_launch_id \in 0..MaxLaunches
    /\ registered_functions \subseteq KernelIds
    /\ DOMAIN launch_infos \subseteq LaunchIds
    /\ launch_infos \in [DOMAIN launch_infos -> KernelLaunchInfo]
    /\ launch_queue \in Seq(LaunchIds)
    /\ active_launch_ids \subseteq LaunchIds
    /\ generated_requests \in [LaunchIds -> Request \cup {NoRequest}]
    /\ total_requests \in [LaunchIds -> Nat]
    /\ count_requests \in [LaunchIds -> Nat]
    /\ launched \in BOOLEAN
    /\ threads \in Nat
    /\ in_flight \subseteq Request

\* The uthreads of one launch that run at the same time all belong to one
\* phase: the initializer runs alone, uthreads of two kernel bodies never
\* overlap, and the finalizer starts when every kernel body has finished
\* (check_can_issue and the two comments "have to check ... done").
PhaseBarrier ==
    \A r, s \in in_flight :
        r.launch = s.launch => r.type = s.type /\ r.body = s.body

\* finish_launch deletes the scratchpad of the launch; no uthread that may
\* still use the scratchpad_map pointer is in flight without it.
ScratchpadAlive ==
    \A r \in in_flight :
        /\ r.launch \in DOMAIN launch_infos
        /\ r.launch \in active_launch_ids

\* Every request of a launch underway is accounted for exactly once: it has
\* been counted, it is in flight, or it is still in the deque.
RequestsAccounted ==
    \A l \in DOMAIN launch_infos :
        Underway(l) =>
            /\ total_requests[l] = RequestCount(launch_infos[l])
            /\ count_requests[l] + Cardinality(InFlight(l))
                 = NumBefore(generated_requests[l], l)

\* The one-activation-per-cycle flag never outlives the cycle that reads it:
\* while it is set some active launch has its INITIALIZER to issue, so the
\* early return of cycle(), which skips the reset, cannot be taken.
LaunchedFlagReleasable ==
    launched => \E l \in active_launch_ids :
                    generated_requests[l].type = "INITIALIZER"

\* Refinement: the state of KernelLaunch read off the generator's state.  A
\* request has started when it is no longer in the deque, and has finished
\* when it has started and is not in flight.
Before(r, f) ==
    \/ f = NoRequest
    \/ r.type = "INITIALIZER" /\ f.type # "INITIALIZER"
    \/ r.type = "KERNEL_BODY" /\ f.type = "FINALIZER"
    \/ /\ r.type = "KERNEL_BODY" /\ f.type = "KERNEL_BODY"
       /\ r.body < f.body \/ (r.body = f.body /\ r.packet < f.packet)

LaunchStatus ==
    [l \in LaunchIds |->
        CASE l >= next_launch_id -> "none"
          [] Underway(l) -> "running"
          [] l \in DOMAIN launch_infos /\ ~Underway(l) -> "rejected"
          [] OTHER -> "done"]

LaunchShape ==
    [l \in LaunchIds |->
        IF Underway(l)
        THEN [bodies |-> NumKernelBodies[launch_infos[l].kernel],
              packets |-> launch_infos[l].packets]
        ELSE [bodies |-> 0, packets |-> 0]]

StartedRequests ==
    [l \in LaunchIds |->
        IF Underway(l)
        THEN {r \in {Initializer(l), Finalizer(l)}
                     \cup {KernelBody(l, b, p) :
                              b \in 0..(LaunchShape[l].bodies - 1),
                              p \in 0..(LaunchShape[l].packets - 1)} :
                Before(r, generated_requests[l])}
        ELSE {}]

FinishedRequests == [l \in LaunchIds |-> StartedRequests[l] \ in_flight]

Promise == INSTANCE KernelLaunch
    WITH Shapes <- [bodies : {NumKernelBodies[k] : k \in KernelIds},
                    packets : 0..MaxPackets],
         status <- LaunchStatus, shape <- LaunchShape,
         started <- StartedRequests, finished <- FinishedRequests

\* The generator implements KernelLaunch: whatever order the contexts come
\* back in, the requests of every launch run once and in stages, and a launch
\* is done when its finalizer is.
ImplementsKernelLaunch == Promise!Spec

\* A launch that was accepted (registered kernel, smem within the assertion
\* "SMEM size should be less than SPAD size") is eventually finished.
LaunchFinishes ==
    \A l \in LaunchIds : total_requests[l] > 0 ~> total_requests[l] = 0
-----------------------------------------------------------------------------
(* The inductive invariant behind PhaseBarrier, ScratchpadAlive,           *)
(* RequestsAccounted and LaunchedFlagReleasable.  The deques and the set   *)
(* in flight are parameters: cycle() pushes twice in one step.             *)

\* r is one of the requests launch() made for l.
RequestOf(r, l) ==
    /\ r \in Request
    /\ r.launch = l
    /\ r.type # "KERNEL_BODY" => r.body = 0 /\ r.packet = 0
    /\ r.type = "KERNEL_BODY" =>
         /\ r.body < NumKernelBodies[launch_infos[l].kernel]
         /\ r.packet < launch_infos[l].packets

\* A launch underway: the deque, the requests in flight and the counters fit
\* together.  Past the first packet of a body everything in flight is of
\* that body; before it, the counter alone tells that nothing is in flight.
LaunchOK(l, fronts, flight) ==
    LET front == fronts[l]
        mine == {r \in flight : r.launch = l}
    IN  /\ l \in DOMAIN launch_infos
        /\ l < next_launch_id
        /\ launch_infos[l].packets > 0
        /\ total_requests[l] = RequestCount(launch_infos[l])
        /\ front = NoRequest \/ RequestOf(front, l)
        /\ count_requests[l] + Cardinality(mine) = NumBefore(front, l)
        /\ \A r \in mine : RequestOf(r, l) /\ Before(r, front)
        /\ \A r, s \in mine : r.type = s.type /\ r.body = s.body
        /\ front.type = "KERNEL_BODY" /\ front.packet > 0 =>
             \A r \in mine : r.type = "KERNEL_BODY" /\ r.body = front.body
        /\ front = NoRequest => Finalizer(l) \in mine

\* A launch in the queue has not begun.
QueueOK(queue, active, fronts) ==
    \A i \in 1..Len(queue) :
        /\ queue[i] \notin active
        /\ fronts[queue[i]] = Initializer(queue[i])
        /\ \A j \in 1..Len(queue) : queue[i] = queue[j] => i = j

\* Nothing is left of a launch that is neither active nor queued.
IdleOK(l, fronts, flight) ==
    /\ fronts[l] = NoRequest
    /\ {r \in flight : r.launch = l} = {}
    /\ total_requests[l] = 0
    /\ l >= next_launch_id => l \notin DOMAIN launch_infos

FlowOK(queue, active, fronts, flight) ==
    /\ IsFiniteSet(flight)
    /\ QueueOK(queue, active, fronts)
    /\ \A l \in LaunchIds :
          IF l \in active \/ \E i \in 1..Len(queue) : queue[i] = l
          THEN LaunchOK(l, fronts, flight)
          ELSE IdleOK(l, fronts, flight)

IInv ==
    /\ TypeOK
    /\ FlowOK(launch_queue, active_launch_ids, generated_requests, in_flight)
    /\ LaunchedFlagReleasable
=============================================================================

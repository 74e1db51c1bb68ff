--------------------------- MODULE NdpUnitProofs ---------------------------
(***************************************************************************)
(* Proofs about NdpUnit, for every value of its constants.  The unit       *)
(* implements the generator's specification, so what is proved of the      *)
(* generator holds of the unit, and a request is in one place of it.       *)
(***************************************************************************)
EXTENDS UnitStepsProofs, KernelLaunchProofs

-----------------------------------------------------------------------------
(* The dispatch, and the invariant of the unit.                            *)

\* connect_instruction_buffer_to_sub_core gives the column it takes to one
\* sub-core.
LEMMA ConnectFacts ==
    ASSUME IInv, UnitInv, connect_instruction_buffer_to_sub_core
    PROVE  \E t \in SubCores :
              /\ inst_column_q' \in [SubCores -> Seq(Request)]
              /\ Distinct(inst_column_q'[t])
              /\ Range(inst_column_q'[t]) = Range(inst_column_q[t]) \cup Fetched
              /\ \A s \in SubCores : s # t => inst_column_q'[s] = inst_column_q[s]
              /\ last_sub_core_fetched' \in SubCores
<1>1. /\ last_sub_core_fetched \in SubCores
      /\ inst_column_q \in [SubCores -> Seq(Request)]
      /\ \A s \in SubCores : Distinct(inst_column_q[s])
      /\ Distinct(inst_columns)
  BY DEF UnitInv
<1>2. CASE inst_columns = <<>> \/ Takers = {}
  <2>1. Fetched = {}
    BY <1>2 DEF Fetched, Heads
  <2>2. UNCHANGED <<inst_column_q, last_sub_core_fetched>>
    BY <1>2 DEF connect_instruction_buffer_to_sub_core
  <2> QED
    BY <1>1, <2>1, <2>2, SubCoreNumbers
<1>3. CASE inst_columns # <<>> /\ Takers # {}
  <2>1. PICK i : i = Min(Takers)
    OBVIOUS
  <2>2. i \in Takers /\ i \in Nat
    <3>1. Takers \in SUBSET Nat
      BY UnitSizesAssumption DEF Takers
    <3> QED
      BY <1>3, <2>1, <3>1, MinOfNaturals, Zenon
  <2>3. PICK t, r : t = Turn(i) /\ r = Head(inst_columns)
    OBVIOUS
  <2>4. t \in SubCores
    BY <1>1, <2>2, <2>3, UnitSizesAssumption DEF Turn, SubCores
  <2>5. /\ inst_column_q' = [inst_column_q EXCEPT ![t] = Append(@, r)]
        /\ last_sub_core_fetched' = t
    BY <1>3, <2>1, <2>3, Zenon DEF connect_instruction_buffer_to_sub_core
  <2>6. Fetched = {r}
    BY <1>3, <2>3 DEF Fetched, Heads
  <2>7. r \in Request /\ r \notin Range(inst_column_q[t])
    <3>1. r \in Range(inst_columns)
      <4>1. Heads(inst_columns) = {r} /\ Heads(inst_columns) \subseteq Range(inst_columns)
        BY <1>1, <1>3, <2>3, WithoutFacts, Zenon DEF Heads
      <4> QED
        BY <4>1
    <3>2. Contents[<<"buffer", 0>>] \cap Contents[<<"sent", t>>] = {}
      BY <2>4, InParts, PartNames, Zenon DEF Partition
    <3> QED
      BY <2>4, <3>1, <3>2, InParts, PartNames, ZenonT(40) DEF Holding
  <2>8. /\ Distinct(Append(inst_column_q[t], r))
        /\ Range(Append(inst_column_q[t], r)) = Range(inst_column_q[t]) \cup {r}
    BY <1>1, <2>4, <2>7, AppendFacts
  <2>9. /\ inst_column_q' \in [SubCores -> Seq(Request)]
        /\ inst_column_q'[t] = Append(inst_column_q[t], r)
        /\ \A s \in SubCores : s # t => inst_column_q'[s] = inst_column_q[s]
    BY <1>1, <2>4, <2>5, <2>7
  <2> QED
    BY <2>4, <2>5, <2>6, <2>8, <2>9
<1> QED
  BY <1>2, <1>3

\* The rest of the cycle preserves the invariant.
LEMMA DispatchUnitInv ==
    ASSUME IInv, UnitInv, IInv', Dispatch
    PROVE  UnitInv'
<1> DEFINE m == matched_requests
           b == inst_columns
<1>1. /\ matched_requests' = Without(m, Heads(m)) \o NewlyPushed
      /\ inst_columns' = Without(b, Fetched) \o SeqOf(Heads(m))
      /\ connect_instruction_buffer_to_sub_core
      /\ UNCHANGED <<after_rename, inst_queue, dependency_info, finished_contexts>>
  BY DEF Dispatch
<1>2. in_flight \subseteq in_flight' /\ in_flight' \subseteq Request /\ IsFiniteSet(in_flight')
  BY Zenon DEF Dispatch, cycle, IInv, TypeOK, FlowOK
<1>3. PICK new, ms : new = in_flight' \ in_flight /\ ms = NewlyPushed
  BY ZenonT(40)
<1>4. /\ Distinct(ms) /\ Range(ms) = new /\ new \in SUBSET Request
      /\ new \cap in_flight = {} /\ in_flight \cup new = in_flight'
  BY <1>2, <1>3, NewlyPushedFacts
<1>5. /\ Distinct(m) /\ Distinct(b) /\ Range(m) \subseteq in_flight /\ Range(b) \subseteq in_flight
      /\ Contents[<<"matched", 0>>] = Range(m) /\ Contents[<<"buffer", 0>>] = Range(b)
      /\ Range(m) \cap Range(b) = {}
  <2>1. Contents[<<"matched", 0>>] \cap Contents[<<"buffer", 0>>] = {}
    BY InParts, PartNames DEF Partition
  <2> QED
    BY <2>1, InParts, PartNames DEF UnitInv, Holding
<1>6. PICK looked_up, fetched : looked_up = Heads(m) /\ fetched = Fetched
  OBVIOUS
<1>7. /\ looked_up \subseteq Heads(m) /\ looked_up \subseteq Range(m)
      /\ fetched \subseteq Heads(b) /\ fetched \subseteq Range(b)
      /\ looked_up \in SUBSET Request /\ IsFiniteSet(looked_up)
  <2>1. Heads(m) \subseteq Range(m) /\ Heads(b) \subseteq Range(b)
    BY <1>5, WithoutFacts, ZenonT(40)
  <2>2. looked_up \subseteq in_flight
    BY <1>5, <1>6, <2>1
  <2> QED
    BY <1>6, <2>1, <2>2, InParts, FS_Subset DEF Fetched
<1>8. Distinct(matched_requests') /\ Range(matched_requests') = (Range(m) \ looked_up) \cup new
  <2>1. matched_requests' = Without(m, looked_up) \o ms
    BY <1>1, <1>3, <1>6
  <2> QED
    BY <1>4, <1>5, <1>7, <2>1, QueueStep
<1>9. Distinct(inst_columns') /\ Range(inst_columns') = (Range(b) \ fetched) \cup looked_up
  <2>1. inst_columns' = Without(b, fetched) \o SeqOf(looked_up)
    BY <1>1, <1>6
  <2>2. Distinct(SeqOf(looked_up)) /\ Range(SeqOf(looked_up)) = looked_up
    BY <1>7, SeqOfFacts
  <2> QED
    BY <1>5, <1>7, <2>1, <2>2, QueueStep
<1>10. PICK t \in SubCores :
              /\ inst_column_q' \in [SubCores -> Seq(Request)]
              /\ Distinct(inst_column_q'[t])
              /\ Range(inst_column_q'[t]) = Range(inst_column_q[t]) \cup fetched
              /\ \A s \in SubCores : s # t => inst_column_q'[s] = inst_column_q[s]
              /\ last_sub_core_fetched' \in SubCores
  BY <1>1, <1>6, ConnectFacts, ZenonT(40)
<1>11. Partition(Contents, in_flight)'
  <2>1. Contents \in PartsType /\ Partition(Contents, in_flight) /\ Holding(Contents)
    BY InParts
  <2>2. fetched \in SUBSET Contents[<<"buffer", 0>>] /\ looked_up \in SUBSET Contents[<<"matched", 0>>]
    BY <1>5, <1>7
  <2>3. PICK D \in PartsType :
           /\ Partition(D, in_flight \cup new)
           /\ DispatchParts(Contents, D, t, fetched, looked_up, new)
    BY <1>4, <2>1, <2>2, DispatchCrossings, ZenonT(40)
  <2>4. /\ D[<<"matched", 0>>] = Range(matched_requests')
        /\ D[<<"buffer", 0>>] = Range(inst_columns')
    BY <1>5, <1>8, <1>9, <2>3 DEF DispatchParts
  <2>5. D[<<"empty", 0>>] = {c.request : c \in EmptyContexts'}
    <3>1. EmptyContexts' = EmptyContexts
      BY <1>1 DEF EmptyContexts
    <3> QED
      BY <2>1, <2>3, <3>1, PartNames DEF DispatchParts, Holding
  <2>6. ASSUME NEW s \in SubCores
        PROVE  /\ D[<<"sent", s>>] = Range(inst_column_q'[s])
               /\ D[<<"renamed", s>>] = Range(after_rename'[s])
               /\ D[<<"queue", s>>] = inst_queue'[s]
    <3>1. /\ Contents[<<"sent", s>>] = Range(inst_column_q[s])
          /\ Contents[<<"renamed", s>>] = Range(after_rename[s])
          /\ Contents[<<"queue", s>>] = inst_queue[s]
      BY <2>1 DEF Holding
    <3>2. /\ D[<<"renamed", s>>] = Contents[<<"renamed", s>>]
          /\ D[<<"queue", s>>] = Contents[<<"queue", s>>]
          /\ s # t => D[<<"sent", s>>] = Contents[<<"sent", s>>]
          /\ D[<<"sent", t>>] = Contents[<<"sent", t>>] \cup fetched
      BY <2>3, PartNames DEF DispatchParts
    <3> QED
      BY <1>1, <1>10, <3>1, <3>2, Zenon
  <2>7. Holding(D)'
    BY <2>4, <2>5, <2>6 DEF Holding
  <2> QED
    BY <1>4, <2>3, <2>7, NextPartition
<1>12. \A s \in SubCores : Distinct(inst_column_q'[s]) /\ Distinct(after_rename'[s])
  BY <1>1, <1>10, Zenon DEF UnitInv
<1>13. \A s \in SubCores : DependencyOK(dependency_info[s], inst_queue[s])'
  BY <1>1 DEF UnitInv, DependencyOK
<1>14. /\ inst_queue' \in [SubCores -> SUBSET Request]
       /\ after_rename' \in [SubCores -> Seq(Request)]
       /\ finished_contexts' \subseteq [request : Request, sub_core : SubCores \cup {-1}]
       /\ \A c \in finished_contexts' : c.sub_core # -1 => c.request \in inst_queue'[c.sub_core]
       /\ DOMAIN dependency_info' = SubCores
  BY <1>1 DEF UnitInv
<1> QED
  BY <1>8, <1>9, <1>10, <1>11, <1>12, <1>13, <1>14, ZenonT(40) DEF UnitInv, Distinct

\* The unit starts empty.
LEMMA InitUnitInv == UnitInit => UnitInv
<1> SUFFICES ASSUME UnitInit PROVE UnitInv
  OBVIOUS
<1>1. PICK D : D = [p \in Parts |-> {}]
  BY Zenon
<1>2. D \in PartsType /\ \A p \in Parts : D[p] = {}
  BY <1>1 DEF PartsType
<1>3. Partition(D, in_flight)
  BY <1>2 DEF Partition, UnitInit, Init
<1>4. /\ Range(matched_requests) = {} /\ Range(inst_columns) = {}
      /\ {c.request : c \in EmptyContexts} = {}
      /\ \A sc \in SubCores : /\ Range(inst_column_q[sc]) = {}
                               /\ Range(after_rename[sc]) = {} /\ inst_queue[sc] = {}
  BY DEF UnitInit, EmptyContexts, Range
<1>5. Partition(Contents, in_flight)
  <2>1. Holding(D)
    BY <1>2, <1>4, PartNames, Zenon DEF Holding
  <2> QED
    BY <1>2, <1>3, <2>1, ContentsAre DEF ContentsExact
<1>6. ASSUME NEW sc \in SubCores
      PROVE  DependencyOK(dependency_info[sc], inst_queue[sc])
  BY DEF UnitInit, DependencyOK, LaunchesOf
<1> QED
  BY <1>5, <1>6, SubCoreNumbers DEF UnitInv, UnitInit, Distinct

\* Every step of the unit preserves both invariants.
LEMMA NextUnitInv == IInv /\ UnitInv /\ [UnitNext]_all_vars => IInv' /\ UnitInv'
<1> SUFFICES ASSUME IInv, UnitInv, [UnitNext]_all_vars
             PROVE  IInv' /\ UnitInv'
  OBVIOUS
<1>1. [Next]_generator_vars
  BY GeneratorStep DEF all_vars
<1>2. IInv'
  BY <1>1, NextIInv
<1> SUFFICES UnitInv'
  BY <1>2
<1>3. CASE UNCHANGED all_vars
  BY <1>3, FrameUnitInv DEF all_vars, generator_vars, unit_vars
<1>4. CASE BeginCycle \/ AllFinishedHandled
  BY <1>4, FrameUnitInv DEF BeginCycle, AllFinishedHandled, generator_vars
<1>5. CASE HandleFinished
  BY <1>5, HandleFinishedUnitInv
<1>6. CASE \E sc \in SubCores : \E done \in SUBSET Running(sc) : SubCoreCycle(sc, done)
  BY <1>6, SubCoreUnitInv
<1>7. CASE Generate
  <2>1. in_flight' = in_flight
    BY <1>7 DEF Generate, generate_uthreads, generator_vars
  <2> QED
    BY <1>7, <2>1, FrameUnitInv DEF Generate
<1>8. CASE GenerateUthread
  BY <1>2, <1>8, GenerateUthreadUnitInv
<1>9. CASE Dispatch
  BY <1>2, <1>9, DispatchUnitInv
<1>10. CASE \E k \in KernelIds : register_ndp_kernel(k)
  BY <1>10, FrameUnitInv DEF register_ndp_kernel, register_kernel, unit_vars
<1>11. CASE \E info \in KernelLaunchInfo : launch_ndp_kernel(info)
  <2>1. in_flight' = in_flight /\ UNCHANGED unit_vars
    BY <1>11 DEF launch_ndp_kernel, launch
  <2> QED
    BY <2>1, FrameUnitInv DEF unit_vars
<1>12. CASE uthread_request
  BY <1>12, FrameUnitInv DEF uthread_request, generate_uthreads, unit_vars
<1> QED
  BY <1>2, <1>3, <1>4, <1>5, <1>6, <1>7, <1>8, <1>9, <1>10, <1>11, <1>12
     DEF UnitNext, UnitCycle

\* The generator's invariant and the unit's hold throughout.
LEMMA UnitInvariant == UnitSpec => [](IInv /\ UnitInv)
<1>1. UnitInit => IInv /\ UnitInv
  BY InitUnitInv, InitIInv DEF UnitInit
<1> QED
  BY <1>1, NextUnitInv, PTL DEF UnitSpec

-----------------------------------------------------------------------------
(* What the unit promises.                                                 *)

\* The unit implements the generator's specification: what a sub-core hands
\* back is a request the generator has pushed and has not counted yet.
THEOREM UnitRefinesGenerator == UnitSpec => UnitImplementsGenerator
<1>1. UnitInit => Init
  BY DEF UnitInit
<1>2. IInv /\ UnitInv /\ [UnitNext]_all_vars => [Next]_generator_vars
  BY GeneratorStep DEF all_vars
<1> QED
  BY <1>1, <1>2, UnitInvariant, PTL DEF UnitSpec, UnitImplementsGenerator, Spec

\* So the whole unit, with its queues, its sub-cores and its register stalls,
\* runs the requests of every launch once and in stages.
THEOREM UnitRefinesKernelLaunch == UnitSpec => ImplementsKernelLaunch
  BY UnitRefinesGenerator, GeneratorImplementsKernelLaunch DEF UnitImplementsGenerator

\* Inside the unit the phases of a launch do not overlap, its scratchpad
\* outlives its requests, every request is accounted for and the
\* one-activation-per-cycle flag can be released.
THEOREM UnitKeepsGeneratorInvariants ==
    UnitSpec => [](PhaseBarrier /\ ScratchpadAlive /\ RequestsAccounted
                     /\ LaunchedFlagReleasable)
  BY UnitInvariant, IInvImplies, PTL

\* The dependency table of every sub-core counts the columns in its queue.
THEOREM DependencyTableCounts == UnitSpec => []DependencyCounts
<1>1. UnitInv => DependencyCounts
  BY DEF UnitInv, DependencyOK, DependencyCounts
<1> QED
  BY <1>1, UnitInvariant, PTL

\* can_push never refuses a column for the phase of its launch.
THEOREM DependencyCheckRedundant == UnitSpec => []DependencyNeverStalls
<1>1. ASSUME IInv, UnitInv PROVE DependencyNeverStalls
  <2> SUFFICES ASSUME NEW sc \in SubCores, NEW i \in 1..Len(after_rename[sc]),
                      NEW r, r = after_rename[sc][i], r.launch \in DOMAIN dependency_info[sc]
               PROVE  /\ dependency_info[sc][r.launch].type = r.type
                      /\ dependency_info[sc][r.launch].body = r.body
    BY DEF DependencyNeverStalls, SameStep
  <2>1. r \in in_flight
    <3>1. r \in Range(after_rename[sc])
      BY <1>1, RangeByPosition DEF UnitInv
    <3> QED
      BY <1>1, <3>1, InParts, PartNames, ZenonT(40) DEF Holding
  <2>2. PICK x \in inst_queue[sc] : x.launch = r.launch
    <3>1. DOMAIN dependency_info[sc] = LaunchesOf(inst_queue[sc])
      BY <1>1 DEF UnitInv, DependencyOK
    <3> QED
      BY <3>1 DEF LaunchesOf
  <2>3. x \in in_flight
    BY <1>1, InParts, PartNames, ZenonT(40) DEF Holding
  <2>4. x.type = r.type /\ x.body = r.body
    BY <1>1, <2>1, <2>2, <2>3, IInvImplies DEF PhaseBarrier
  <2>5. /\ dependency_info[sc][x.launch].type = x.type
        /\ dependency_info[sc][x.launch].body = x.body
    BY <1>1 DEF UnitInv, DependencyOK
  <2> QED
    BY <2>2, <2>4, <2>5
<1> QED
  BY <1>1, UnitInvariant, PTL

\* is_active does not report an idle unit while a launch waits or runs.
THEOREM UnitActiveWhileWorking == UnitSpec => []ActiveWhileWorking
<1>1. ASSUME IInv PROVE ActiveWhileWorking
  <2>1. FlowOK(launch_queue, active_launch_ids, generated_requests, in_flight)
        /\ launch_queue \in Seq(LaunchIds) /\ active_launch_ids \subseteq LaunchIds
    BY <1>1 DEF IInv, TypeOK
  <2>2. CASE launch_queue # <<>>
    <3>1. 1 \in 1..Len(launch_queue) /\ launch_queue[1] \in LaunchIds
      BY <2>1, <2>2
    <3>2. LaunchOK(launch_queue[1], generated_requests, in_flight)
      BY <2>1, <3>1 DEF FlowOK
    <3> QED
      BY <3>2 DEF LaunchOK, ActiveWhileWorking, is_active
  <2>3. CASE active_launch_ids # {}
    <3>1. PICK l \in active_launch_ids : LaunchOK(l, generated_requests, in_flight)
      BY <2>1, <2>3 DEF FlowOK
    <3> QED
      BY <3>1 DEF LaunchOK, ActiveWhileWorking, is_active
  <2>4. CASE in_flight # {}
    <3>1. PICK r \in in_flight : r.launch \in DOMAIN launch_infos
      BY <1>1, <2>4, IInvImplies DEF ScratchpadAlive
    <3> QED
      BY <3>1 DEF ActiveWhileWorking, is_active
  <2> QED
    BY <2>2, <2>3, <2>4 DEF ActiveWhileWorking
<1> QED
  BY <1>1, UnitInvariant, PTL

-----------------------------------------------------------------------------
(* No request is lost or doubled between two queues.                       *)

\* A request the generator waits for is in exactly one place of the unit: none
\* is dropped between two queues and none is duplicated.
THEOREM EveryRequestInOnePlace == UnitSpec => []OnePlace
<1>1. ASSUME IInv, UnitInv PROVE OnePlace
  <2> SUFFICES ASSUME NEW r \in in_flight PROVE Cardinality(Places(r)) = 1
    BY DEF OnePlace
  <2>1. PICK x : Places(r) = {x}
    BY <1>1, PlaceExists
  <2> QED
    BY <2>1, FS_Singleton
<1> QED
  BY <1>1, UnitInvariant, PTL

-----------------------------------------------------------------------------
(* The register free list.                                                 *)

\* The columns of the requests in flight are known.
LEMMA ColumnKnown ==
    ASSUME IInv, NEW r \in in_flight
    PROVE  /\ <<launch_infos[r.launch].kernel, r.type, r.body>> \in DOMAIN Columns
           /\ IsFiniteSet(Column(r).counted) /\ IsFiniteSet(MappedRegs(r))
           /\ Convert(r) \in Nat
<1>1. RequestOf(r, r.launch) /\ r.launch \in DOMAIN launch_infos /\ TypeOK
  BY FlightOK, ZenonT(40) DEF LaunchOK, IInv
<1>2. PICK k : k = launch_infos[r.launch].kernel
  OBVIOUS
<1>3. k \in KernelIds /\ NumKernelBodies[k] \in Nat \ {0}
  BY <1>1, <1>2, LaunchShapeType
<1>4. /\ r.type \in {"INITIALIZER", "KERNEL_BODY", "FINALIZER"} /\ r.body \in Nat
      /\ r.type # "KERNEL_BODY" => r.body = 0
      /\ r.type = "KERNEL_BODY" => r.body \in 0..(NumKernelBodies[k] - 1)
  BY <1>1, <1>2, <1>3 DEF RequestOf, Request
<1>5. <<k, r.type, r.body>> \in DOMAIN Columns
  BY <1>3, <1>4, ColumnsAssumption, ZenonT(40)
<1>6. IsFiniteSet(Column(r).counted) /\ IsFiniteSet(Column(r).dests)
  BY <1>2, <1>5, DestinationsAssumption DEF Column
<1>7. IsFiniteSet({1, 2})
  <2>1. IsFiniteSet({1}) /\ {1, 2} = {1} \cup {2}
    BY FS_Singleton, Zenon
  <2> QED
    BY <2>1, FS_AddElement
<1>8. IsFiniteSet(MappedRegs(r))
  BY <1>6, <1>7, FS_Union, Zenon DEF MappedRegs
<1> QED
  BY <1>2, <1>5, <1>6, <1>8, FS_CardinalityType DEF Convert

\* The launch of a request that stays in flight is not touched: the id of a
\* new launch is fresh, and a launch that finishes has nothing else in flight.
LEMMA LaunchKept ==
    ASSUME IInv, IInv', [Next]_generator_vars, NEW r \in in_flight, r \in in_flight'
    PROVE  launch_infos'[r.launch] = launch_infos[r.launch]
<1>1. /\ r.launch \in DOMAIN launch_infos
      /\ r.launch \in DOMAIN launch_infos'
  <2>1. ScratchpadAlive /\ ScratchpadAlive'
    <3>1. (IInv => ScratchpadAlive)'
      BY IInvImplies, PTL
    <3> QED
      BY <3>1, IInvImplies
  <2> QED
    BY <2>1 DEF ScratchpadAlive
<1>2. CASE UNCHANGED generator_vars
  BY <1>2 DEF generator_vars
<1>3. ASSUME NEW info \in KernelLaunchInfo, launch(info)
      PROVE  launch_infos'[r.launch] = launch_infos[r.launch]
  <2>1. next_launch_id \notin DOMAIN launch_infos
    <3>1. next_launch_id \in LaunchIds
      BY <1>3, BoundsAssumption DEF launch, IInv, TypeOK, LaunchIds
    <3> QED
      BY <3>1, FreshLaunch DEF IInv
  <2>2. \/ launch_infos' = launch_infos
        \/ launch_infos' = [i \in DOMAIN launch_infos \cup {next_launch_id} |->
                              IF i = next_launch_id THEN info ELSE launch_infos[i]]
    BY <1>3, Zenon DEF launch
  <2> QED
    BY <1>1, <2>1, <2>2
<1>4. ASSUME NEW s \in in_flight, handle_finished_context(s)
      PROVE  launch_infos'[r.launch] = launch_infos[r.launch]
  <2>1. \/ launch_infos' = launch_infos
        \/ launch_infos' = [i \in DOMAIN launch_infos \ {s.launch} |-> launch_infos[i]]
    BY <1>4 DEF handle_finished_context
  <2> QED
    BY <1>1, <2>1
<1>5. CASE \/ \E k \in KernelIds : register_kernel(k)
           \/ cycle
           \/ \E n \in {1, CoarseThreads} : generate_uthreads(n)
           \/ generate_uthread
  BY <1>5, Zenon DEF register_kernel, cycle, generate_uthreads, generate_uthread
<1> QED
  BY <1>2, <1>3, <1>4, <1>5 DEF Next

\* The registers Convert maps for each request in flight.
RegsOf == [r \in in_flight |-> MappedRegs(r)]

\* What a sub-core holds, before and after a step, in terms of RegsOf before.
LEMMA HeldNow ==
    ASSUME NEW sc, xreg_mapping[sc] \subseteq in_flight
    PROVE  HeldRegs(sc) = Pairs(xreg_mapping[sc], RegsOf)
  BY Zenon DEF HeldRegs, Pairs, RegsOf

\* What a sub-core holds after a step.
LEMMA HeldNext ==
    ASSUME IInv, IInv', [Next]_generator_vars, NEW sc,
           NEW CONSTANT f, f = RegsOf,
           xreg_mapping'[sc] \subseteq in_flight, xreg_mapping'[sc] \subseteq in_flight'
    PROVE  HeldRegs(sc)' = Pairs(xreg_mapping'[sc], f)
<1>1. \A r \in xreg_mapping'[sc] : MappedRegs(r)' = f[r]
  BY LaunchKept DEF MappedRegs, Column, RegsOf
<1>2. \A x : x \in HeldRegs(sc)' <=> \E r \in xreg_mapping'[sc] : \E m \in MappedRegs(r)' : x = <<r, m>>
  BY DEF HeldRegs
<1>3. \A x : x \in Pairs(xreg_mapping'[sc], f) <=>
                \E r \in xreg_mapping'[sc] : \E m \in f[r] : x = <<r, m>>
  BY DEF Pairs
<1> QED
  BY <1>1, <1>2, <1>3, ZenonT(40)

\* The balance before a step.
LEMMA BalancedNow ==
    ASSUME IInv, UnitInv, RegistersInv, NEW CONSTANT f, f = RegsOf
    PROVE  /\ \A r \in in_flight : IsFiniteSet(f[r]) /\ Cardinality(f[r]) = Convert(r)
           /\ \A s \in SubCores :
                 /\ xreg_mapping[s] = Range(after_rename[s]) \cup inst_queue[s]
                 /\ xreg_mapping[s] \subseteq in_flight
                 /\ Balanced(free_xregs[s], xreg_mapping[s], f)
<1>1. ASSUME NEW r \in in_flight PROVE IsFiniteSet(f[r]) /\ Cardinality(f[r]) = Convert(r)
  BY ColumnKnown, ZenonT(40) DEF RegsOf, Convert
<1>2. ASSUME NEW s \in SubCores
      PROVE  /\ xreg_mapping[s] = Range(after_rename[s]) \cup inst_queue[s]
             /\ xreg_mapping[s] \subseteq in_flight
  <2>1. xreg_mapping[s] = Range(after_rename[s]) \cup inst_queue[s]
    BY DEF RegistersInv, RegistersReturned
  <2>2. Range(after_rename[s]) \subseteq in_flight /\ inst_queue[s] \subseteq in_flight
    <3>1. /\ Contents[<<"renamed", s>>] = Range(after_rename[s]) /\ <<"renamed", s>> \in Parts
          /\ Contents[<<"queue", s>>] = inst_queue[s] /\ <<"queue", s>> \in Parts
      BY InParts, PartNames, ZenonT(40) DEF Holding
    <3> QED
      BY <3>1, InParts
  <2> QED
    BY <2>1, <2>2
<1>3. ASSUME NEW s \in SubCores
      PROVE  Balanced(free_xregs[s], xreg_mapping[s], f)
  <2>1. HeldRegs(s) = Pairs(xreg_mapping[s], f)
    BY <1>2, HeldNow
  <2> QED
    BY <2>1, Zenon DEF RegistersInv, RegistersReturned, Balanced
<1> QED
  BY <1>1, <1>2, <1>3

\* The balance after a step.
LEMMA BalancedNext ==
    ASSUME IInv, IInv', [Next]_generator_vars, NEW CONSTANT f, f = RegsOf,
           free_xregs' \in [SubCores -> Int], DOMAIN xreg_mapping' = SubCores,
           \A s \in SubCores :
              /\ xreg_mapping'[s] = Range(after_rename'[s]) \cup inst_queue'[s]
              /\ xreg_mapping'[s] \subseteq in_flight /\ xreg_mapping'[s] \subseteq in_flight'
              /\ Balanced(free_xregs'[s], xreg_mapping'[s], f)
    PROVE  RegistersInv'
<1>1. ASSUME NEW s \in SubCores PROVE HeldRegs(s)' = Pairs(xreg_mapping'[s], f)
  BY HeldNext
<1>2. \A s \in SubCores : /\ IsFiniteSet(HeldRegs(s)')
                            /\ free_xregs'[s] + Cardinality(HeldRegs(s)') = NumXregs
  BY <1>1 DEF Balanced
<1>3. \A s \in SubCores : IsFiniteSet(HeldRegs(s))'
  BY <1>2
<1>4. RegistersReturned'
  BY <1>2 DEF RegistersReturned
<1> QED
  BY <1>3, <1>4 DEF RegistersInv

\* A step that renames nothing and finishes nothing leaves the balance alone.
LEMMA RegistersFrame ==
    ASSUME IInv, IInv', [Next]_generator_vars, UnitInv, RegistersInv,
           in_flight \subseteq in_flight',
           UNCHANGED <<free_xregs, xreg_mapping, after_rename, inst_queue>>
    PROVE  RegistersInv'
<1>1. PICK f : f = RegsOf
  OBVIOUS
<1>2. \A s \in SubCores :
         /\ xreg_mapping[s] = Range(after_rename[s]) \cup inst_queue[s]
         /\ xreg_mapping[s] \subseteq in_flight
         /\ Balanced(free_xregs[s], xreg_mapping[s], f)
  BY <1>1, BalancedNow
<1>3. free_xregs \in [SubCores -> Int] /\ DOMAIN xreg_mapping = SubCores
  BY DEF RegistersInv
<1> QED
  BY <1>1, <1>2, <1>3, BalancedNext

\* FreeRegs gives back what Convert took.
LEMMA RegistersFreed ==
    ASSUME IInv, IInv', [Next]_generator_vars, UnitInv, RegistersInv,
           NEW sc \in SubCores, NEW r \in inst_queue[sc],
           in_flight' = in_flight \ {r},
           free_xregs' = [free_xregs EXCEPT ![sc] = @ + FreeRegs(r)],
           xreg_mapping' = [xreg_mapping EXCEPT ![sc] = @ \ {r}],
           inst_queue' = [inst_queue EXCEPT ![sc] = finish_inst_column(sc, r)],
           UNCHANGED after_rename
    PROVE  RegistersInv'
<1>1. PICK f : f = RegsOf
  OBVIOUS
<1>2. /\ \A q \in in_flight : IsFiniteSet(f[q]) /\ Cardinality(f[q]) = Convert(q)
      /\ \A s \in SubCores :
            /\ xreg_mapping[s] = Range(after_rename[s]) \cup inst_queue[s]
            /\ xreg_mapping[s] \subseteq in_flight
            /\ Balanced(free_xregs[s], xreg_mapping[s], f)
  BY <1>1, BalancedNow
<1>3. free_xregs \in [SubCores -> Int] /\ DOMAIN xreg_mapping = SubCores
      /\ inst_queue \in [SubCores -> SUBSET Request]
  BY DEF RegistersInv, UnitInv
<1>4. /\ r \in in_flight /\ r \notin Range(after_rename[sc])
      /\ \A s \in SubCores : s # sc => r \notin Range(after_rename[s]) /\ r \notin inst_queue[s]
  <2>1. /\ Contents[<<"queue", sc>>] = inst_queue[sc] /\ <<"queue", sc>> \in Parts
        /\ \A s \in SubCores : /\ Contents[<<"renamed", s>>] = Range(after_rename[s])
                                /\ Contents[<<"queue", s>>] = inst_queue[s]
    BY InParts, PartNames, Zenon DEF Holding
  <2>2. \A p \in Parts : p # <<"queue", sc>> => r \notin Contents[p]
    BY <2>1, InParts, ZenonT(40) DEF Partition
  <2> QED
    BY <2>1, <2>2, InParts, PartNames, ZenonT(40)
<1>5. PICK T : T = xreg_mapping[sc] \ {r}
  BY Zenon
<1>6. /\ xreg_mapping'[sc] = T /\ T \cup {r} = xreg_mapping[sc] /\ r \notin T
      /\ free_xregs'[sc] = free_xregs[sc] + Cardinality(f[r])
      /\ inst_queue'[sc] = inst_queue[sc] \ {r}
  BY <1>2, <1>3, <1>4, <1>5, ZenonT(40) DEF FreeRegs, finish_inst_column
<1>7. \A s \in SubCores : s # sc => /\ xreg_mapping'[s] = xreg_mapping[s]
                                      /\ free_xregs'[s] = free_xregs[s]
                                      /\ inst_queue'[s] = inst_queue[s]
  BY <1>3
<1>8. Balanced(free_xregs'[sc], T, f)
  <2>1. Balanced(free_xregs[sc], xreg_mapping[sc], f) /\ IsFiniteSet(f[r]) /\ r \in xreg_mapping[sc]
    BY <1>2, <1>4, ZenonT(40)
  <2>2. Balanced(free_xregs[sc], T \cup {r}, f) /\ r \notin T
    BY <1>6, <2>1
  <2>3. Balanced(free_xregs[sc] + Cardinality(f[r]), T, f)
    BY <2>1, <2>2, GiveBack
  <2> QED
    BY <1>6, <2>3
<1>9. ASSUME NEW s \in SubCores
      PROVE  /\ xreg_mapping'[s] = Range(after_rename'[s]) \cup inst_queue'[s]
             /\ xreg_mapping'[s] \subseteq in_flight /\ xreg_mapping'[s] \subseteq in_flight'
             /\ Balanced(free_xregs'[s], xreg_mapping'[s], f)
  <2>1. CASE s = sc
    <3>1. T = Range(after_rename[sc]) \cup (inst_queue[sc] \ {r}) /\ T \subseteq in_flight
      BY <1>2, <1>4, <1>5, ZenonT(40)
    <3> QED
      BY <1>6, <1>8, <2>1, <3>1
  <2>2. CASE s # sc
    BY <1>2, <1>4, <1>7, <2>2, ZenonT(40)
  <2> QED
    BY <2>1, <2>2, ZenonT(40)
<1>10. free_xregs' \in [SubCores -> Int] /\ DOMAIN xreg_mapping' = SubCores
  <2>1. free_xregs'[sc] \in Int
    BY <1>8 DEF Balanced
  <2> QED
    BY <1>3, <2>1
<1> QED
  BY <1>1, <1>9, <1>10, BalancedNext, ZenonT(40)

\* A column is renamed: the registers Convert takes are held.  No column is
\* empty, so none leaves the rename stage without entering the queue.
LEMMA RegistersTaken ==
    ASSUME IInv, IInv', [Next]_generator_vars, UnitInv, RegistersInv,
           NEW sc \in SubCores, NEW done, NEW pushed, NEW renamed,
           SubCoreMoves(sc, done, pushed, {}, renamed)
    PROVE  RegistersInv'
<1> DEFINE a == after_rename[sc]
           q == inst_column_q[sc]
<1>1. PICK f : f = RegsOf
  OBVIOUS
<1>2. /\ \A r \in in_flight : IsFiniteSet(f[r]) /\ Cardinality(f[r]) = Convert(r)
      /\ \A s \in SubCores :
            /\ xreg_mapping[s] = Range(after_rename[s]) \cup inst_queue[s]
            /\ xreg_mapping[s] \subseteq in_flight
            /\ Balanced(free_xregs[s], xreg_mapping[s], f)
  BY <1>1, BalancedNow, ZenonT(40)
<1>3. /\ free_xregs \in [SubCores -> Int] /\ DOMAIN xreg_mapping = SubCores
      /\ inst_queue \in [SubCores -> SUBSET Request]
      /\ after_rename \in [SubCores -> Seq(Request)]
  BY DEF RegistersInv, UnitInv
<1>4. /\ Distinct(a) /\ Distinct(q) /\ Range(q) \subseteq in_flight
      /\ Range(q) \cap xreg_mapping[sc] = {}
  <2>1. /\ Contents[<<"renamed", sc>>] = Range(a) /\ Contents[<<"sent", sc>>] = Range(q)
        /\ Contents[<<"queue", sc>>] = inst_queue[sc]
        /\ <<"renamed", sc>> \in Parts /\ <<"sent", sc>> \in Parts /\ <<"queue", sc>> \in Parts
    BY InParts, PartNames, ZenonT(40) DEF Holding
  <2>2. /\ Contents[<<"renamed", sc>>] \cap Contents[<<"sent", sc>>] = {}
        /\ Contents[<<"queue", sc>>] \cap Contents[<<"sent", sc>>] = {}
    BY <2>1, InParts, ZenonT(40) DEF Partition
  <2>3. Range(q) \subseteq in_flight
    BY <2>1, InParts, ZenonT(40)
  <2>4. Range(q) \cap xreg_mapping[sc] = {}
    BY <1>2, <2>1, <2>2, ZenonT(40)
  <2> QED
    BY <2>3, <2>4, ZenonT(40) DEF UnitInv
<1>5. /\ pushed \subseteq Heads(a) /\ pushed \subseteq Range(a)
      /\ renamed \subseteq Heads(q) /\ renamed \subseteq Range(q)
      /\ renamed \subseteq Request /\ IsFiniteSet(renamed)
  <2>1. pushed \subseteq Heads(a) /\ renamed \subseteq Heads(q)
    BY DEF SubCoreMoves
  <2>2. Heads(a) \subseteq Range(a) /\ Heads(q) \subseteq Range(q)
    BY <1>4, WithoutFacts, ZenonT(40)
  <2> QED
    BY <1>4, <2>1, <2>2, InParts, FS_Subset, ZenonT(40)
<1>6. Range(after_rename'[sc]) = (Range(a) \ pushed) \cup renamed
  <2>1. Distinct(SeqOf(renamed)) /\ Range(SeqOf(renamed)) = renamed
    BY <1>5, SeqOfFacts, ZenonT(40)
  <2>2. PICK a2 : a2 = Without(a, pushed) \o SeqOf(renamed)
    BY ZenonT(40)
  <2>3. Range(a2) = (Range(a) \ pushed) \cup renamed
    <3>1. PICK s : s = SeqOf(renamed)
      OBVIOUS
    <3>2. Distinct(a) /\ pushed \in SUBSET Heads(a) /\ Distinct(s)
      BY <1>4, <1>5, <2>1, <3>1, ZenonT(40)
    <3>3. (Range(a) \ pushed) \cap Range(s) = {}
      BY <1>2, <1>4, <1>5, <2>1, <3>1, ZenonT(40)
    <3>4. Range(Without(a, pushed) \o s) = (Range(a) \ pushed) \cup Range(s)
      BY <3>2, <3>3, QueueStep
    <3> QED
      BY <2>1, <2>2, <3>1, <3>4
  <2>4. after_rename'[sc] = a2
    <3>1. pushed \cup {} = pushed
      OBVIOUS
    <3> QED
      BY <1>3, <2>2, <3>1, ZenonT(40) DEF SubCoreMoves
  <2> QED
    BY <2>3, <2>4
<1>7. /\ inst_queue'[sc] = inst_queue[sc] \cup pushed
      /\ xreg_mapping'[sc] = xreg_mapping[sc] \cup renamed
      /\ DOMAIN xreg_mapping' = SubCores /\ DOMAIN free_xregs' = SubCores
      /\ free_xregs' = [s \in SubCores |-> free_xregs'[s]]
      /\ in_flight' = in_flight
  BY <1>3, ZenonT(40) DEF SubCoreMoves, generator_vars
<1>8. \A s \in SubCores : s # sc => /\ xreg_mapping'[s] = xreg_mapping[s]
                                      /\ free_xregs'[s] = free_xregs[s]
                                      /\ inst_queue'[s] = inst_queue[s]
                                      /\ after_rename'[s] = after_rename[s]
  BY <1>3, ZenonT(40) DEF SubCoreMoves
<1>9. Balanced(free_xregs'[sc], xreg_mapping'[sc], f)
  <2>1. Balanced(free_xregs[sc], xreg_mapping[sc], f)
    BY <1>2, ZenonT(40)
  <2>2. CASE renamed = {}
    <3>1. free_xregs'[sc] = free_xregs[sc] /\ xreg_mapping'[sc] = xreg_mapping[sc]
      BY <1>3, <1>7, <2>2, ZenonT(40) DEF SubCoreMoves
    <3> QED
      BY <2>1, <3>1, ZenonT(40)
  <2>3. CASE renamed # {}
    <3>1. PICK r : r = Head(q)
      OBVIOUS
    <3>2. renamed = {r}
      BY <1>5, <2>3, <3>1, ZenonT(40) DEF Heads
    <3>3. r \in in_flight /\ r \notin xreg_mapping[sc]
      BY <1>4, <1>5, <3>2, ZenonT(40)
    <3>4. Balanced(free_xregs[sc] - Cardinality(f[r]), xreg_mapping[sc] \cup {r}, f)
      BY <1>2, <2>1, <3>3, Take, ZenonT(40)
    <3>5. free_xregs'[sc] = free_xregs[sc] - Convert(r)
      BY <1>3, <2>3, <3>1, ZenonT(40) DEF SubCoreMoves
    <3> QED
      BY <1>2, <1>7, <3>2, <3>3, <3>4, <3>5, ZenonT(40)
  <2> QED
    BY <2>2, <2>3, ZenonT(40)
<1>10. ASSUME NEW s \in SubCores
       PROVE  /\ xreg_mapping'[s] = Range(after_rename'[s]) \cup inst_queue'[s]
              /\ xreg_mapping'[s] \subseteq in_flight /\ xreg_mapping'[s] \subseteq in_flight'
              /\ Balanced(free_xregs'[s], xreg_mapping'[s], f)
  <2>1. CASE s = sc
    <3>1. xreg_mapping'[sc] = ((Range(a) \ pushed) \cup renamed) \cup (inst_queue[sc] \cup pushed)
      BY <1>2, <1>5, <1>7
    <3>2. xreg_mapping'[sc] \subseteq in_flight
      BY <1>2, <1>4, <1>5, <1>7
    <3> QED
      BY <1>6, <1>7, <1>9, <2>1, <3>1, <3>2, ZenonT(40)
  <2>2. CASE s # sc
    BY <1>2, <1>7, <1>8, <2>2
  <2> QED
    BY <2>1, <2>2, ZenonT(40)
<1>11. free_xregs' \in [SubCores -> Int]
  <2>1. \A s \in SubCores : free_xregs'[s] \in Int
    BY <1>10, ZenonT(40) DEF Balanced
  <2> QED
    BY <1>7, <2>1
<1> QED
  BY <1>1, <1>7, <1>10, <1>11, BalancedNext

\* No column of any kernel is empty.
NoEmptyColumn == \A c \in DOMAIN Columns : ~Columns[c].empty

BalanceInv == RegistersInv /\ EmptyContexts = {}

\* A step preserves the balance when no column is empty: each uthread takes its
\* registers in the rename stage and leaves through the instruction queue.
LEMMA NextRegistersInv ==
    ASSUME NoEmptyColumn, IInv, UnitInv, BalanceInv, [UnitNext]_all_vars
    PROVE  BalanceInv'
<1> SUFFICES RegistersInv' /\ EmptyContexts' = {}
  BY DEF BalanceInv
<1>0. RegistersInv /\ EmptyContexts = {}
  BY DEF BalanceInv
<1>1. [Next]_generator_vars
  BY GeneratorStep DEF all_vars
<1>2. IInv'
  BY <1>1, NextIInv
<1>3. CASE UNCHANGED all_vars
  <2>1. in_flight' = in_flight /\ finished_contexts' = finished_contexts
        /\ UNCHANGED <<free_xregs, xreg_mapping, after_rename, inst_queue>>
    BY <1>3 DEF all_vars, generator_vars, unit_vars
  <2> QED
    BY <1>0, <1>1, <1>2, <2>1, RegistersFrame DEF EmptyContexts
<1>4. CASE \/ BeginCycle \/ AllFinishedHandled \/ Generate \/ GenerateUthread \/ Dispatch
           \/ (\E k \in KernelIds : register_ndp_kernel(k))
           \/ (\E info \in KernelLaunchInfo : launch_ndp_kernel(info)) \/ uthread_request
  <2>1. UNCHANGED <<free_xregs, xreg_mapping, after_rename, inst_queue, finished_contexts>>
    BY <1>4, ZenonT(40) DEF BeginCycle, AllFinishedHandled, Generate, GenerateUthread, Dispatch,
                register_ndp_kernel, launch_ndp_kernel, uthread_request, unit_vars
  <2>2. in_flight \subseteq in_flight'
    BY <1>4, ZenonT(40) DEF BeginCycle, AllFinishedHandled, Generate, GenerateUthread, Dispatch,
                register_ndp_kernel, launch_ndp_kernel, uthread_request, generate_uthreads,
                generate_uthread, cycle, register_kernel, launch, generator_vars
  <2> QED
    BY <1>0, <1>1, <1>2, <2>1, <2>2, RegistersFrame DEF EmptyContexts
<1>5. CASE HandleFinished
  <2>1. PICK c \in finished_contexts :
           /\ handle_finished_context(c.request)
           /\ finished_contexts' = finished_contexts \ {c}
           /\ IF c.sub_core = -1
              THEN UNCHANGED <<free_xregs, xreg_mapping, inst_queue, dependency_info>>
              ELSE /\ free_xregs' = [free_xregs EXCEPT ![c.sub_core] = @ + FreeRegs(c.request)]
                   /\ xreg_mapping' = [xreg_mapping EXCEPT ![c.sub_core] = @ \ {c.request}]
                   /\ inst_queue' = [inst_queue EXCEPT ![c.sub_core] =
                                       finish_inst_column(c.sub_core, c.request)]
           /\ UNCHANGED after_rename
    BY <1>5 DEF HandleFinished
  <2>2. c.sub_core # -1
    BY <1>0 DEF EmptyContexts
  <2>3. PICK sc \in SubCores : sc = c.sub_core
    BY <2>2 DEF UnitInv
  <2>4. PICK r \in inst_queue[sc] : r = c.request
    BY <2>2, <2>3 DEF UnitInv
  <2>5. in_flight' = in_flight \ {r}
    BY <2>1, <2>4 DEF handle_finished_context
  <2>6. /\ free_xregs' = [free_xregs EXCEPT ![sc] = @ + FreeRegs(r)]
        /\ xreg_mapping' = [xreg_mapping EXCEPT ![sc] = @ \ {r}]
        /\ inst_queue' = [inst_queue EXCEPT ![sc] = finish_inst_column(sc, r)]
        /\ UNCHANGED after_rename
    BY <2>1, <2>2, <2>3, <2>4
  <2>7. EmptyContexts' = {}
    BY <1>0, <2>1 DEF EmptyContexts
  <2> QED
    BY <1>0, <1>1, <1>2, <2>5, <2>6, <2>7, RegistersFreed, ZenonT(40)
<1>6. CASE \E sc \in SubCores : \E done \in SUBSET Running(sc) : SubCoreCycle(sc, done)
  <2>1. PICK sc \in SubCores : \E done \in SUBSET Running(sc) : SubCoreCycle(sc, done)
    BY <1>6
  <2>2. PICK done : SubCoreCycle(sc, done)
    BY <2>1
  <2>3. PICK pushed, empty, renamed : SubCoreMoves(sc, done, pushed, empty, renamed)
    BY <2>2, SubCoreCycleMoves
  <2>4. ASSUME NEW r \in empty PROVE FALSE
    <3>1. r \in Heads(after_rename[sc]) /\ Column(r).empty
      BY <2>3 DEF SubCoreMoves
    <3>2. r \in in_flight
      <4>1. Contents[<<"renamed", sc>>] = Range(after_rename[sc]) /\ <<"renamed", sc>> \in Parts
        BY InParts, PartNames, ZenonT(40) DEF Holding
      <4>2. Heads(after_rename[sc]) \subseteq Range(after_rename[sc])
        BY WithoutFacts, Zenon DEF UnitInv
      <4> QED
        BY <3>1, <4>1, <4>2, InParts, ZenonT(40)
    <3> QED
      BY <3>1, <3>2, ColumnKnown DEF NoEmptyColumn, Column
  <2>5. SubCoreMoves(sc, done, pushed, {}, renamed)
    <3>1. empty = {}
      BY <2>4
    <3> QED
      BY <2>3, <3>1
  <2>6. EmptyContexts' = {}
    <3>1. finished_contexts' = finished_contexts
             \cup {[request |-> r, sub_core |-> sc] : r \in done}
      BY <2>5 DEF SubCoreMoves
    <3>2. PICK D : D = {[request |-> r, sub_core |-> sc] : r \in done}
      OBVIOUS
    <3>3. \A c \in D : c.sub_core # -1
      BY <3>2, SubCoreNumbers
    <3>4. \A c \in finished_contexts : c.sub_core # -1
      BY <1>0 DEF EmptyContexts
    <3>5. \A c \in finished_contexts' : c.sub_core # -1
      BY <3>1, <3>2, <3>3, <3>4
    <3> QED
      BY <3>5 DEF EmptyContexts
  <2> QED
    BY <1>0, <1>1, <1>2, <2>5, <2>6, RegistersTaken
<1> QED
  BY <1>3, <1>4, <1>5, <1>6 DEF UnitNext, UnitCycle

\* When no column is empty, every register is on the free list of its sub-core
\* or mapped for a uthread that is renamed and not finished: registers are
\* neither lost nor handed out twice.
THEOREM NoRegisterLost ==
    ASSUME NoEmptyColumn
    PROVE  UnitSpec => []RegistersReturned
<1>1. UnitInit => BalanceInv
  <2> SUFFICES ASSUME UnitInit PROVE BalanceInv
    OBVIOUS
  <2>1. \A sc \in SubCores : HeldRegs(sc) = {}
    BY DEF UnitInit, HeldRegs
  <2>2. NumXregs \in Nat
    BY UnitSizesAssumption
  <2>3. free_xregs = [sc \in SubCores |-> NumXregs] /\ DOMAIN xreg_mapping = SubCores
        /\ EmptyContexts = {}
    BY DEF UnitInit, EmptyContexts
  <2>4. \A sc \in SubCores : xreg_mapping[sc] = Range(after_rename[sc]) \cup inst_queue[sc]
    BY DEF UnitInit, Range
  <2>5. \A sc \in SubCores : IsFiniteSet(HeldRegs(sc)) /\ Cardinality(HeldRegs(sc)) = 0
    BY <2>1, FS_EmptySet
  <2>6. RegistersReturned
    BY <2>2, <2>3, <2>4, <2>5 DEF RegistersReturned
  <2> QED
    BY <2>2, <2>3, <2>5, <2>6 DEF BalanceInv, RegistersInv
<1>2. IInv /\ UnitInv /\ BalanceInv /\ [UnitNext]_all_vars => BalanceInv'
  BY NextRegistersInv
<1>3. BalanceInv => RegistersReturned
  BY DEF BalanceInv, RegistersInv
<1> QED
  BY <1>1, <1>2, <1>3, UnitInvariant, PTL DEF UnitSpec

-----------------------------------------------------------------------------
(* The check of the rename stage.                                          *)

FreeInv == free_xregs \in [SubCores -> Int] /\ DOMAIN xreg_mapping = SubCores

\* A free list runs out through the column at the head of the queue, whose count
\* is short.
OverdraftStep ==
    \A sc \in SubCores :
       free_xregs[sc] >= 0 /\ free_xregs'[sc] < 0 =>
          \E r \in Heads(inst_column_q[sc]) :
             /\ xreg_mapping'[sc] = xreg_mapping[sc] \cup {r}
             /\ Convert(r) > count_required_regs(r)
             /\ free_xregs'[sc] + Convert(r) >= count_required_regs(r)

\* Numbers below zero are the only ones outside an unsigned comparison.
LEMMA NotFull ==
    ASSUME NEW free \in Int, NEW count \in Nat, NEW taken \in Nat,
           free \notin 0..(count - 1), free >= 0, free - taken < 0
    PROVE  taken > count /\ (free - taken) + taken >= count
  OBVIOUS

\* A context that finishes adds to a free list, and a sub-core takes from its own
\* what the column it renames needs.
LEMMA NextFreeInv ==
    ASSUME IInv, UnitInv, FreeInv, [UnitNext]_all_vars
    PROVE  FreeInv' /\ OverdraftStep
<1>1. free_xregs \in [SubCores -> Int] /\ DOMAIN xreg_mapping = SubCores
  BY DEF FreeInv
<1>2. CASE UNCHANGED <<free_xregs, xreg_mapping>>
  BY <1>1, <1>2 DEF FreeInv, OverdraftStep
<1>3. CASE HandleFinished
  <2>1. PICK c \in finished_contexts :
           \/ UNCHANGED <<free_xregs, xreg_mapping>>
           \/ /\ c.sub_core # -1
              /\ free_xregs' = [free_xregs EXCEPT ![c.sub_core] = @ + FreeRegs(c.request)]
              /\ xreg_mapping' = [xreg_mapping EXCEPT ![c.sub_core] = @ \ {c.request}]
    BY <1>3 DEF HandleFinished
  <2>2. c.request \in in_flight
    BY InParts, ZenonT(40)
  <2>3. FreeRegs(c.request) \in Nat
    BY <2>2, ColumnKnown, ZenonT(40) DEF FreeRegs
  <2>4. free_xregs' \in [SubCores -> Int] /\ DOMAIN xreg_mapping' = SubCores
    BY <1>1, <2>1, <2>3
  <2>5. \A sc \in SubCores : free_xregs'[sc] >= free_xregs[sc]
    BY <1>1, <2>1, <2>3
  <2> QED
    BY <1>1, <2>4, <2>5 DEF FreeInv, OverdraftStep
<1>4. CASE \E sc \in SubCores : \E done \in SUBSET Running(sc) : SubCoreCycle(sc, done)
  <2>1. PICK sc \in SubCores : \E done \in SUBSET Running(sc) : SubCoreCycle(sc, done)
    BY <1>4
  <2>2. PICK done : SubCoreCycle(sc, done)
    BY <2>1
  <2>3. PICK pushed, empty, renamed : SubCoreMoves(sc, done, pushed, empty, renamed)
    BY <2>2, SubCoreCycleMoves
  <2>4. CASE renamed = {}
    <3>1. free_xregs' = [free_xregs EXCEPT ![sc] = @]
      BY <2>3, <2>4 DEF SubCoreMoves
    <3>2. free_xregs' = free_xregs
      BY <1>1, <3>1
    <3>3. DOMAIN xreg_mapping' = SubCores
      BY <1>1, <2>2 DEF SubCoreCycle
    <3> QED
      BY <1>1, <3>2, <3>3 DEF FreeInv, OverdraftStep
  <2>5. CASE renamed # {}
    <3>1. PICK r : r = Head(inst_column_q[sc])
      OBVIOUS
    <3>2. r \in Heads(inst_column_q[sc]) /\ ~RenameFull(sc, r) /\ renamed = {r}
      BY <2>3, <2>5, <3>1 DEF SubCoreMoves, Heads
    <3>3. r \in in_flight
      <4>1. Contents[<<"sent", sc>>] = Range(inst_column_q[sc]) /\ <<"sent", sc>> \in Parts
        BY InParts, PartNames, ZenonT(40) DEF Holding
      <4>2. Heads(inst_column_q[sc]) \subseteq Range(inst_column_q[sc])
        BY WithoutFacts, ZenonT(40) DEF UnitInv
      <4> QED
        BY <3>2, <4>1, <4>2, InParts
    <3>4. PICK taken \in Nat : taken = Convert(r)
      BY <3>3, ColumnKnown, ZenonT(40)
    <3>5. PICK count \in Nat : count = count_required_regs(r)
      BY <3>3, ColumnKnown, FS_CardinalityType, ZenonT(40) DEF count_required_regs
    <3>6. free_xregs' = [free_xregs EXCEPT ![sc] = @ - taken]
      BY <2>3, <2>5, <3>1, <3>4, ZenonT(40) DEF SubCoreMoves
    <3>7. xreg_mapping' = [xreg_mapping EXCEPT ![sc] = @ \cup renamed]
      BY <2>3 DEF SubCoreMoves
    <3>8. free_xregs' \in [SubCores -> Int] /\ DOMAIN xreg_mapping' = SubCores
      BY <1>1, <3>6, <3>7
    <3>9. free_xregs[sc] \notin 0..(count - 1)
      BY <3>2, <3>5 DEF RenameFull
    <3>10. \A s \in SubCores : s # sc => free_xregs'[s] = free_xregs[s]
      BY <1>1, <3>6
    <3>11. free_xregs'[sc] = free_xregs[sc] - taken
           /\ xreg_mapping'[sc] = xreg_mapping[sc] \cup {r}
      BY <1>1, <3>2, <3>6, <3>7
    <3>12. free_xregs[sc] >= 0 /\ free_xregs'[sc] < 0 =>
              taken > count /\ free_xregs'[sc] + taken >= count
      BY <1>1, <3>9, <3>11, NotFull
    <3>13. ASSUME NEW s \in SubCores, free_xregs[s] >= 0, free_xregs'[s] < 0
           PROVE  /\ s = sc /\ r \in Heads(inst_column_q[s])
                  /\ xreg_mapping'[s] = xreg_mapping[s] \cup {r}
                  /\ Convert(r) > count_required_regs(r)
                  /\ free_xregs'[s] + Convert(r) >= count_required_regs(r)
      <4>1. s = sc
        BY <1>1, <3>10, <3>13
      <4> QED
        BY <4>1, <3>2, <3>4, <3>5, <3>11, <3>12, <3>13
    <3>14. OverdraftStep
      BY <3>13, ZenonT(40) DEF OverdraftStep
    <3> QED
      BY <3>8, <3>14 DEF FreeInv
  <2> QED
    BY <2>4, <2>5
<1>5. CASE \/ UNCHANGED all_vars \/ BeginCycle \/ AllFinishedHandled \/ Generate
           \/ GenerateUthread \/ Dispatch
           \/ (\E k \in KernelIds : register_ndp_kernel(k))
           \/ (\E info \in KernelLaunchInfo : launch_ndp_kernel(info)) \/ uthread_request
  <2>1. UNCHANGED <<free_xregs, xreg_mapping>>
    BY <1>5, ZenonT(40) DEF BeginCycle, AllFinishedHandled, Generate, GenerateUthread, Dispatch,
                register_ndp_kernel, launch_ndp_kernel, uthread_request, unit_vars, all_vars
  <2> QED
    BY <1>2, <2>1
<1> QED
  BY <1>3, <1>4, <1>5 DEF UnitNext, UnitCycle

\* What RenameFull's check is worth, whatever the columns name and write and with
\* empty columns or without: the step that takes a register from an empty free list
\* renames a column that takes more than count_required_regs counted for it.
THEOREM OverdraftNeedsShortCount == UnitSpec => OverdraftIsShortCount
<1>1. UnitInit => FreeInv
  BY UnitSizesAssumption DEF UnitInit, FreeInv
<1>2. IInv /\ UnitInv /\ FreeInv /\ [UnitNext]_all_vars => FreeInv' /\ [OverdraftStep]_all_vars
  BY NextFreeInv
<1>3. UnitSpec => [][OverdraftStep]_all_vars
  BY <1>1, <1>2, UnitInvariant, PTL DEF UnitSpec
<1> QED
  BY <1>3 DEF OverdraftStep, OverdraftIsShortCount

=============================================================================

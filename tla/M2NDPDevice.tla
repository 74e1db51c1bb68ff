---------------------------- MODULE M2NDPDevice ----------------------------
(***************************************************************************)
(* The device's side of the link (src/m2ndp.cc): launch commands go to the *)
(* NDP units, host reads and back-invalidation writes to the memory, and   *)
(* answers back to the link.                                               *)
(*                                                                         *)
(* What the units and the memory do inside is left to the other modules;   *)
(* here a unit works on a launch until its uthreads have been generated,   *)
(* its back-invalidations have been answered and it finishes, and the      *)
(* memory answers at any time.  A store is over for its uthread when it    *)
(* leaves the load/store queue; it may outlive the launch.                 *)
(***************************************************************************)
EXTENDS CxlLink

CONSTANT Units   \* the NDP units of the device

VARIABLES
    scenario,        \* what is run, see HostRunner
    responses,       \* m_cxl_command_response[0]
    launch_infos,    \* m_launch_infos: the launch and the command it keeps
    working,         \* launch -> the units whose is_launch_active holds
    uthread_reqs,    \* m_uthread_reqs: unit -> requests not yet used
    ungenerated,     \* launch -> unit -> uthreads still to be generated
    crossbar,        \* the crossbar's output to the link
    at_memory,       \* the link's requests inside the memory
    bi_waiting,      \* loads waiting for their back-invalidation, with the unit
                     \* and the launch
    bi_count,        \* back-invalidations made
    stores,          \* stores not yet acknowledged, with where they are: on the
                     \* way to the memory, inside it, or on the way back
    store_count      \* stores made

deviceVars == <<responses, launch_infos, working, uthread_reqs, ungenerated, crossbar,
                at_memory, bi_waiting, bi_count, stores, store_count>>

storeVars == <<stores, store_count>>

workload == scenario.commands   \* the launches, command by command

Launches == UNION {{<<c, i>> : i \in DOMAIN workload[c]} : c \in DOMAIN workload}

\* KernelLaunchInfo
Info(l) == workload[l[1]][l[2]]

\* Consecutive packets of a launch belong to consecutive units.
get_matched_unit_id(n) == ((n - 1) % Cardinality(Units)) + 1

DeviceInit ==
    /\ responses = <<>>
    /\ launch_infos = <<>>
    /\ working = [l \in Launches |-> {}]
    /\ uthread_reqs = [u \in Units |-> 0]
    /\ ungenerated = [l \in Launches |-> [u \in Units |->
            Cardinality({n \in 1..Info(l).uthreads : get_matched_unit_id(n) = u})]]
    /\ crossbar = <<>>
    /\ at_memory = {}
    /\ bi_waiting = {}
    /\ bi_count = 0
    /\ stores = {}
    /\ store_count = 0

is_launch_active == \E l \in Launches : working[l] # {}

----------------------------------------------------------------------------
\* M2NDP::transfer_cxl_to_memory.

\* Each unit that owes uthreads generates one, if its generator is ready.
CanGenerate(u, l) == uthread_reqs[u] > 0 /\ u \in working[l] /\ ungenerated[l][u] > 0

Chosen(u) == CHOOSE l \in Launches : CanGenerate(u, l)

Generates(ready) == {u \in Units : ready /\ \E l \in Launches : CanGenerate(u, l)}

UthreadReqs(ready) ==
    [u \in Units |-> uthread_reqs[u] - (IF u \in Generates(ready) THEN 1 ELSE 0)]

GenerateUthreads(ready) ==
    ungenerated' = [l \in Launches |-> [u \in Units |->
        IF u \in Generates(ready) /\ l = Chosen(u)
        THEN ungenerated[l][u] - 1 ELSE ungenerated[l][u]]]

\* A synchronous launch keeps its command; another is answered at once.
LaunchCommand(mf) ==
    /\ responses' = IF Info(mf.of).sync THEN responses ELSE Append(responses, set_reply(mf))
    /\ launch_infos' = Append(launch_infos, mf)
    /\ working' = [working EXCEPT ![mf.of] = Units]

transfer_cxl_to_memory(ready) ==
    /\ to_m2ndp # <<>> \/ Generates(ready) # {}
    /\ GenerateUthreads(ready)
    /\ \/ /\ to_m2ndp = <<>>
          /\ uthread_reqs' = UthreadReqs(ready)
          /\ UNCHANGED <<to_m2ndp, responses, launch_infos, working, at_memory>>
       \/ /\ to_m2ndp # <<>>
          /\ pop_from_memory_buffer
          /\ LET mf == Head(to_m2ndp)
             IN  \/ /\ mf.kind = "uthread"
                    /\ uthread_reqs' = [UthreadReqs(ready) EXCEPT
                                           ![get_matched_unit_id(mf.n)] = @ + 1]
                    /\ UNCHANGED <<responses, launch_infos, working, at_memory>>
                 \/ /\ mf.kind = "launch"
                    /\ LaunchCommand(mf)
                    /\ uthread_reqs' = UthreadReqs(ready)
                    /\ UNCHANGED at_memory
                 \/ /\ mf.kind \in {"get", "writeback"}
                    /\ at_memory' = at_memory \cup {mf}
                    /\ uthread_reqs' = UthreadReqs(ready)
                    /\ UNCHANGED <<responses, launch_infos, working>>
    /\ UNCHANGED <<from_host, to_host, from_m2ndp, net, crossbar, bi_waiting, bi_count,
                   storeVars>>

----------------------------------------------------------------------------
\* Answers to launch commands go before the crossbar's output.
transfer_memory_to_cxl ==
    /\ \/ /\ responses # <<>>
          /\ has_buffer_from_memory_buffer(Head(responses))
          /\ push_from_memory_buffer(Head(responses))
          /\ responses' = Tail(responses)
          /\ UNCHANGED crossbar
       \/ /\ responses = <<>>
          /\ crossbar # <<>>
          /\ has_buffer_from_memory_buffer(Head(crossbar))
          /\ push_from_memory_buffer(Head(crossbar))
          /\ crossbar' = Tail(crossbar)
          /\ UNCHANGED responses
    /\ UNCHANGED <<from_host, to_host, to_m2ndp, net, launch_infos, working, uthread_reqs,
                   ungenerated, at_memory, bi_waiting, bi_count, storeVars>>

Finished(i) == working[launch_infos[i].of] = {}

\* The answer to a synchronous launch.
FinishReply(mf) ==
    responses' = IF Info(mf.of).sync THEN Append(responses, set_reply(mf)) ELSE responses

\* The first finished launch of the list is taken off it.
check_kernel_active ==
    /\ \E i \in DOMAIN launch_infos :
          /\ Finished(i)
          /\ \A j \in 1..(i - 1) : ~Finished(j)
          /\ FinishReply(launch_infos[i])
          /\ launch_infos' = RemoveAt(launch_infos, i)
    /\ UNCHANGED <<working, uthread_reqs, ungenerated, crossbar, at_memory, bi_waiting,
                   bi_count, storeVars>>
    /\ UNCHANGED linkVars

----------------------------------------------------------------------------
\* The units and the memory, as the device sees them.

\* A unit is done with a launch when its uthreads are, and a uthread waits for
\* its loads, but not for its stores.
UnitFinishes(l, u) ==
    /\ u \in working[l]
    /\ ungenerated[l][u] = 0
    /\ \A w \in bi_waiting : ~(w.unit = u /\ w.launch = l)
    /\ working' = [working EXCEPT ![l] = @ \ {u}]
    /\ UNCHANGED <<responses, launch_infos, uthread_reqs, ungenerated, crossbar, at_memory,
                   bi_waiting, bi_count, storeVars>>
    /\ UNCHANGED linkVars

\* get_output_port_id sends a back-invalidation to the port of the host.
LoadNeedsBi(l, u) ==
    /\ bi_count < scenario.max_bi
    /\ u \in working[l]
    /\ bi_count' = bi_count + 1
    /\ bi_waiting' = bi_waiting \cup {[id |-> <<0, bi_count'>>, unit |-> u, launch |-> l]}
    /\ crossbar' = Append(crossbar, MemFetch("bi", <<0, bi_count'>>, TRUE, 0))
    /\ UNCHANGED <<responses, launch_infos, working, uthread_reqs, ungenerated, at_memory>>
    /\ UNCHANGED <<storeVars, linkVars>>

\* A store leaves the load/store queue of a unit, which has nothing more to do
\* for it until the acknowledgement.
UnitStores ==
    /\ store_count < scenario.max_stores
    /\ is_launch_active
    /\ store_count' = store_count + 1
    /\ stores' = stores \cup {[n |-> store_count', at |-> "out"]}
    /\ UNCHANGED <<responses, launch_infos, working, uthread_reqs, ungenerated, crossbar,
                   at_memory, bi_waiting, bi_count>>
    /\ UNCHANGED linkVars

\* It goes through the L1, the TLB and the crossbar into the memory, and its
\* acknowledgement comes back the same way.
StoreMoves ==
    /\ \E s \in stores :
          \/ s.at = "out" /\ stores' = (stores \ {s}) \cup {[s EXCEPT !.at = "memory"]}
          \/ s.at = "memory" /\ stores' = (stores \ {s}) \cup {[s EXCEPT !.at = "back"]}
          \/ s.at = "back" /\ stores' = stores \ {s}
    /\ UNCHANGED <<responses, launch_infos, working, uthread_reqs, ungenerated, crossbar,
                   at_memory, bi_waiting, bi_count, store_count>>
    /\ UNCHANGED linkVars

\* The answer of a host read goes to the link, that of a back-invalidation
\* write to the unit whose load it was.
MemoryAnswers ==
    /\ \E mf \in at_memory :
          /\ at_memory' = at_memory \ {mf}
          /\ \/ /\ mf.kind = "get"
                /\ crossbar' = Append(crossbar, set_reply(mf))
                /\ UNCHANGED bi_waiting
             \/ /\ mf.kind = "writeback"
                /\ bi_waiting' = {w \in bi_waiting : w.id # mf.of}
                /\ UNCHANGED crossbar
    /\ UNCHANGED <<responses, launch_infos, working, uthread_reqs, ungenerated, bi_count>>
    /\ UNCHANGED <<storeVars, linkVars>>
=============================================================================

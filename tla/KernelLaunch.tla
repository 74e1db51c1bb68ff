---------------------------- MODULE KernelLaunch ----------------------------
(***************************************************************************)
(* What one NDP unit promises about a kernel launch: the requests of a     *)
(* launch run in stages (initializer, each kernel body in turn,            *)
(* finalizer), a request starts only when every request of every earlier   *)
(* stage has finished, each request runs once, and the launch is done when *)
(* its finalizer finishes.  Nothing is said about scratchpad, queues or    *)
(* scheduling; UThreadGenerator implements this specification.             *)
(***************************************************************************)
EXTENDS Integers

CONSTANTS LaunchIds, Shapes

VARIABLES
    status,    \* launch id -> "none", "running", "rejected" or "done"
    shape,     \* launch id -> kernel bodies and packets, while it runs
    started,   \* launch id -> requests started, while it runs
    finished   \* launch id -> requests finished, while it runs

vars == <<status, shape, started, finished>>

NoShape == [bodies |-> 0, packets |-> 0]

Requests(l, s) ==
    {[launch |-> l, type |-> "INITIALIZER", body |-> 0, packet |-> 0],
     [launch |-> l, type |-> "FINALIZER", body |-> 0, packet |-> 0]}
    \cup [launch : {l}, type : {"KERNEL_BODY"},
          body : 0..(s.bodies - 1), packet : 0..(s.packets - 1)]

\* r belongs to an earlier stage than s.
Earlier(r, s) ==
    \/ r.type = "INITIALIZER" /\ s.type # "INITIALIZER"
    \/ r.type # "FINALIZER" /\ s.type = "FINALIZER"
    \/ r.type = "KERNEL_BODY" /\ s.type = "KERNEL_BODY" /\ r.body < s.body

Init ==
    /\ status = [l \in LaunchIds |-> "none"]
    /\ shape = [l \in LaunchIds |-> NoShape]
    /\ started = [l \in LaunchIds |-> {}]
    /\ finished = [l \in LaunchIds |-> {}]

\* A launch with nothing to do on this unit is done at once, a launch of an
\* unknown kernel is rejected.
Submit(l, s, answer) ==
    /\ status[l] = "none"
    /\ status' = [status EXCEPT ![l] = answer]
    /\ shape' = [shape EXCEPT ![l] = IF answer = "running" THEN s ELSE NoShape]
    /\ UNCHANGED <<started, finished>>

MayStart(l, r) ==
    /\ status[l] = "running"
    /\ r \in Requests(l, shape[l]) \ started[l]
    /\ \A e \in Requests(l, shape[l]) : Earlier(e, r) => e \in finished[l]

\* One cycle of the unit may start requests of several launches.
Start ==
    /\ started' \in [LaunchIds -> SUBSET UNION {Requests(l, shape[l]) : l \in LaunchIds}]
    /\ \A l \in LaunchIds :
          /\ started[l] \subseteq started'[l]
          /\ \A r \in started'[l] \ started[l] : MayStart(l, r)
    /\ UNCHANGED <<status, shape, finished>>

Finish(l, r) ==
    /\ status[l] = "running"
    /\ r \in started[l] \ finished[l]
    /\ IF r.type = "FINALIZER"
       THEN /\ status' = [status EXCEPT ![l] = "done"]
            /\ shape' = [shape EXCEPT ![l] = NoShape]
            /\ started' = [started EXCEPT ![l] = {}]
            /\ finished' = [finished EXCEPT ![l] = {}]
       ELSE /\ finished' = [finished EXCEPT ![l] = @ \cup {r}]
            /\ UNCHANGED <<status, shape, started>>

Next ==
    \/ \E l \in LaunchIds, s \in Shapes, answer \in {"running", "rejected", "done"} :
          Submit(l, s, answer)
    \/ Start
    \/ \E l \in LaunchIds : \E r \in started[l] : Finish(l, r)

Spec == Init /\ [][Next]_vars
=============================================================================

------------------------- MODULE KernelLaunchProofs -------------------------
(***************************************************************************)
(* Proof that the uthread generator implements KernelLaunch, for every     *)
(* number of launches, packets, kernels and bodies and every generation    *)
(* mode: each step of the generator is a step of KernelLaunch, or leaves   *)
(* its state alone.  The invariant IInv of the generator is used in both   *)
(* states of a step.                                                       *)
(***************************************************************************)
EXTENDS UThreadGeneratorProofs

\* The requests launch() made for l, and those of them in front of the deque.
AllOf(l) ==
    {Initializer(l), Finalizer(l)}
    \cup {KernelBody(l, b, p) : b \in 0..(NumKernelBodies[launch_infos[l].kernel] - 1),
                                p \in 0..(launch_infos[l].packets - 1)}

Started(l, fronts) == {r \in AllOf(l) : Before(r, fronts[l])}

\* The requests of a launch are the ones RequestOf describes.
LEMMA AllOfIsRequestOf ==
    ASSUME TypeOK, NEW l \in DOMAIN launch_infos, NEW r
    PROVE  r \in AllOf(l) <=> RequestOf(r, l)
<1> DEFINE B == NumKernelBodies[launch_infos[l].kernel]
           P == launch_infos[l].packets
<1>1. l \in LaunchIds /\ B \in Nat \ {0} /\ P \in Nat
  BY LaunchShapeType
<1>2. ASSUME r \in AllOf(l) PROVE RequestOf(r, l)
  BY <1>1, <1>2 DEF AllOf, RequestOf, Request, Initializer, Finalizer, KernelBody
<1>3. ASSUME RequestOf(r, l) PROVE r \in AllOf(l)
  <2>1. r \in Request /\ r.launch = l
    BY <1>3 DEF RequestOf
  <2>2. CASE r.type = "KERNEL_BODY"
    <3>1. r = KernelBody(l, r.body, r.packet)
      BY <2>1, <2>2 DEF KernelBody, Request
    <3>2. r.body \in 0..(B - 1) /\ r.packet \in 0..(P - 1)
      BY <1>1, <1>3, <2>1, <2>2 DEF RequestOf, Request
    <3> QED
      BY <3>1, <3>2 DEF AllOf
  <2>3. CASE r.type = "INITIALIZER"
    <3>1. r = Initializer(l)
      BY <1>3, <2>1, <2>3 DEF Initializer, Request, RequestOf
    <3> QED
      BY <3>1 DEF AllOf
  <2>4. CASE r.type = "FINALIZER"
    <3>1. r = Finalizer(l)
      BY <1>3, <2>1, <2>4 DEF Finalizer, Request, RequestOf
    <3> QED
      BY <3>1 DEF AllOf
  <2> QED
    BY <2>1, <2>2, <2>3, <2>4 DEF Request
<1> QED
  BY <1>2, <1>3

\* A request in front of the one behind f is f or in front of f.
LEMMA BeforeFollowing ==
    ASSUME TypeOK, NEW l \in DOMAIN launch_infos, launch_infos[l].packets > 0,
           NEW f, RequestOf(f, l), NEW r, RequestOf(r, l), Before(r, Following(f))
    PROVE  r = f \/ Before(r, f)
<1> DEFINE B == NumKernelBodies[launch_infos[l].kernel]
           P == launch_infos[l].packets
<1>1. /\ l \in LaunchIds /\ B \in Nat \ {0} /\ P \in Nat \ {0}
      /\ f \in Request /\ r \in Request /\ f.launch = l /\ r.launch = l
      /\ r.body \in Nat /\ r.packet \in Nat /\ f.body \in Nat /\ f.packet \in Nat
      /\ f # NoRequest
  BY LaunchShapeType, NoRequestType DEF RequestOf, Request
<1>2. r.type = f.type /\ r.body = f.body /\ r.packet = f.packet => r = f
  BY <1>1 DEF Request
<1>3. CASE f.type = "INITIALIZER"
  <2>1. Following(f) = KernelBody(l, 0, 0)
    BY <1>1, <1>3 DEF Following
  <2>2. r.type = "INITIALIZER"
    BY <1>1, <2>1 DEF Before, KernelBody, NoRequest, Request
  <2> QED
    BY <1>2, <1>3, <2>2 DEF RequestOf
<1>4. CASE f.type = "FINALIZER"
  <2>1. r.type = "FINALIZER" \/ Before(r, f)
    BY <1>1, <1>4 DEF Before, Request
  <2> QED
    BY <1>2, <1>4, <2>1 DEF RequestOf
<1>5. CASE f.type = "KERNEL_BODY"
  <2>1. CASE r.type = "INITIALIZER"
    BY <1>5, <2>1 DEF Before
  <2>2. CASE r.type = "FINALIZER"
    <3>1. Following(f) # NoRequest
      BY <1>1, <1>5 DEF Following, KernelBody, Finalizer, NoRequest
    <3> QED
      BY <2>2, <3>1 DEF Before
  <2>3. CASE r.type = "KERNEL_BODY"
    <3>0. f.body < B /\ f.packet < P /\ r.body < B /\ r.packet < P
      BY <1>5, <2>3 DEF RequestOf
    <3>1. CASE f.packet + 1 < P
      <4>1. Following(f) = KernelBody(l, f.body, f.packet + 1)
        BY <1>1, <1>5, <3>1 DEF Following
      <4>2. r.body < f.body \/ (r.body = f.body /\ r.packet < f.packet + 1)
        BY <1>1, <2>3, <4>1 DEF Before, KernelBody, NoRequest
      <4>3. r.body < f.body \/ (r.body = f.body /\ (r.packet < f.packet \/ r.packet = f.packet))
        BY <1>1, <4>2
      <4> QED
        BY <1>2, <1>5, <2>3, <4>3 DEF Before
    <3>2. CASE ~(f.packet + 1 < P) /\ f.body + 1 < B
      <4>1. Following(f) = KernelBody(l, f.body + 1, 0)
        BY <1>1, <1>5, <3>2 DEF Following
      <4>2. r.body < f.body + 1 \/ (r.body = f.body + 1 /\ r.packet < 0)
        BY <1>1, <2>3, <4>1 DEF Before, KernelBody, NoRequest
      <4>3. r.body < f.body \/ (r.body = f.body /\ (r.packet < f.packet \/ r.packet = f.packet))
        BY <1>1, <3>0, <3>2, <4>2
      <4> QED
        BY <1>2, <1>5, <2>3, <4>3 DEF Before
    <3>3. CASE ~(f.packet + 1 < P) /\ ~(f.body + 1 < B)
      <4>1. r.body < f.body \/ (r.body = f.body /\ (r.packet < f.packet \/ r.packet = f.packet))
        BY <1>1, <3>0, <3>3
      <4> QED
        BY <1>2, <1>5, <2>3, <4>1 DEF Before
    <3> QED
      BY <3>1, <3>2, <3>3
  <2> QED
    BY <1>1, <2>1, <2>2, <2>3 DEF Request
<1> QED
  BY <1>1, <1>3, <1>4, <1>5 DEF Request

\* A request of an earlier stage is in front, and differs in type or body.
LEMMA EarlierIsBefore ==
    ASSUME NEW e \in Request, NEW f \in Request, Promise!Earlier(e, f)
    PROVE  Before(e, f) /\ ~(e.type = f.type /\ e.body = f.body)
  BY NoRequestType DEF Promise!Earlier, Before, Request

-----------------------------------------------------------------------------
(* Pushing requests.                                                       *)

\* What a push of requests may do to a launch: requests are only added to those
\* started, none is added to those finished, and the stages before an added
\* request are finished.
StartsOK(l, fronts, flight, fronts2, flight2) ==
    /\ Started(l, fronts) \subseteq Started(l, fronts2)
    /\ Started(l, fronts2) \ flight2 = Started(l, fronts) \ flight
    /\ \A r \in Started(l, fronts2) \ Started(l, fronts), e \in AllOf(l) :
          Promise!Earlier(e, r) => e \in Started(l, fronts) \ flight

\* Two pushes in a row are one.
LEMMA StartsTwice ==
    ASSUME NEW l, NEW f1, NEW g1, NEW f2, NEW g2, NEW f3, NEW g3,
           StartsOK(l, f1, g1, f2, g2), StartsOK(l, f2, g2, f3, g3)
    PROVE  StartsOK(l, f1, g1, f3, g3)
  BY Zenon DEF StartsOK

\* The pushes of cycle() and generate_uthreads.
LEMMA PushStarts ==
    ASSUME TypeOK, NEW queue \in Seq(LaunchIds), NEW active \in SUBSET LaunchIds,
           NEW fronts \in FrontsType, NEW flight \in SUBSET Request,
           FlowOK(queue, active, fronts, flight),
           NEW ids, ids = {} \/ \E l \in Issuable(active, fronts) : ids = {l},
           NEW m \in LaunchIds, LaunchOK(m, fronts, flight)
    PROVE  StartsOK(m, fronts, flight, Pop(fronts, ids), flight \cup Pushed(fronts, ids))
<1>0. m \in DOMAIN launch_infos /\ launch_infos[m].packets > 0
  BY DEF LaunchOK
<1>1. CASE ids = {}
  <2>1. Pop(fronts, ids) = fronts /\ flight \cup Pushed(fronts, ids) = flight
    BY <1>1, PopNothing DEF Pushed
  <2> QED
    BY <2>1 DEF StartsOK
<1>2. ASSUME NEW l \in Issuable(active, fronts), ids = {l}
      PROVE  StartsOK(m, fronts, flight, Pop(fronts, ids), flight \cup Pushed(fronts, ids))
  <2> DEFINE f == fronts[l]
             fronts2 == Pop(fronts, ids)
  <2>1. l \in active /\ l \in LaunchIds /\ f # NoRequest /\ check_can_issue(f)
    BY DEF Issuable
  <2>2. IsFiniteSet(flight) /\ LaunchOK(l, fronts, flight)
    BY <2>1 DEF FlowOK
  <2>3. RequestOf(f, l) /\ f \in Request /\ f.launch = l
    BY <2>1, <2>2 DEF LaunchOK, RequestOf
  <2>4. Pushed(fronts, ids) = {f}
    BY <1>2 DEF Pushed
  <2>5. CASE m # l
    <3>1. fronts2[m] = fronts[m]
      BY <1>2, <2>5 DEF Pop
    <3>2. Started(m, fronts2) = Started(m, fronts)
      BY <3>1 DEF Started
    <3>3. f \notin Started(m, fronts)
      <4>1. f \in AllOf(m) => f.launch = m
        BY <1>0, AllOfIsRequestOf DEF RequestOf
      <4> QED
        BY <2>3, <2>5, <4>1 DEF Started
    <3> QED
      BY <2>4, <3>2, <3>3 DEF StartsOK
  <2>6. CASE m = l
    <3>1. fronts2[m] = Following(f) /\ fronts[m] = f
      BY <1>2, <2>1, <2>6 DEF Pop
    <3>2. /\ ~Before(f, f) /\ Before(f, Following(f))
          /\ \A r \in Request : Before(r, f) => Before(r, Following(f))
      BY <1>0, <2>3, <2>6, FollowingStep
    <3>3. Started(m, fronts2) = Started(m, fronts) \cup {f}
      <4>1. f \in Started(m, fronts2)
        BY <1>0, <2>3, <2>6, <3>1, <3>2, AllOfIsRequestOf DEF Started
      <4>2. ASSUME NEW r \in Started(m, fronts) PROVE r \in Started(m, fronts2)
        <5>1. r \in AllOf(m) /\ Before(r, f)
          BY <3>1 DEF Started
        <5>2. r \in Request
          BY <1>0, <5>1, AllOfIsRequestOf DEF RequestOf
        <5> QED
          BY <3>1, <3>2, <5>1, <5>2 DEF Started
      <4>3. ASSUME NEW r \in Started(m, fronts2), r # f PROVE r \in Started(m, fronts)
        <5>1. r \in AllOf(m) /\ Before(r, Following(f))
          BY <3>1 DEF Started
        <5>2. RequestOf(r, m)
          BY <1>0, <5>1, AllOfIsRequestOf
        <5>3. Before(r, f)
          BY <1>0, <2>3, <2>6, <4>3, <5>1, <5>2, BeforeFollowing
        <5> QED
          BY <3>1, <5>1, <5>3 DEF Started
      <4> QED
        BY <4>1, <4>2, <4>3
    <3>4. f \notin Started(m, fronts)
      BY <3>1, <3>2 DEF Started
    <3>5. ASSUME NEW e \in AllOf(m), Promise!Earlier(e, f)
          PROVE  e \in Started(m, fronts) \ flight
      <4>1. e \in Request /\ e.launch = l
        BY <1>0, <2>6, AllOfIsRequestOf DEF RequestOf
      <4>2. Before(e, f) /\ ~(e.type = f.type /\ e.body = f.body)
        BY <2>3, <3>5, <4>1, EarlierIsBefore
      <4>3. e \notin flight
        BY <2>1, <2>2, <4>1, <4>2, IssueInPhase
      <4> QED
        BY <3>1, <4>2, <4>3 DEF Started
    <3>6. Started(m, fronts) \subseteq Started(m, fronts2)
      BY <3>3
    <3>7. Started(m, fronts2) \ (flight \cup {f}) = Started(m, fronts) \ flight
      BY <3>3, <3>4
    <3> QED
      BY <2>4, <3>3, <3>5, <3>6, <3>7 DEF StartsOK
  <2> QED
    BY <2>5, <2>6
<1> QED
  BY <1>1, <1>2, Zenon

-----------------------------------------------------------------------------
(* The state of KernelLaunch.                                              *)

\* Functions on the launch ids are equal when their values are.
LEMMA SameOnLaunches ==
    ASSUME NEW F, NEW G, F = [l \in LaunchIds |-> F[l]], G = [l \in LaunchIds |-> G[l]],
           \A l \in LaunchIds : F[l] = G[l]
    PROVE  F = G
  OBVIOUS

\* A function that changes at one launch.
LEMMA ChangedOnOne ==
    ASSUME NEW F, NEW G, F = [l \in LaunchIds |-> F[l]], G = [l \in LaunchIds |-> G[l]],
           NEW k \in LaunchIds, NEW v, G[k] = v,
           \A l \in LaunchIds \ {k} : G[l] = F[l]
    PROVE  G = [F EXCEPT ![k] = v]
  OBVIOUS

\* The refinement mapping, launch by launch.
MappingOK ==
    \A l \in LaunchIds :
        /\ Underway(l) =>
             /\ LaunchOK(l, generated_requests, in_flight)
             /\ LaunchStatus[l] = "running"
             /\ StartedRequests[l] = Started(l, generated_requests)
             /\ Promise!Requests(l, LaunchShape[l]) = AllOf(l)
        /\ ~Underway(l) =>
             /\ LaunchShape[l] = Promise!NoShape
             /\ StartedRequests[l] = {}
        /\ FinishedRequests[l] = StartedRequests[l] \ in_flight
        /\ StartedRequests[l] \subseteq Promise!Requests(l, LaunchShape[l])

\* The requests KernelLaunch gives a launch underway are those of launch().
LEMMA PromisedRequests ==
    ASSUME TypeOK, NEW l \in DOMAIN launch_infos, Underway(l)
    PROVE  Promise!Requests(l, LaunchShape[l]) = AllOf(l)
<1> DEFINE B == NumKernelBodies[launch_infos[l].kernel]
           P == launch_infos[l].packets
<1>1. l \in LaunchIds /\ B \in Nat \ {0} /\ P \in Nat
  BY LaunchShapeType
<1>2. LaunchShape[l].bodies = B /\ LaunchShape[l].packets = P
  BY <1>1 DEF LaunchShape
<1> DEFINE X == [launch : {l}, type : {"KERNEL_BODY"}, body : 0..(B - 1), packet : 0..(P - 1)]
           Y == {KernelBody(l, b, p) : b \in 0..(B - 1), p \in 0..(P - 1)}
           ends == {Initializer(l), Finalizer(l)}
<1>3. X \subseteq Y
  <2> SUFFICES ASSUME NEW r \in X PROVE r \in Y
    OBVIOUS
  <2>1. r = KernelBody(l, r.body, r.packet) /\ r.body \in 0..(B - 1) /\ r.packet \in 0..(P - 1)
    BY DEF KernelBody
  <2> QED
    BY <2>1
<1>4. Y \subseteq X
  <2> SUFFICES ASSUME NEW b \in 0..(B - 1), NEW p \in 0..(P - 1)
               PROVE  KernelBody(l, b, p) \in X
    OBVIOUS
  <2> QED
    BY DEF KernelBody
<1>5. Promise!Requests(l, LaunchShape[l]) = ends \cup X
  BY <1>2 DEF Promise!Requests, Initializer, Finalizer
<1>6. AllOf(l) = ends \cup Y
  BY DEF AllOf
<1>7. X = Y
  <2> HIDE DEF X, Y
  <2> QED
    BY <1>3, <1>4, Zenon
<1> HIDE DEF X, Y
<1> QED
  BY <1>5, <1>6, <1>7

\* The invariant gives the mapping.
LEMMA Mapping == IInv => MappingOK
<1> SUFFICES ASSUME IInv, NEW l \in LaunchIds
             PROVE  /\ Underway(l) =>
                         /\ LaunchOK(l, generated_requests, in_flight)
                         /\ LaunchStatus[l] = "running"
                         /\ StartedRequests[l] = Started(l, generated_requests)
                         /\ Promise!Requests(l, LaunchShape[l]) = AllOf(l)
                    /\ ~Underway(l) =>
                         /\ LaunchShape[l] = Promise!NoShape
                         /\ StartedRequests[l] = {}
                    /\ FinishedRequests[l] = StartedRequests[l] \ in_flight
                    /\ StartedRequests[l] \subseteq Promise!Requests(l, LaunchShape[l])
  BY DEF MappingOK
<1>1. FinishedRequests[l] = StartedRequests[l] \ in_flight
  BY DEF FinishedRequests
<1>2. CASE ~Underway(l)
  <2>1. LaunchShape[l] = Promise!NoShape /\ StartedRequests[l] = {}
    BY <1>2 DEF LaunchShape, StartedRequests, Promise!NoShape
  <2> QED
    BY <1>1, <1>2, <2>1
<1>3. CASE Underway(l)
  <2>1. TypeOK /\ FlowOK(launch_queue, active_launch_ids, generated_requests, in_flight)
    BY DEF IInv
  <2>2. LaunchOK(l, generated_requests, in_flight)
    BY <1>3, <2>1 DEF FlowOK, Underway, Enqueued
  <2>3. l \in DOMAIN launch_infos /\ l < next_launch_id
    BY <2>2 DEF LaunchOK
  <2>4. LaunchStatus[l] = "running"
    <3>1. next_launch_id \in Nat /\ l \in Nat
      BY <2>1, BoundsAssumption DEF TypeOK, LaunchIds
    <3>2. ~(l >= next_launch_id)
      BY <2>3, <3>1
    <3> QED
      BY <1>3, <3>2 DEF LaunchStatus
  <2>5. Promise!Requests(l, LaunchShape[l]) = AllOf(l)
    BY <1>3, <2>1, <2>3, PromisedRequests
  <2>6. StartedRequests[l] = Started(l, generated_requests)
    BY <1>3 DEF StartedRequests, LaunchShape, Started, AllOf
  <2>7. StartedRequests[l] \subseteq AllOf(l)
    BY <2>6 DEF Started
  <2> QED
    BY <1>1, <1>3, <2>2, <2>4, <2>5, <2>6, <2>7
<1> QED
  BY <1>2, <1>3

\* A launch whose place has not changed has its status.
LEMMA SameStatus ==
    ASSUME NEW m \in LaunchIds, m >= next_launch_id' <=> m >= next_launch_id,
           Underway(m)' <=> Underway(m),
           m \in DOMAIN launch_infos' <=> m \in DOMAIN launch_infos
    PROVE  LaunchStatus'[m] = LaunchStatus[m]
  BY DEF LaunchStatus

\* A launch whose info has not changed has its shape.
LEMMA SameShape ==
    ASSUME NEW m \in LaunchIds, Underway(m)' <=> Underway(m),
           Underway(m) => launch_infos'[m] = launch_infos[m]
    PROVE  LaunchShape'[m] = LaunchShape[m]
  BY DEF LaunchShape

\* With the same deque as well, the same requests have started.
LEMMA SameStarted ==
    ASSUME NEW m \in LaunchIds, Underway(m)' <=> Underway(m),
           Underway(m) => launch_infos'[m] = launch_infos[m],
           generated_requests'[m] = generated_requests[m]
    PROVE  StartedRequests'[m] = StartedRequests[m]
<1>1. LaunchShape'[m] = LaunchShape[m]
  BY SameShape
<1> QED
  BY <1>1 DEF StartedRequests

\* The mapping in the next state.
LEMMA MappingNext == IInv' => MappingOK'
  BY Mapping, PTL

\* The mapped variables are functions on the launch ids.
LEMMA MappedFunctions ==
    /\ LaunchStatus = [l \in LaunchIds |-> LaunchStatus[l]]
    /\ LaunchStatus' = [l \in LaunchIds |-> LaunchStatus'[l]]
    /\ LaunchShape = [l \in LaunchIds |-> LaunchShape[l]]
    /\ LaunchShape' = [l \in LaunchIds |-> LaunchShape'[l]]
    /\ StartedRequests = [l \in LaunchIds |-> StartedRequests[l]]
    /\ StartedRequests' = [l \in LaunchIds |-> StartedRequests'[l]]
    /\ FinishedRequests = [l \in LaunchIds |-> FinishedRequests[l]]
    /\ FinishedRequests' = [l \in LaunchIds |-> FinishedRequests'[l]]
<1>1. /\ LaunchStatus = [l \in LaunchIds |-> LaunchStatus[l]]
      /\ LaunchStatus' = [l \in LaunchIds |-> LaunchStatus'[l]]
  BY DEF LaunchStatus
<1>2. /\ LaunchShape = [l \in LaunchIds |-> LaunchShape[l]]
      /\ LaunchShape' = [l \in LaunchIds |-> LaunchShape'[l]]
  BY DEF LaunchShape
<1>3. /\ StartedRequests = [l \in LaunchIds |-> StartedRequests[l]]
      /\ StartedRequests' = [l \in LaunchIds |-> StartedRequests'[l]]
  BY DEF StartedRequests
<1>4. /\ FinishedRequests = [l \in LaunchIds |-> FinishedRequests[l]]
      /\ FinishedRequests' = [l \in LaunchIds |-> FinishedRequests'[l]]
  BY DEF FinishedRequests
<1> QED
  BY <1>1, <1>2, <1>3, <1>4

-----------------------------------------------------------------------------
(* The steps.                                                              *)

\* A step that touches nothing the mapping reads.
LEMMA StutterStep ==
    ASSUME UNCHANGED <<next_launch_id, launch_infos, launch_queue, active_launch_ids,
                       generated_requests, in_flight>>
    PROVE  UNCHANGED Promise!vars
<1>1. \A l : Underway(l)' <=> Underway(l)
  BY DEF Underway, Enqueued
<1>2. LaunchStatus' = LaunchStatus
  BY <1>1, MappedFunctions, SameStatus, SameOnLaunches
<1>3. LaunchShape' = LaunchShape
  BY <1>1, MappedFunctions, SameShape, SameOnLaunches
<1>4. StartedRequests' = StartedRequests
  BY <1>1, MappedFunctions, SameStarted, SameOnLaunches
<1>5. FinishedRequests' = FinishedRequests
  BY <1>4 DEF FinishedRequests
<1> QED
  BY <1>2, <1>3, <1>4, <1>5 DEF Promise!vars

\* Requests pushed in order are a Start.
LEMMA StartStep ==
    ASSUME IInv, IInv', UNCHANGED <<next_launch_id, launch_infos>>,
           \A l \in LaunchIds : Underway(l)' <=> Underway(l),
           \A l \in LaunchIds : Underway(l) =>
              StartsOK(l, generated_requests, in_flight, generated_requests', in_flight')
    PROVE  Promise!Start
<1>0. MappingOK /\ MappingOK'
  BY Mapping, MappingNext
<1>1. LaunchStatus' = LaunchStatus
  BY MappedFunctions, SameStatus, SameOnLaunches
<1>2. LaunchShape' = LaunchShape
  BY MappedFunctions, SameShape, SameOnLaunches
<1>3. ASSUME NEW l \in LaunchIds, Underway(l)
      PROVE  /\ StartedRequests[l] = Started(l, generated_requests)
             /\ StartedRequests'[l] = Started(l, generated_requests')
             /\ Promise!Requests(l, LaunchShape[l]) = AllOf(l)
             /\ LaunchStatus[l] = "running"
             /\ FinishedRequests[l] = Started(l, generated_requests) \ in_flight
             /\ FinishedRequests'[l] = Started(l, generated_requests') \ in_flight'
  <2>1. /\ StartedRequests[l] = Started(l, generated_requests)
        /\ Promise!Requests(l, LaunchShape[l]) = AllOf(l)
        /\ LaunchStatus[l] = "running"
        /\ FinishedRequests[l] = StartedRequests[l] \ in_flight
    BY <1>0, <1>3 DEF MappingOK
  <2>2. StartedRequests'[l] = Started(l, generated_requests')
    BY <1>3 DEF StartedRequests, LaunchShape, Started, AllOf
  <2>3. FinishedRequests'[l] = StartedRequests'[l] \ in_flight'
    BY DEF FinishedRequests
  <2> QED
    BY <2>1, <2>2, <2>3
<1>4. ASSUME NEW l \in LaunchIds, ~Underway(l)
      PROVE  /\ StartedRequests[l] = {} /\ StartedRequests'[l] = {}
             /\ FinishedRequests[l] = {} /\ FinishedRequests'[l] = {}
  BY <1>4 DEF StartedRequests, FinishedRequests
<1>5. ASSUME NEW l \in LaunchIds
      PROVE  /\ StartedRequests[l] \subseteq StartedRequests'[l]
             /\ FinishedRequests'[l] = FinishedRequests[l]
             /\ \A r \in StartedRequests'[l] \ StartedRequests[l] : Promise!MayStart(l, r)
             /\ StartedRequests'[l] \subseteq Promise!Requests(l, LaunchShape[l])
  <2>1. CASE ~Underway(l)
    BY <1>4, <2>1
  <2>2. CASE Underway(l)
    <3>1. StartsOK(l, generated_requests, in_flight, generated_requests', in_flight')
      BY <2>2
    <3>2. /\ StartedRequests[l] \subseteq StartedRequests'[l]
          /\ FinishedRequests'[l] = FinishedRequests[l]
      BY <1>3, <2>2, <3>1, ZenonT(40) DEF StartsOK
    <3>3. StartedRequests'[l] \subseteq Promise!Requests(l, LaunchShape[l])
      BY <1>3, <2>2 DEF Started
    <3>4. ASSUME NEW r \in StartedRequests'[l] \ StartedRequests[l]
          PROVE  Promise!MayStart(l, r)
      <4>1. \A e \in Promise!Requests(l, LaunchShape[l]) :
              Promise!Earlier(e, r) => e \in FinishedRequests[l]
        BY <1>3, <2>2, <3>1 DEF StartsOK
      <4> QED
        BY <1>3, <2>2, <3>3, <4>1 DEF Promise!MayStart
    <3> QED
      BY <3>2, <3>3, <3>4
  <2> QED
    BY <2>1, <2>2
<1>6. FinishedRequests' = FinishedRequests
  BY <1>5, MappedFunctions, SameOnLaunches
<1>7. StartedRequests' \in [LaunchIds -> SUBSET UNION {Promise!Requests(l, LaunchShape[l]) : l \in LaunchIds}]
  <2>1. \A l \in LaunchIds : StartedRequests'[l]
          \in SUBSET UNION {Promise!Requests(k, LaunchShape[k]) : k \in LaunchIds}
    BY <1>5
  <2> QED
    BY <2>1, MappedFunctions
<1> QED
  BY <1>1, <1>2, <1>5, <1>6, <1>7 DEF Promise!Start

\* Activating a launch moves it from the queue to the active set; it was and is
\* underway.
LEMMA ActivateUnderway ==
    ASSUME NEW infos, NEW q \in Seq(LaunchIds), NEW active, NEW l
    PROVE  (\/ l \in active \cup check_kernel_launch(infos, q)
            \/ \E i \in 1..Len(StillQueued(infos, q)) : StillQueued(infos, q)[i] = l)
           <=> (l \in active \/ \E i \in 1..Len(q) : q[i] = l)
<1>1. CASE /\ check_kernel_launch(infos, q) = {}
           /\ StillQueued(infos, q) = q
  BY <1>1
<1>2. CASE /\ q # <<>>
           /\ check_kernel_launch(infos, q) = {Head(q)}
           /\ StillQueued(infos, q) = Tail(q)
  <2>1. /\ Len(q) \in Nat \ {0} /\ Len(Tail(q)) = Len(q) - 1 /\ Head(q) = q[1]
        /\ \A i \in 1..(Len(q) - 1) : Tail(q)[i] = q[i + 1]
    BY <1>2
  <2>2. (\E i \in 1..Len(q) : q[i] = l)
          <=> (l = Head(q) \/ \E i \in 1..Len(Tail(q)) : Tail(q)[i] = l)
    <3>1. ASSUME NEW i \in 1..Len(q), q[i] = l
          PROVE  l = Head(q) \/ \E j \in 1..Len(Tail(q)) : Tail(q)[j] = l
      <4>1. CASE i = 1
        BY <2>1, <3>1, <4>1
      <4>2. CASE i # 1
        <5>1. i - 1 \in 1..(Len(q) - 1) /\ (i - 1) + 1 = i
          BY <2>1, <4>2
        <5> QED
          BY <2>1, <3>1, <5>1
      <4> QED
        BY <4>1, <4>2
    <3>2. ASSUME NEW j \in 1..Len(Tail(q)), Tail(q)[j] = l
          PROVE  \E i \in 1..Len(q) : q[i] = l
      <4>1. j + 1 \in 1..Len(q) /\ j \in 1..(Len(q) - 1)
        BY <2>1
      <4> QED
        BY <2>1, <3>2, <4>1
    <3>3. l = Head(q) => \E i \in 1..Len(q) : q[i] = l
      BY <2>1
    <3> QED
      BY <3>1, <3>2, <3>3
  <2> QED
    BY <1>2, <2>2
<1> QED
  BY <1>1, <1>2, CheckKernelLaunchCases

\* A generate_uthreads iteration starts at most one request.
LEMMA GenerateUthreadStep ==
    ASSUME IInv, IInv', generate_uthread
    PROVE  Promise!Start
<1> DEFINE ids == UthreadPush(active_launch_ids, generated_requests)
<1>1. /\ TypeOK /\ generated_requests \in FrontsType /\ in_flight \in SUBSET Request
      /\ active_launch_ids \in SUBSET LaunchIds /\ launch_queue \in Seq(LaunchIds)
      /\ FlowOK(launch_queue, active_launch_ids, generated_requests, in_flight)
  BY DEF IInv, TypeOK, FrontsType
<1>2. /\ generated_requests' = Pop(generated_requests, ids)
      /\ in_flight' = in_flight \cup Pushed(generated_requests, ids)
      /\ UNCHANGED <<next_launch_id, launch_infos, launch_queue, active_launch_ids>>
  BY DEF generate_uthread
<1>3. ids = {} \/ \E l \in Issuable(active_launch_ids, generated_requests) : ids = {l}
  BY <1>1, UthreadPushCases
<1>4. \A l \in LaunchIds : Underway(l)' <=> Underway(l)
  BY <1>2 DEF Underway, Enqueued
<1>5. ASSUME NEW l \in LaunchIds, Underway(l)
      PROVE  StartsOK(l, generated_requests, in_flight, generated_requests', in_flight')
  <2>1. LaunchOK(l, generated_requests, in_flight)
    BY <1>5, Mapping DEF MappingOK
  <2> HIDE DEF ids
  <2>2. StartsOK(l, generated_requests, in_flight, Pop(generated_requests, ids),
                 in_flight \cup Pushed(generated_requests, ids))
    BY <1>1, <1>3, <2>1, PushStarts, Zenon
  <2> QED
    BY <1>2, <2>2
<1> QED
  BY <1>2, <1>4, <1>5, StartStep

\* cycle() starts at most two requests.
LEMMA CycleStep ==
    ASSUME IInv, IInv', cycle
    PROVE  Promise!Start
<1> DEFINE new == check_kernel_launch(launch_infos, launch_queue)
           queue == StillQueued(launch_infos, launch_queue)
           active == active_launch_ids \cup new
           uthreads == IF CoarseGrained \/ ScWork THEN {}
                       ELSE UthreadPush(active, generated_requests)
           fronts == Pop(generated_requests, uthreads)
           flight == in_flight \cup Pushed(generated_requests, uthreads)
           ends == EndPush(active, fronts)
<1>1. /\ TypeOK /\ generated_requests \in FrontsType /\ in_flight \in SUBSET Request
      /\ launch_queue \in Seq(LaunchIds)
      /\ FlowOK(launch_queue, active_launch_ids, generated_requests, in_flight)
  BY DEF IInv, TypeOK, FrontsType
<1>2. /\ active_launch_ids' = active /\ launch_queue' = queue
      /\ generated_requests' = Pop(fronts, ends)
      /\ in_flight' = flight \cup Pushed(fronts, ends)
      /\ UNCHANGED <<next_launch_id, launch_infos>>
  BY DEF cycle
<1>3. /\ queue \in Seq(LaunchIds) /\ active \in SUBSET LaunchIds
      /\ FlowOK(queue, active, generated_requests, in_flight)
  BY <1>1, ActivateFlow
<1>4. \A l \in LaunchIds : Underway(l)' <=> Underway(l)
  BY <1>1, <1>2, ActivateUnderway DEF Underway, Enqueued
<1> HIDE DEF new, queue, active
<1>5. uthreads = {} \/ \E l \in Issuable(active, generated_requests) : uthreads = {l}
  BY <1>3, UthreadPushCases
<1> HIDE DEF uthreads
<1>6. fronts \in FrontsType /\ flight \in SUBSET Request /\ FlowOK(queue, active, fronts, flight)
  BY <1>1, <1>3, <1>5, PushSetPreservesFlow, Zenon
<1>7. ends = {} \/ \E l \in Issuable(active, fronts) : ends = {l}
  BY <1>3, EndPushCases
<1> HIDE DEF ends
<1>8. ASSUME NEW l \in LaunchIds, Underway(l)
      PROVE  StartsOK(l, generated_requests, in_flight, generated_requests', in_flight')
  <2>1. l \in active \/ \E i \in 1..Len(queue) : queue[i] = l
    BY <1>2, <1>4, <1>8 DEF Underway, Enqueued
  <2>2. LaunchOK(l, generated_requests, in_flight)
    BY <1>3, <2>1 DEF FlowOK
  <2>3. StartsOK(l, generated_requests, in_flight, fronts, flight)
    BY <1>1, <1>3, <1>5, <2>2, PushStarts, Zenon
  <2> HIDE DEF fronts, flight
  <2>4. LaunchOK(l, fronts, flight)
    BY <1>6, <2>1 DEF FlowOK
  <2>5. StartsOK(l, fronts, flight, Pop(fronts, ends), flight \cup Pushed(fronts, ends))
    BY <1>1, <1>3, <1>6, <1>7, <2>4, PushStarts, ZenonT(40)
  <2>6. StartsOK(l, generated_requests, in_flight, Pop(fronts, ends),
                 flight \cup Pushed(fronts, ends))
    BY <2>3, <2>5, StartsTwice
  <2> QED
    BY <1>2, <2>6
<1> QED
  BY <1>2, <1>4, <1>8, StartStep

\* A request in flight has started.
LEMMA FlightStarted ==
    ASSUME IInv, NEW r \in in_flight
    PROVE  /\ r.launch \in LaunchIds /\ Underway(r.launch) /\ r.launch \in active_launch_ids
           /\ LaunchStatus[r.launch] = "running"
           /\ r \in StartedRequests[r.launch]
           /\ \A m \in LaunchIds \ {r.launch} : r \notin StartedRequests[m]
<1> DEFINE l == r.launch
<1>1. TypeOK /\ r \in Request /\ l \in LaunchIds
  BY ZenonT(40) DEF IInv, TypeOK, Request
<1>2. l \in active_launch_ids /\ LaunchOK(l, generated_requests, in_flight)
  BY FlightOK
<1>3. Underway(l)
  BY <1>2 DEF Underway
<1>4. MappingOK
  BY Mapping
<1>5. LaunchStatus[l] = "running" /\ StartedRequests[l] = Started(l, generated_requests)
  BY <1>1, <1>3, <1>4 DEF MappingOK
<1>6. l \in DOMAIN launch_infos /\ RequestOf(r, l) /\ Before(r, generated_requests[l])
  BY <1>2 DEF LaunchOK
<1>7. r \in StartedRequests[l]
  BY <1>1, <1>5, <1>6, AllOfIsRequestOf DEF Started
<1>8. ASSUME NEW m \in LaunchIds \ {l} PROVE r \notin StartedRequests[m]
  <2>1. CASE ~Underway(m)
    BY <1>4, <2>1 DEF MappingOK
  <2>2. CASE Underway(m)
    <3>1. LaunchOK(m, generated_requests, in_flight) /\ StartedRequests[m] = Started(m, generated_requests)
      BY <1>4, <2>2 DEF MappingOK
    <3>2. r \in AllOf(m) => r.launch = m
      BY <1>1, <3>1, AllOfIsRequestOf DEF LaunchOK, RequestOf
    <3> QED
      BY <3>1, <3>2 DEF Started
  <2> QED
    BY <2>1, <2>2
<1> QED
  BY <1>1, <1>2, <1>3, <1>5, <1>7, <1>8

\* A context of an initializer or a kernel body comes back.
LEMMA CountedStep ==
    ASSUME IInv, IInv', NEW r \in in_flight, r.type # "FINALIZER", handle_finished_context(r)
    PROVE  Promise!Finish(r.launch, r)
<1> DEFINE l == r.launch
<1>1. /\ l \in LaunchIds /\ LaunchStatus[l] = "running" /\ r \in StartedRequests[l]
      /\ \A m \in LaunchIds \ {l} : r \notin StartedRequests[m]
  BY FlightStarted
<1>2. /\ in_flight' = in_flight \ {r}
      /\ UNCHANGED <<next_launch_id, launch_infos, launch_queue, active_launch_ids,
                     generated_requests>>
  BY DEF handle_finished_context
<1>3. \A m : Underway(m)' <=> Underway(m)
  BY <1>2 DEF Underway, Enqueued
<1>4. LaunchStatus' = LaunchStatus
  BY <1>2, <1>3, MappedFunctions, SameStatus, SameOnLaunches
<1>5. LaunchShape' = LaunchShape
  BY <1>2, <1>3, MappedFunctions, SameShape, SameOnLaunches
<1>6. StartedRequests' = StartedRequests
  BY <1>2, <1>3, MappedFunctions, SameStarted, SameOnLaunches
<1>7. r \notin FinishedRequests[l]
  BY <1>1 DEF FinishedRequests
<1>8. FinishedRequests' = [FinishedRequests EXCEPT ![l] = @ \cup {r}]
  <2> DEFINE G == [FinishedRequests EXCEPT ![l] = @ \cup {r}]
  <2>1. G = [m \in LaunchIds |-> G[m]]
    BY MappedFunctions, Zenon
  <2>2. ASSUME NEW m \in LaunchIds PROVE FinishedRequests'[m] = G[m]
    <3>1. /\ FinishedRequests'[m] = StartedRequests[m] \ (in_flight \ {r})
          /\ FinishedRequests[m] = StartedRequests[m] \ in_flight
      BY <1>2, <1>6 DEF FinishedRequests
    <3>2. G[m] = IF m = l THEN FinishedRequests[m] \cup {r} ELSE FinishedRequests[m]
      BY MappedFunctions
    <3>3. CASE m = l
      BY <1>1, <3>1, <3>2, <3>3
    <3>4. CASE m # l
      BY <1>1, <3>1, <3>2, <3>4
    <3> QED
      BY <3>3, <3>4
  <2> HIDE DEF G
  <2>3. FinishedRequests' = G
    BY <2>1, <2>2, MappedFunctions, SameOnLaunches
  <2> QED
    BY <2>3 DEF G
<1> QED
  BY <1>1, <1>4, <1>5, <1>6, <1>7, <1>8 DEF Promise!Finish

\* The context of a finalizer comes back.
LEMMA FinishedStep ==
    ASSUME IInv, IInv', NEW r \in in_flight, r.type = "FINALIZER", handle_finished_context(r)
    PROVE  Promise!Finish(r.launch, r)
<1> DEFINE l == r.launch
<1>1. /\ l \in LaunchIds /\ LaunchStatus[l] = "running" /\ r \in StartedRequests[l]
      /\ \A m \in LaunchIds \ {l} : r \notin StartedRequests[m]
      /\ l \in active_launch_ids /\ Underway(l)
  BY FlightStarted
<1>2. /\ in_flight' = in_flight \ {r}
      /\ active_launch_ids' = active_launch_ids \ {l}
      /\ launch_infos' = [i \in DOMAIN launch_infos \ {l} |-> launch_infos[i]]
      /\ UNCHANGED <<next_launch_id, launch_queue, generated_requests>>
  BY DEF handle_finished_context
<1>3. ~Enqueued(l)
  BY <1>1 DEF IInv, FlowOK, QueueOK, Enqueued
<1>4. /\ ~Underway(l)'
      /\ \A m \in LaunchIds \ {l} : Underway(m)' <=> Underway(m)
  BY <1>2, <1>3 DEF Underway, Enqueued
<1>5. MappingOK
  BY Mapping
<1>6. ASSUME NEW m \in LaunchIds \ {l}
      PROVE  /\ LaunchStatus'[m] = LaunchStatus[m]
             /\ LaunchShape'[m] = LaunchShape[m]
             /\ StartedRequests'[m] = StartedRequests[m]
             /\ FinishedRequests'[m] = FinishedRequests[m]
  <2>1. m \in DOMAIN launch_infos' <=> m \in DOMAIN launch_infos
    BY <1>2
  <2>2. Underway(m) => launch_infos'[m] = launch_infos[m]
    BY <1>2, <1>5, Zenon DEF MappingOK, LaunchOK
  <2>3. /\ LaunchStatus'[m] = LaunchStatus[m]
        /\ LaunchShape'[m] = LaunchShape[m]
        /\ StartedRequests'[m] = StartedRequests[m]
    BY <1>2, <1>4, <2>1, <2>2, SameStatus, SameShape, SameStarted, Zenon
  <2>4. /\ FinishedRequests'[m] = StartedRequests'[m] \ in_flight'
        /\ FinishedRequests[m] = StartedRequests[m] \ in_flight
    BY DEF FinishedRequests
  <2> QED
    BY <1>1, <1>2, <2>3, <2>4, ZenonT(40)
<1>7. /\ LaunchStatus'[l] = "done"
      /\ LaunchShape'[l] = Promise!NoShape
      /\ StartedRequests'[l] = {}
      /\ FinishedRequests'[l] = {}
  <2>1. LaunchOK(l, generated_requests, in_flight)
    BY <1>1, <1>5 DEF MappingOK
  <2>2. ~(l >= next_launch_id') /\ l \notin DOMAIN launch_infos'
    <3>1. next_launch_id \in Nat /\ l \in Nat
      BY <1>1, BoundsAssumption DEF IInv, TypeOK, LaunchIds
    <3> QED
      BY <1>2, <2>1, <3>1 DEF LaunchOK
  <2>3. LaunchStatus'[l] = "done"
    BY <1>1, <1>4, <2>2 DEF LaunchStatus
  <2>4. LaunchShape'[l] = Promise!NoShape /\ StartedRequests'[l] = {}
    BY <1>1, <1>4, MappingNext DEF MappingOK
  <2> QED
    BY <1>1, <2>3, <2>4 DEF FinishedRequests
<1>8. /\ LaunchStatus' = [LaunchStatus EXCEPT ![l] = "done"]
      /\ LaunchShape' = [LaunchShape EXCEPT ![l] = Promise!NoShape]
      /\ StartedRequests' = [StartedRequests EXCEPT ![l] = {}]
      /\ FinishedRequests' = [FinishedRequests EXCEPT ![l] = {}]
  BY <1>1, <1>6, <1>7, MappedFunctions, ChangedOnOne
<1>9. r \notin FinishedRequests[l]
  BY <1>1 DEF FinishedRequests
<1> QED
  BY <1>1, <1>8, <1>9 DEF Promise!Finish

\* What launch() answers for a fresh id, the other launches being left alone.
LEMMA SubmitStep ==
    ASSUME IInv, NEW l \in LaunchIds, l = next_launch_id, next_launch_id' = l + 1,
           UNCHANGED in_flight, ~Underway(l), l \notin DOMAIN launch_infos,
           NEW s, NEW answer,
           \A m \in LaunchIds \ {l} :
              /\ Underway(m)' <=> Underway(m)
              /\ m \in DOMAIN launch_infos' <=> m \in DOMAIN launch_infos
              /\ m \in DOMAIN launch_infos => launch_infos'[m] = launch_infos[m]
              /\ generated_requests'[m] = generated_requests[m],
           LaunchStatus'[l] = answer,
           LaunchShape'[l] = IF answer = "running" THEN s ELSE Promise!NoShape,
           StartedRequests'[l] = {}
    PROVE  Promise!Submit(l, s, answer)
<1>1. MappingOK
  BY Mapping
<1>2. next_launch_id \in Nat /\ LaunchIds \subseteq Nat
  BY BoundsAssumption DEF IInv, TypeOK, LaunchIds
<1>3. LaunchStatus[l] = "none"
  BY <1>2 DEF LaunchStatus
<1>4. StartedRequests[l] = {}
  BY <1>1, Zenon DEF MappingOK
<1>5. ASSUME NEW m \in LaunchIds \ {l}
      PROVE  /\ LaunchStatus'[m] = LaunchStatus[m]
             /\ LaunchShape'[m] = LaunchShape[m]
             /\ StartedRequests'[m] = StartedRequests[m]
  <2>1. m >= next_launch_id' <=> m >= next_launch_id
    BY <1>2
  <2>2. Underway(m) => launch_infos'[m] = launch_infos[m]
    BY <1>1, Zenon DEF MappingOK, LaunchOK
  <2> QED
    BY <2>1, <2>2, SameStatus, SameShape, SameStarted
<1>6. StartedRequests' = StartedRequests
  <2>1. \A m \in LaunchIds : StartedRequests'[m] = StartedRequests[m]
    BY <1>4, <1>5, Zenon
  <2> QED
    BY <2>1, MappedFunctions, SameOnLaunches
<1>7. FinishedRequests' = FinishedRequests
  BY <1>6 DEF FinishedRequests
<1>8. /\ LaunchStatus' = [LaunchStatus EXCEPT ![l] = answer]
      /\ LaunchShape' = [LaunchShape EXCEPT ![l] = IF answer = "running" THEN s
                                                   ELSE Promise!NoShape]
  BY <1>5, MappedFunctions, ChangedOnOne
<1> QED
  BY <1>3, <1>6, <1>7, <1>8 DEF Promise!Submit

\* launch() is rejected, done at once, or running.
LEMMA LaunchStep ==
    ASSUME IInv, IInv', NEW info \in KernelLaunchInfo, launch(info)
    PROVE  \E l \in LaunchIds, s \in [bodies : {NumKernelBodies[k] : k \in KernelIds},
                                      packets : 0..MaxPackets],
              answer \in {"running", "rejected", "done"} : Promise!Submit(l, s, answer)
<1>0. PICK l \in LaunchIds : l = next_launch_id
  BY BoundsAssumption DEF launch, IInv, TypeOK, LaunchIds
<1> DEFINE infos == [i \in DOMAIN launch_infos \cup {l} |->
                        IF i = l THEN info ELSE launch_infos[i]]
           s == [bodies |-> NumKernelBodies[info.kernel], packets |-> info.packets]
<1>1. /\ TypeOK /\ launch_queue \in Seq(LaunchIds)
      /\ FlowOK(launch_queue, active_launch_ids, generated_requests, in_flight)
  BY DEF IInv, TypeOK
<1>2. s \in [bodies : {NumKernelBodies[k] : k \in KernelIds}, packets : 0..MaxPackets]
  BY DEF KernelLaunchInfo
<1>3. /\ l \notin DOMAIN launch_infos /\ ~Underway(l)
      /\ generated_requests[l] = NoRequest
  BY <1>0, <1>1, FreshLaunch DEF Underway, Enqueued, IdleOK
<1>4. next_launch_id' = l + 1 /\ UNCHANGED in_flight
  BY <1>0 DEF launch
<1>5. ~(l >= next_launch_id')
  <2>1. l \in Nat
    BY BoundsAssumption DEF LaunchIds
  <2> QED
    BY <1>4, <2>1
<1>6. CASE /\ info.kernel \notin registered_functions
           /\ launch_infos' = infos
           /\ UNCHANGED <<launch_queue, active_launch_ids, generated_requests>>
  <2>1. \A m : Underway(m)' <=> Underway(m)
    BY <1>6 DEF Underway, Enqueued
  <2>2. l \in DOMAIN launch_infos' /\ ~Underway(l)'
    BY <1>3, <1>6, <2>1
  <2>3. LaunchStatus'[l] = "rejected"
    BY <1>5, <2>2 DEF LaunchStatus
  <2>4. LaunchShape'[l] = Promise!NoShape /\ StartedRequests'[l] = {}
    BY <2>2, MappingNext DEF MappingOK
  <2>5. \A m \in LaunchIds \ {l} :
          /\ m \in DOMAIN launch_infos' <=> m \in DOMAIN launch_infos
          /\ m \in DOMAIN launch_infos => launch_infos'[m] = launch_infos[m]
          /\ generated_requests'[m] = generated_requests[m]
    BY <1>6
  <2> HIDE DEF s
  <2>6. Promise!Submit(l, s, "rejected")
    BY <1>0, <1>3, <1>4, <2>1, <2>3, <2>4, <2>5, SubmitStep
  <2> QED
    BY <1>2, <2>6
<1>7. CASE /\ info.kernel \in registered_functions
           /\ info.packets = 0
           /\ launch_infos' = launch_infos
           /\ Activate(launch_infos, launch_queue)
           /\ UNCHANGED generated_requests
  <2>1. /\ active_launch_ids' = active_launch_ids \cup check_kernel_launch(launch_infos, launch_queue)
        /\ launch_queue' = StillQueued(launch_infos, launch_queue)
    BY <1>7 DEF Activate
  <2>2. \A m : Underway(m)' <=> Underway(m)
    BY <1>1, <2>1, ActivateUnderway DEF Underway, Enqueued
  <2>3. l \notin DOMAIN launch_infos' /\ ~Underway(l)'
    BY <1>3, <1>7, <2>2
  <2>4. LaunchStatus'[l] = "done"
    BY <1>5, <2>3 DEF LaunchStatus
  <2>5. LaunchShape'[l] = Promise!NoShape /\ StartedRequests'[l] = {}
    BY <2>3, MappingNext DEF MappingOK
  <2> HIDE DEF s
  <2>6. Promise!Submit(l, s, "done")
    BY <1>0, <1>3, <1>4, <1>7, <2>2, <2>4, <2>5, SubmitStep
  <2> QED
    BY <1>2, <2>6
<1>8. CASE /\ info.kernel \in registered_functions
           /\ info.packets > 0
           /\ launch_infos' = infos
           /\ generated_requests' = [generated_requests EXCEPT ![l] = Initializer(l)]
           /\ Activate(infos, Append(launch_queue, l))
  <2> DEFINE q == Append(launch_queue, l)
  <2>1. /\ active_launch_ids' = active_launch_ids \cup check_kernel_launch(infos, q)
        /\ launch_queue' = StillQueued(infos, q)
    BY <1>8 DEF Activate
  <2>2. q \in Seq(LaunchIds)
    BY <1>1
  <2>3. \A m : (\E i \in 1..Len(q) : q[i] = m) <=> (m = l \/ Enqueued(m))
    <3>1. /\ Len(q) = Len(launch_queue) + 1 /\ q[Len(launch_queue) + 1] = l
          /\ \A i \in 1..Len(launch_queue) : q[i] = launch_queue[i]
          /\ Len(launch_queue) \in Nat
      BY <1>1, AppendLaunch
    <3> HIDE DEF q
    <3>2. \A i : i \in 1..Len(q) <=> (i \in 1..Len(launch_queue) \/ i = Len(launch_queue) + 1)
      BY <3>1
    <3> QED
      BY <3>1, <3>2 DEF Enqueued
  <2> HIDE DEF q
  <2>4. \A m : Underway(m)' <=> (m = l \/ Underway(m))
    <3> HIDE DEF infos
    <3>1. \A m : Underway(m)' <=> (m \in active_launch_ids \/ \E i \in 1..Len(q) : q[i] = m)
      <4> SUFFICES ASSUME NEW m
                   PROVE  Underway(m)' <=> (m \in active_launch_ids
                                              \/ \E i \in 1..Len(q) : q[i] = m)
        OBVIOUS
      <4>1. (m \in active_launch_ids \cup check_kernel_launch(infos, q)
               \/ \E i \in 1..Len(StillQueued(infos, q)) : StillQueued(infos, q)[i] = m)
            <=> (m \in active_launch_ids \/ \E i \in 1..Len(q) : q[i] = m)
        BY <2>2, ActivateUnderway
      <4> QED
        BY <2>1, <4>1 DEF Underway, Enqueued
    <3> QED
      BY <2>3, <3>1 DEF Underway
  <2>5. LaunchStatus'[l] = "running"
    BY <1>5, <2>4 DEF LaunchStatus
  <2>6. LaunchShape'[l] = s
    <3>1. launch_infos'[l] = info
      BY <1>8
    <3> QED
      BY <2>4, <3>1 DEF LaunchShape
  <2>7. StartedRequests'[l] = {}
    <3>1. generated_requests'[l] = Initializer(l)
      BY <1>1, <1>8 DEF TypeOK
    <3>2. \A r : ~Before(r, Initializer(l))
      <4>1. Initializer(l).type = "INITIALIZER" /\ Initializer(l) # NoRequest
        BY DEF Initializer, NoRequest
      <4> QED
        BY <4>1 DEF Before
    <3> QED
      BY <3>1, <3>2 DEF StartedRequests
  <2>8. \A m \in LaunchIds \ {l} :
          /\ m \in DOMAIN launch_infos' <=> m \in DOMAIN launch_infos
          /\ m \in DOMAIN launch_infos => launch_infos'[m] = launch_infos[m]
          /\ generated_requests'[m] = generated_requests[m]
    BY <1>1, <1>8 DEF TypeOK
  <2> HIDE DEF s
  <2>9. Promise!Submit(l, s, "running")
    BY <1>0, <1>3, <1>4, <2>4, <2>5, <2>6, <2>7, <2>8, SubmitStep
  <2> QED
    BY <1>2, <2>9
<1> QED
  BY <1>0, <1>6, <1>7, <1>8 DEF launch

-----------------------------------------------------------------------------
(* The theorem.                                                            *)

\* Before the first launch nothing is running.
LEMMA InitStep == Init => Promise!Init
<1> SUFFICES ASSUME Init PROVE Promise!Init
  OBVIOUS
<1>1. IInv
  BY InitIInv
<1>2. /\ next_launch_id = 0 /\ active_launch_ids = {} /\ launch_queue = <<>>
      /\ DOMAIN launch_infos = {}
  BY DEF Init
<1>3. \A l \in LaunchIds : l >= next_launch_id
  BY <1>2, BoundsAssumption DEF LaunchIds
<1>4. Len(launch_queue) = 0
  BY <1>2
<1>5. \A l \in LaunchIds : ~Underway(l)
  BY <1>2, <1>4 DEF Underway, Enqueued
<1>6. LaunchStatus = [l \in LaunchIds |-> "none"]
  BY <1>2, <1>3, <1>5 DEF LaunchStatus
<1>7. LaunchShape = [l \in LaunchIds |-> Promise!NoShape]
  BY <1>5 DEF LaunchShape, Promise!NoShape
<1>8. StartedRequests = [l \in LaunchIds |-> {}]
  BY <1>5 DEF StartedRequests
<1>9. FinishedRequests = [l \in LaunchIds |-> {}]
  BY <1>8 DEF FinishedRequests
<1> QED
  BY <1>6, <1>7, <1>8, <1>9 DEF Promise!Init

\* Every step of the generator is one of KernelLaunch or leaves its state alone.
LEMMA NextStep ==
    IInv /\ IInv' /\ [Next]_generator_vars => [Promise!Next]_(Promise!vars)
<1> SUFFICES ASSUME IInv, IInv', [Next]_generator_vars
             PROVE  Promise!Next \/ UNCHANGED Promise!vars
  OBVIOUS
<1>1. CASE UNCHANGED generator_vars
  BY <1>1, StutterStep DEF generator_vars
<1>2. ASSUME NEW k \in KernelIds, register_kernel(k) PROVE UNCHANGED Promise!vars
  BY <1>2, StutterStep DEF register_kernel
<1>3. ASSUME NEW info \in KernelLaunchInfo, launch(info) PROVE Promise!Next
  BY <1>3, LaunchStep DEF Promise!Next
<1>4. CASE cycle
  BY <1>4, CycleStep DEF Promise!Next
<1>5. ASSUME NEW n \in {1, CoarseThreads}, generate_uthreads(n) PROVE UNCHANGED Promise!vars
  BY <1>5, StutterStep DEF generate_uthreads
<1>6. CASE generate_uthread
  BY <1>6, GenerateUthreadStep DEF Promise!Next
<1>7. ASSUME NEW r \in in_flight, handle_finished_context(r) PROVE Promise!Next
  <2>1. r.launch \in LaunchIds /\ r \in StartedRequests[r.launch]
    BY FlightStarted
  <2>2. Promise!Finish(r.launch, r)
    BY <1>7, CountedStep, FinishedStep
  <2> QED
    BY <2>1, <2>2 DEF Promise!Next
<1> QED
  BY <1>1, <1>2, <1>3, <1>4, <1>5, <1>6, <1>7 DEF Next

\* The generator keeps the promise of KernelLaunch: whatever order contexts come
\* back in, and however uthreads are generated, the requests of every launch run
\* once and in stages, and the launch is done with its finalizer.
THEOREM GeneratorImplementsKernelLaunch == Spec => ImplementsKernelLaunch
<1> QED
  BY InitIInv, NextIInv, InitStep, NextStep, PTL DEF Spec, ImplementsKernelLaunch, Promise!Spec
=============================================================================

----------------------- MODULE UThreadGeneratorProofs -----------------------
(* Proofs about UThreadGenerator, for every value of its constants. *)
EXTENDS UThreadGenerator, FiniteSetTheorems, NaturalsInduction,
        WellFoundedInduction, TLAPS

-----------------------------------------------------------------------------
(* Arithmetic and choice.                                                  *)

\* A nonempty set of naturals has a least element, and Min picks it: the
\* first element of the ordered set that get_next_launch_id scans.
LEMMA MinOfNaturals ==
    ASSUME NEW S \in SUBSET Nat, S # {}
    PROVE  Min(S) \in S /\ \A x \in S : Min(S) <= x
<1>1. PICK x \in S : \A y \in S : ~(<<y, x>> \in OpToRel(<, Nat))
  BY NatLessThanWellFounded, WFMin, Zenon
<1>2. ASSUME NEW y \in S PROVE x <= y
  <2> DEFINE pair == <<y, x>>
  <2>1. pair \in Nat \X Nat /\ pair[1] = y /\ pair[2] = x
    OBVIOUS
  <2>2. pair[1] < pair[2] => pair \in OpToRel(<, Nat)
    BY <2>1, Zenon DEF OpToRel
  <2>3. ~(y < x)
    BY <1>1, <2>1, <2>2, Zenon
  <2> QED
    BY <2>3
<1>3. \E z \in S : \A y \in S : z <= y
  BY <1>2
<1> QED
  BY <1>3, Zenon DEF Min

\* reqs_per_body of check_can_issue is the number of packets.
LEMMA PerBody ==
    ASSUME NEW B \in Nat \ {0}, NEW P \in Nat \ {0}
    PROVE  ((2 + B * P) - 2) \div B = P
  OBVIOUS

\* When check_can_issue lets body b go, the bodies before it have been counted.
LEMMA BodiesFinished ==
    ASSUME NEW c \in Nat, NEW P \in Nat \ {0}, NEW b \in Nat, c # 0,
           b = (c - 1) \div P
    PROVE  b * P <= c - 1
  OBVIOUS

\* Counting a request and taking it out of flight leaves the sum alone.
LEMMA OneMoreCounted ==
    ASSUME NEW c \in Nat, NEW c2, c2 = c + 1, NEW k \in Nat, NEW k2, k2 = k - 1,
           NEW n, c + k = n
    PROVE  c2 + k2 = n
  OBVIOUS
-----------------------------------------------------------------------------
(* The deque of one launch.                                                *)

FrontsType == [LaunchIds -> Request \cup {NoRequest}]

\* The types of the parts of a launch info.
LEMMA LaunchShapeType ==
    ASSUME TypeOK, NEW l \in DOMAIN launch_infos
    PROVE  /\ l \in LaunchIds
           /\ launch_infos[l] \in KernelLaunchInfo
           /\ launch_infos[l].packets \in Nat
           /\ launch_infos[l].kernel \in KernelIds
           /\ NumKernelBodies[launch_infos[l].kernel] \in Nat \ {0}
  BY NumKernelBodiesAssumption, BoundsAssumption DEF TypeOK, KernelLaunchInfo

\* NoRequest is told from a request by its type.
LEMMA NoRequestType ==
    ASSUME NEW r \in Request
    PROVE  r # NoRequest
  BY DEF Request, NoRequest

\* The request behind f is one of the same launch, f is right before it, and
\* whatever was before f is before it.
LEMMA FollowingStep ==
    ASSUME TypeOK, NEW l \in DOMAIN launch_infos, launch_infos[l].packets > 0,
           NEW f, RequestOf(f, l)
    PROVE  /\ Following(f) = NoRequest \/ RequestOf(Following(f), l)
           /\ NumBefore(f, l) \in Nat
           /\ NumBefore(Following(f), l) = NumBefore(f, l) + 1
           /\ ~Before(f, f)
           /\ Before(f, Following(f))
           /\ \A r \in Request : Before(r, f) => Before(r, Following(f))
<1> DEFINE P == launch_infos[l].packets
           B == NumKernelBodies[launch_infos[l].kernel]
<1>1. P \in Nat \ {0} /\ B \in Nat \ {0} /\ l \in LaunchIds
  BY LaunchShapeType
<1>2. f \in Request /\ f.launch = l /\ f # NoRequest
  BY NoRequestType DEF RequestOf
<1>3. CASE f.type = "INITIALIZER"
  <2>1. Following(f) = KernelBody(l, 0, 0)
    BY <1>2, <1>3 DEF Following
  <2>2. RequestOf(Following(f), l)
    BY <1>1, <2>1 DEF RequestOf, Request, KernelBody
  <2>3. NumBefore(f, l) = 0 /\ NumBefore(Following(f), l) = 1
    BY <1>1, <1>3, <2>1 DEF NumBefore, KernelBody
  <2> QED
    BY <1>2, <1>3, <2>1, <2>2, <2>3 DEF Before, KernelBody, Request, NoRequest
<1>4. CASE f.type = "KERNEL_BODY"
  <2>0. /\ f.body \in Nat /\ f.packet \in Nat /\ f.body < B /\ f.packet < P
        /\ NumBefore(f, l) = 1 + f.body * P + f.packet
    BY <1>1, <1>2, <1>4 DEF RequestOf, Request, NumBefore
  <2>1. CASE f.packet + 1 < P
    <3>1. Following(f) = KernelBody(l, f.body, f.packet + 1)
      BY <1>2, <1>4, <2>1 DEF Following
    <3>2. RequestOf(Following(f), l)
      BY <1>1, <2>0, <2>1, <3>1 DEF RequestOf, Request, KernelBody
    <3>3. NumBefore(Following(f), l) = 1 + f.body * P + (f.packet + 1)
      BY <3>1 DEF NumBefore, KernelBody
    <3>4. NumBefore(f, l) \in Nat /\ NumBefore(Following(f), l) = NumBefore(f, l) + 1
      BY <1>1, <2>0, <3>3
    <3> QED
      BY <1>2, <1>4, <2>0, <3>1, <3>2, <3>4
         DEF Before, KernelBody, Request, NoRequest
  <2>2. CASE ~(f.packet + 1 < P) /\ f.body + 1 < B
    <3>1. Following(f) = KernelBody(l, f.body + 1, 0)
      BY <1>2, <1>4, <2>2 DEF Following
    <3>2. RequestOf(Following(f), l)
      BY <1>1, <2>0, <2>2, <3>1 DEF RequestOf, Request, KernelBody
    <3>3. NumBefore(Following(f), l) = 1 + (f.body + 1) * P + 0
      BY <3>1 DEF NumBefore, KernelBody
    <3>4. P = f.packet + 1
      BY <1>1, <2>0, <2>2
    <3>5. NumBefore(f, l) \in Nat /\ NumBefore(Following(f), l) = NumBefore(f, l) + 1
      BY <1>1, <2>0, <3>3, <3>4
    <3> QED
      BY <1>2, <1>4, <2>0, <3>1, <3>2, <3>5
         DEF Before, KernelBody, Request, NoRequest
  <2>3. CASE ~(f.packet + 1 < P) /\ ~(f.body + 1 < B)
    <3>1. Following(f) = Finalizer(l)
      BY <1>2, <1>4, <2>3 DEF Following
    <3>2. RequestOf(Following(f), l)
      BY <1>1, <3>1 DEF RequestOf, Request, Finalizer
    <3>3. NumBefore(Following(f), l) = 1 + B * P
      BY <3>1 DEF NumBefore, Finalizer
    <3>4. P = f.packet + 1 /\ B = f.body + 1
      BY <1>1, <2>0, <2>3
    <3>5. NumBefore(f, l) \in Nat /\ NumBefore(Following(f), l) = NumBefore(f, l) + 1
      BY <1>1, <2>0, <3>3, <3>4
    <3> QED
      BY <1>2, <1>4, <2>0, <3>1, <3>2, <3>5
         DEF Before, Finalizer, Request, NoRequest
  <2> QED
    BY <2>1, <2>2, <2>3
<1>5. CASE f.type = "FINALIZER"
  <2>1. Following(f) = NoRequest
    BY <1>5 DEF Following
  <2>2. NumBefore(f, l) = 1 + B * P /\ NumBefore(Following(f), l) = 2 + B * P
    BY <1>5, <2>1 DEF NumBefore, NoRequest
  <2> QED
    BY <1>1, <1>2, <1>5, <2>1, <2>2 DEF Before, Request, NoRequest
<1> QED
  BY <1>2, <1>3, <1>4, <1>5 DEF Request
-----------------------------------------------------------------------------
(* Pushing the front of an issuable launch.                                *)

\* What check_can_issue is for: when it lets the front of a launch through,
\* everything the launch has in flight is of the same phase as the front.
LEMMA IssueInPhase ==
    ASSUME TypeOK, NEW fronts \in FrontsType, NEW flight \in SUBSET Request,
           NEW l \in LaunchIds, IsFiniteSet(flight),
           LaunchOK(l, fronts, flight), fronts[l] # NoRequest,
           check_can_issue(fronts[l])
    PROVE  \A r \in flight : r.launch = l =>
              r.type = fronts[l].type /\ r.body = fronts[l].body
<1> DEFINE f == fronts[l]
           mine == {r \in flight : r.launch = l}
           P == launch_infos[l].packets
           B == NumKernelBodies[launch_infos[l].kernel]
           c == count_requests[l]
<1>1. /\ l \in DOMAIN launch_infos /\ P \in Nat \ {0} /\ B \in Nat \ {0}
      /\ c \in Nat /\ total_requests[l] = 2 + B * P
      /\ RequestOf(f, l) /\ f.launch = l
  BY LaunchShapeType DEF LaunchOK, RequestCount, RequestOf, TypeOK
<1>2. IsFiniteSet(mine) /\ Cardinality(mine) \in Nat
  BY FS_Subset, FS_CardinalityType
<1>3. c + Cardinality(mine) = NumBefore(f, l)
  BY DEF LaunchOK
<1>4. SUFFICES ASSUME NumBefore(f, l) <= c PROVE mine = {}
  <2>1. CASE f.type = "INITIALIZER"
    BY <1>1, <1>4, <2>1 DEF NumBefore
  <2>2. CASE f.type = "FINALIZER"
    <3>1. c = (2 + B * P) - 1
      BY <1>1, <2>2 DEF check_can_issue
    <3>2. NumBefore(f, l) = 1 + B * P
      BY <2>2 DEF NumBefore
    <3>3. NumBefore(f, l) <= c
      BY <1>1, <3>1, <3>2
    <3> QED
      BY <1>4, <3>3
  <2>3. CASE f.type = "KERNEL_BODY"
    <3>1. CASE f.packet > 0
      BY <2>3, <3>1 DEF LaunchOK
    <3>2. CASE ~(f.packet > 0)
      <4>1. f.packet = 0 /\ f.body \in Nat
        BY <1>1, <3>2 DEF RequestOf, Request
      <4>2. c # 0 /\ f.body = (c - 1) \div (((2 + B * P) - 2) \div B)
        BY <1>1, <2>3 DEF check_can_issue
      <4>3. f.body * P <= c - 1
        BY <1>1, <4>1, <4>2, PerBody, BodiesFinished, ZenonT(40)
      <4>4. NumBefore(f, l) = 1 + f.body * P + 0
        BY <2>3, <4>1 DEF NumBefore
      <4>5. NumBefore(f, l) <= c
        BY <1>1, <4>1, <4>3, <4>4
      <4> QED
        BY <1>4, <4>5
    <3> QED
      BY <3>1, <3>2
  <2> QED
    BY <1>1, <2>1, <2>2, <2>3 DEF RequestOf, Request
<1>5. NumBefore(f, l) \in Nat
  BY <1>1, FollowingStep DEF LaunchOK
<1>6. Cardinality(mine) = 0
  BY <1>1, <1>2, <1>3, <1>4, <1>5
<1> QED
  BY <1>2, <1>6, FS_EmptySet

\* Popping the front of an issuable launch and putting it in flight keeps
\* every launch consistent.
LEMMA PushPreservesFlow ==
    ASSUME TypeOK, NEW queue \in Seq(LaunchIds), NEW active \in SUBSET LaunchIds,
           NEW fronts \in FrontsType, NEW flight \in SUBSET Request,
           FlowOK(queue, active, fronts, flight),
           NEW l \in Issuable(active, fronts)
    PROVE  /\ Pop(fronts, {l}) \in FrontsType
           /\ flight \cup {fronts[l]} \in SUBSET Request
           /\ FlowOK(queue, active, Pop(fronts, {l}), flight \cup {fronts[l]})
<1> DEFINE f == fronts[l]
           mine == {r \in flight : r.launch = l}
           fronts2 == Pop(fronts, {l})
           flight2 == flight \cup {f}
           mine2 == {r \in flight2 : r.launch = l}
<1>1. l \in active /\ l \in LaunchIds /\ f # NoRequest /\ check_can_issue(f)
  BY DEF Issuable
<1>2. LaunchOK(l, fronts, flight) /\ IsFiniteSet(flight)
  BY <1>1 DEF FlowOK
<1>3. /\ RequestOf(f, l) /\ f \in Request /\ f.launch = l
      /\ l \in DOMAIN launch_infos /\ launch_infos[l].packets > 0
  BY <1>1, <1>2 DEF LaunchOK, RequestOf
<1>4. /\ Following(f) = NoRequest \/ RequestOf(Following(f), l)
      /\ NumBefore(f, l) \in Nat
      /\ NumBefore(Following(f), l) = NumBefore(f, l) + 1
      /\ ~Before(f, f)
      /\ Before(f, Following(f))
      /\ \A r \in Request : Before(r, f) => Before(r, Following(f))
  BY <1>3, FollowingStep
<1>5. /\ fronts2 \in FrontsType /\ fronts2[l] = Following(f)
      /\ \A m \in LaunchIds : m # l => fronts2[m] = fronts[m]
  BY <1>1, <1>4 DEF Pop, FrontsType, RequestOf
<1>6. f \notin mine /\ mine2 = mine \cup {f} /\ mine \subseteq flight
  BY <1>2, <1>3, <1>4 DEF LaunchOK
<1>7. IsFiniteSet(mine) /\ Cardinality(mine) \in Nat /\ IsFiniteSet(flight2)
  BY <1>2, <1>6, FS_Subset, FS_CardinalityType, FS_AddElement
<1>8. Cardinality(mine2) = Cardinality(mine) + 1
  BY <1>6, <1>7, FS_AddElement, ZenonT(40)
<1>9. \A r \in mine : r.type = f.type /\ r.body = f.body
  BY <1>1, <1>2, IssueInPhase
<1>10. LaunchOK(l, fronts2, flight2)
  <2>1. count_requests[l] + Cardinality(mine2) = NumBefore(fronts2[l], l)
    <3>1. count_requests[l] + Cardinality(mine) = NumBefore(f, l)
      BY <1>2 DEF LaunchOK
    <3>2. count_requests[l] \in Nat
      BY <1>1 DEF TypeOK
    <3> QED
      BY <1>4, <1>5, <1>7, <1>8, <3>1, <3>2
  <2>2. \A r \in mine2 : RequestOf(r, l) /\ Before(r, fronts2[l])
    <3>1. \A r \in mine : RequestOf(r, l) /\ Before(r, f) /\ r \in Request
      BY <1>2, Zenon DEF LaunchOK, RequestOf
    <3> QED
      BY <1>3, <1>4, <1>5, <1>6, <3>1, Zenon
  <2>3. \A r, s \in mine2 : r.type = s.type /\ r.body = s.body
    BY <1>6, <1>9
  <2>4. fronts2[l].type = "KERNEL_BODY" /\ fronts2[l].packet > 0 =>
            \A r \in mine2 : r.type = "KERNEL_BODY" /\ r.body = fronts2[l].body
    <3>1. SUFFICES ASSUME fronts2[l].type = "KERNEL_BODY", fronts2[l].packet > 0
                   PROVE  f.type = "KERNEL_BODY" /\ f.body = fronts2[l].body
      BY <1>6, <1>9
    <3> QED
      BY <1>3, <1>5, <3>1 DEF Following, KernelBody, Finalizer, NoRequest
  <2>5. fronts2[l] = NoRequest => Finalizer(l) \in mine2
    <3>1. SUFFICES ASSUME fronts2[l] = NoRequest PROVE f = Finalizer(l)
      BY <1>6
    <3>2. f.type = "FINALIZER"
      BY <1>3, <1>5, <3>1 DEF Following, KernelBody, Finalizer, NoRequest, RequestOf, Request
    <3> QED
      BY <1>3, <3>2 DEF Finalizer, RequestOf, Request
  <2> QED
    BY <1>2, <1>4, <1>5, <2>1, <2>2, <2>3, <2>4, <2>5, Zenon DEF LaunchOK
<1>11. ASSUME NEW m \in LaunchIds, m # l
       PROVE  {r \in flight2 : r.launch = m} = {r \in flight : r.launch = m}
  BY <1>3, <1>11
<1>12. ASSUME NEW m \in LaunchIds, m # l
       PROVE  /\ LaunchOK(m, fronts, flight) => LaunchOK(m, fronts2, flight2)
              /\ IdleOK(m, fronts, flight) => IdleOK(m, fronts2, flight2)
  BY <1>5, <1>11, <1>12, Zenon DEF LaunchOK, IdleOK
<1>13. QueueOK(queue, active, fronts2)
  <2>1. SUFFICES ASSUME NEW i \in 1..Len(queue)
                 PROVE  fronts2[queue[i]] = Initializer(queue[i])
    BY Zenon DEF QueueOK, FlowOK
  <2>2. queue[i] \notin active /\ fronts[queue[i]] = Initializer(queue[i])
    BY <2>1 DEF FlowOK, QueueOK
  <2>3. queue[i] \in LaunchIds
    BY <2>1
  <2> QED
    BY <1>1, <1>5, <2>2, <2>3, Zenon
<1>14. flight2 \in SUBSET Request
  BY <1>3
<1> QED
  BY <1>1, <1>5, <1>7, <1>10, <1>12, <1>13, <1>14, ZenonT(40) DEF FlowOK
-----------------------------------------------------------------------------
(* The choice of a launch.                                                 *)

\* get_next_launch_id returns -1 exactly when nothing can be issued, and
\* otherwise an active launch whose front can be.
LEMMA NextLaunchId ==
    ASSUME NEW active \in SUBSET LaunchIds, NEW fronts
    PROVE  \/ Issuable(active, fronts) = {} /\ get_next_launch_id(active, fronts) = -1
           \/ /\ get_next_launch_id(active, fronts) \in Issuable(active, fronts)
              /\ get_next_launch_id(active, fronts) # -1
<1>1. LaunchIds \subseteq Nat
  BY BoundsAssumption DEF LaunchIds
<1>2. Issuable(active, fronts) \subseteq active
  BY DEF Issuable
<1>3. Issuable(active, fronts) \in SUBSET Nat
  BY <1>1, <1>2, Zenon
<1>4. -1 \notin Nat
  OBVIOUS
<1>5. Issuable(active, fronts) # {} =>
        Min(Issuable(active, fronts)) \in Issuable(active, fronts)
  BY <1>3, MinOfNaturals
<1> QED
  BY <1>3, <1>4, <1>5 DEF get_next_launch_id

\* One iteration of generate_uthreads pushes nothing, or the front of an
\* issuable launch, a kernel body.
LEMMA UthreadPushCases ==
    ASSUME NEW active \in SUBSET LaunchIds, NEW fronts
    PROVE  \/ UthreadPush(active, fronts) = {}
           \/ \E l \in Issuable(active, fronts) :
                 /\ UthreadPush(active, fronts) = {l}
                 /\ fronts[l].type = "KERNEL_BODY"
  BY NextLaunchId DEF UthreadPush

\* cycle() pushes nothing, or the front of an issuable launch.
LEMMA EndPushCases ==
    ASSUME NEW active \in SUBSET LaunchIds, NEW fronts
    PROVE  \/ EndPush(active, fronts) = {}
           \/ \E l \in Issuable(active, fronts) : EndPush(active, fronts) = {l}
  BY NextLaunchId DEF EndPush

\* A pop of no launch leaves the deques as they are.
LEMMA PopNothing ==
    ASSUME NEW fronts \in FrontsType
    PROVE  Pop(fronts, {}) = fronts
  BY DEF Pop, FrontsType

\* Either kind of push, or none, keeps the launches consistent.
LEMMA PushSetPreservesFlow ==
    ASSUME TypeOK, NEW queue \in Seq(LaunchIds), NEW active \in SUBSET LaunchIds,
           NEW fronts \in FrontsType, NEW flight \in SUBSET Request,
           FlowOK(queue, active, fronts, flight),
           NEW ids, ids = {} \/ \E l \in Issuable(active, fronts) : ids = {l}
    PROVE  /\ Pop(fronts, ids) \in FrontsType
           /\ flight \cup Pushed(fronts, ids) \in SUBSET Request
           /\ FlowOK(queue, active, Pop(fronts, ids),
                     flight \cup Pushed(fronts, ids))
<1>1. CASE ids = {}
  <2>1. flight \cup Pushed(fronts, ids) = flight
    BY <1>1 DEF Pushed
  <2> QED
    BY <1>1, <2>1, PopNothing, Zenon
<1>2. CASE \E l \in Issuable(active, fronts) : ids = {l}
  <2>1. PICK l \in Issuable(active, fronts) : ids = {l}
    BY <1>2
  <2>2. Pushed(fronts, ids) = {fronts[l]}
    BY <2>1 DEF Pushed
  <2> QED
    BY <2>1, <2>2, PushPreservesFlow, Zenon
<1> QED
  BY <1>1, <1>2

-----------------------------------------------------------------------------
(* Activation.                                                             *)

\* Moving the head of the queue into the active set loses no launch.
LEMMA ActivationPreservesFlow ==
    ASSUME TypeOK, NEW queue \in Seq(LaunchIds), NEW active \in SUBSET LaunchIds,
           NEW fronts \in FrontsType, NEW flight \in SUBSET Request,
           FlowOK(queue, active, fronts, flight), queue # <<>>
    PROVE  /\ Tail(queue) \in Seq(LaunchIds)
           /\ Head(queue) \in LaunchIds
           /\ fronts[Head(queue)] = Initializer(Head(queue))
           /\ FlowOK(Tail(queue), active \cup {Head(queue)}, fronts, flight)
<1> DEFINE h == Head(queue)
           t == Tail(queue)
<1>1. /\ h = queue[1] /\ 1 \in 1..Len(queue) /\ t \in Seq(LaunchIds) /\ h \in LaunchIds
      /\ Len(t) = Len(queue) - 1
      /\ \A i \in 1..Len(t) : t[i] = queue[i + 1] /\ i + 1 \in 1..Len(queue)
  OBVIOUS
<1>2. fronts[h] = Initializer(h)
  BY <1>1 DEF FlowOK, QueueOK
<1>3. QueueOK(t, active \cup {h}, fronts)
  <2>1. SUFFICES ASSUME NEW i \in 1..Len(t)
                 PROVE  /\ t[i] \notin active \cup {h}
                        /\ fronts[t[i]] = Initializer(t[i])
                        /\ \A j \in 1..Len(t) : t[i] = t[j] => i = j
    BY DEF QueueOK
  <2>2. /\ i + 1 \in 1..Len(queue) /\ t[i] = queue[i + 1] /\ i + 1 # 1
        /\ \A j \in 1..Len(t) : t[j] = queue[j + 1] /\ j + 1 \in 1..Len(queue)
    BY <1>1
  <2>3. QueueOK(queue, active, fronts)
    BY DEF FlowOK
  <2> QED
    BY <1>1, <2>2, <2>3 DEF QueueOK
<1>4. ASSUME NEW l \in LaunchIds
      PROVE  (l \in active \/ \E i \in 1..Len(queue) : queue[i] = l)
                <=> (l \in active \cup {h} \/ \E i \in 1..Len(t) : t[i] = l)
  <2>1. ASSUME NEW i \in 1..Len(queue), queue[i] = l, i # 1
        PROVE  \E j \in 1..Len(t) : t[j] = l
    <3>1. i - 1 \in 1..Len(t) /\ t[i - 1] = queue[(i - 1) + 1] /\ (i - 1) + 1 = i
      BY <1>1, <2>1
    <3> QED
      BY <2>1, <3>1
  <2> QED
    BY <1>1, <2>1
<1> QED
  BY <1>1, <1>2, <1>3, <1>4 DEF FlowOK
-----------------------------------------------------------------------------
(* The inductive invariant: initial states and one lemma per action.       *)

\* The inductive invariant holds of a generator just constructed.
LEMMA InitIInv == Init => IInv
<1> SUFFICES ASSUME Init PROVE IInv
  OBVIOUS
<1>1. LaunchIds \subseteq Nat
  BY BoundsAssumption DEF LaunchIds
<1>2. TypeOK
  <2>1. launch_infos \in [{} -> KernelLaunchInfo] /\ DOMAIN launch_infos = {}
    BY DEF Init
  <2>2. 0 \in 0..MaxLaunches /\ launch_queue \in Seq(LaunchIds)
    BY BoundsAssumption DEF Init
  <2> QED
    BY <2>1, <2>2, Zenon DEF Init, TypeOK
<1>3. IsFiniteSet(in_flight)
  BY FS_EmptySet DEF Init
<1>4. QueueOK(launch_queue, active_launch_ids, generated_requests)
  BY DEF Init, QueueOK
<1>5. \A l \in LaunchIds : IdleOK(l, generated_requests, in_flight)
  BY <1>1 DEF Init, IdleOK
<1>6. FlowOK(launch_queue, active_launch_ids, generated_requests, in_flight)
  BY <1>3, <1>4, <1>5 DEF FlowOK, Init
<1> QED
  BY <1>2, <1>6 DEF IInv, LaunchedFlagReleasable, Init

\* Steps that change only the queue, the active set, the deques and the
\* requests in flight: the counters and the launches are as before.
LEMMA FlowFrame ==
    ASSUME NEW q, NEW a, NEW f, NEW fl, FlowOK(q, a, f, fl),
           UNCHANGED <<next_launch_id, launch_infos, total_requests, count_requests>>,
           launch_queue' = q, active_launch_ids' = a,
           generated_requests' = f, in_flight' = fl
    PROVE  FlowOK(launch_queue, active_launch_ids, generated_requests, in_flight)'
<1>1. \A l : LaunchOK(l, f, fl) => LaunchOK(l, generated_requests, in_flight)'
  BY DEF LaunchOK, RequestOf, NumBefore, RequestCount
<1>2. \A l : IdleOK(l, f, fl) => IdleOK(l, generated_requests, in_flight)'
  BY DEF IdleOK
<1>3. QueueOK(launch_queue, active_launch_ids, generated_requests)'
  BY DEF QueueOK, FlowOK
<1> QED
  BY <1>1, <1>2, <1>3 DEF FlowOK

\* Steps that touch neither the launches nor the requests.
LEMMA FrameIInv ==
    ASSUME IInv, TypeOK',
           UNCHANGED <<next_launch_id, launch_infos, launch_queue, active_launch_ids,
                       generated_requests, total_requests, count_requests,
                       launched, in_flight>>
    PROVE  IInv'
<1>1. FlowOK(launch_queue, active_launch_ids, generated_requests, in_flight)'
  BY FlowFrame DEF IInv
<1> QED
  BY <1>1 DEF IInv, LaunchedFlagReleasable

\* register_kernel preserves the invariant.
LEMMA RegisterIInv ==
    ASSUME IInv, NEW k \in KernelIds, register_kernel(k)
    PROVE  IInv'
<1>1. TypeOK'
  BY DEF IInv, TypeOK, register_kernel
<1> QED
  BY <1>1, FrameIInv DEF register_kernel

\* Entering the loop of generate_uthreads preserves the invariant.
LEMMA GenerateIInv ==
    ASSUME IInv, NEW n \in {1, CoarseThreads}, generate_uthreads(n)
    PROVE  IInv'
<1>1. TypeOK'
  BY SizesAssumption DEF IInv, TypeOK, generate_uthreads
<1> QED
  BY <1>1, FrameIInv DEF generate_uthreads

\* One iteration of the loop of generate_uthreads preserves the invariant.
LEMMA GenerateUthreadIInv ==
    ASSUME IInv, generate_uthread
    PROVE  IInv'
<1> DEFINE ids == UthreadPush(active_launch_ids, generated_requests)
           fronts == Pop(generated_requests, ids)
           flight == in_flight \cup Pushed(generated_requests, ids)
<1>1. /\ TypeOK /\ generated_requests \in FrontsType /\ in_flight \in SUBSET Request
      /\ active_launch_ids \in SUBSET LaunchIds /\ launch_queue \in Seq(LaunchIds)
      /\ FlowOK(launch_queue, active_launch_ids, generated_requests, in_flight)
  BY DEF IInv, TypeOK, FrontsType
<1>2. ids = {} \/ \E l \in Issuable(active_launch_ids, generated_requests) : ids = {l}
  BY <1>1, UthreadPushCases
<1>3. /\ fronts \in FrontsType /\ flight \in SUBSET Request
      /\ FlowOK(launch_queue, active_launch_ids, fronts, flight)
  BY <1>1, <1>2, PushSetPreservesFlow, ZenonT(40)
<1>4. generated_requests' = fronts /\ in_flight' = flight
  BY DEF generate_uthread, Iterating
<1>5. TypeOK'
  BY <1>1, <1>3, <1>4 DEF TypeOK, FrontsType, generate_uthread, Iterating
<1>6. FlowOK(launch_queue, active_launch_ids, generated_requests, in_flight)'
  BY <1>3, <1>4, FlowFrame DEF generate_uthread, Iterating
<1>7. LaunchedFlagReleasable'
  <2>1. SUFFICES ASSUME launched
                 PROVE  \E l \in active_launch_ids : fronts[l].type = "INITIALIZER"
    BY <1>4 DEF LaunchedFlagReleasable, generate_uthread, Iterating
  <2>2. PICK l \in active_launch_ids : generated_requests[l].type = "INITIALIZER"
    BY <2>1 DEF IInv, LaunchedFlagReleasable
  <2>3. l \notin ids
    BY <1>1, <2>2, UthreadPushCases
  <2> QED
    BY <1>1, <2>2, <2>3 DEF Pop
<1> QED
  BY <1>5, <1>6, <1>7 DEF IInv

\* check_kernel_launch activates nothing, or the head of the queue.
LEMMA CheckKernelLaunchCases ==
    ASSUME NEW infos, NEW queue
    PROVE  \/ /\ check_kernel_launch(infos, queue) = {}
              /\ StillQueued(infos, queue) = queue
           \/ /\ queue # <<>>
              /\ check_kernel_launch(infos, queue) = {Head(queue)}
              /\ StillQueued(infos, queue) = Tail(queue)
<1>1. \/ check_kernel_launch(infos, queue) = {}
      \/ queue # <<>> /\ check_kernel_launch(infos, queue) = {Head(queue)}
  BY Zenon DEF check_kernel_launch
<1> QED
  BY <1>1 DEF StillQueued

\* check_kernel_launch moves the head of the queue to the active launches, or
\* does nothing.
LEMMA ActivateFlow ==
    ASSUME TypeOK, NEW infos,
           FlowOK(launch_queue, active_launch_ids, generated_requests, in_flight)
    PROVE  LET new == check_kernel_launch(infos, launch_queue)
               queue == StillQueued(infos, launch_queue)
               active == active_launch_ids \cup new
           IN  /\ queue \in Seq(LaunchIds) /\ active \in SUBSET LaunchIds
               /\ FlowOK(queue, active, generated_requests, in_flight)
               /\ new # {} => \E l \in active :
                                 generated_requests[l].type = "INITIALIZER"
<1> DEFINE new == check_kernel_launch(infos, launch_queue)
           queue == StillQueued(infos, launch_queue)
           active == active_launch_ids \cup new
<1>1. /\ generated_requests \in FrontsType /\ in_flight \in SUBSET Request
      /\ active_launch_ids \in SUBSET LaunchIds /\ launch_queue \in Seq(LaunchIds)
  BY DEF TypeOK, FrontsType
<1>2. CASE new = {} /\ queue = launch_queue
  <2>1. active = active_launch_ids
    BY <1>2
  <2> QED
    BY <1>1, <1>2, <2>1
<1>3. CASE launch_queue # <<>> /\ new = {Head(launch_queue)} /\ queue = Tail(launch_queue)
  <2>1. /\ Tail(launch_queue) \in Seq(LaunchIds) /\ Head(launch_queue) \in LaunchIds
        /\ generated_requests[Head(launch_queue)] = Initializer(Head(launch_queue))
        /\ FlowOK(Tail(launch_queue), active_launch_ids \cup {Head(launch_queue)},
                  generated_requests, in_flight)
    BY <1>1, <1>3, ActivationPreservesFlow
  <2>2. generated_requests[Head(launch_queue)].type = "INITIALIZER"
    BY <2>1 DEF Initializer
  <2> QED
    BY <1>1, <1>3, <2>1, <2>2
<1> QED
  BY <1>2, <1>3, CheckKernelLaunchCases

\* cycle() preserves the invariant: an activation, then up to two pushes.
LEMMA CycleIInv ==
    ASSUME IInv, cycle
    PROVE  IInv'
<1> DEFINE new == check_kernel_launch(launch_infos, launch_queue)
           queue == StillQueued(launch_infos, launch_queue)
           active == active_launch_ids \cup new
           uthreads == IF CoarseGrained \/ ScWork THEN {}
                       ELSE UthreadPush(active, generated_requests)
           fronts == Pop(generated_requests, uthreads)
           flight == in_flight \cup Pushed(generated_requests, uthreads)
           ends == EndPush(active, fronts)
           fronts2 == Pop(fronts, ends)
           flight2 == flight \cup Pushed(fronts, ends)
<1>1. /\ TypeOK /\ generated_requests \in FrontsType /\ in_flight \in SUBSET Request
      /\ active_launch_ids \in SUBSET LaunchIds /\ launch_queue \in Seq(LaunchIds)
      /\ FlowOK(launch_queue, active_launch_ids, generated_requests, in_flight)
  BY DEF IInv, TypeOK, FrontsType
<1>2. /\ queue \in Seq(LaunchIds) /\ active \in SUBSET LaunchIds
      /\ FlowOK(queue, active, generated_requests, in_flight)
      /\ new # {} => \E l \in active : generated_requests[l].type = "INITIALIZER"
  BY <1>1, ActivateFlow, Zenon
<1>3. \/ uthreads = {}
      \/ \E l \in Issuable(active, generated_requests) :
            uthreads = {l} /\ generated_requests[l].type = "KERNEL_BODY"
  BY <1>2, UthreadPushCases, ZenonT(40)
<1>4. /\ fronts \in FrontsType /\ flight \in SUBSET Request
      /\ FlowOK(queue, active, fronts, flight)
  <2> HIDE DEF queue, active, uthreads
  <2>1. uthreads = {} \/ \E l \in Issuable(active, generated_requests) : uthreads = {l}
    BY <1>3
  <2> QED
    BY <1>1, <1>2, <2>1, PushSetPreservesFlow, Zenon
<1>5. ends = {} \/ \E l \in Issuable(active, fronts) : ends = {l}
  <2> HIDE DEF active, fronts
  <2> QED
    BY <1>2, EndPushCases
<1>6. /\ fronts2 \in FrontsType /\ flight2 \in SUBSET Request
      /\ FlowOK(queue, active, fronts2, flight2)
  <2> HIDE DEF queue, active, fronts, flight, ends
  <2> QED
    BY <1>1, <1>2, <1>4, <1>5, PushSetPreservesFlow, Zenon
<1>7. /\ launch_queue' = queue /\ active_launch_ids' = active
      /\ generated_requests' = fronts2 /\ in_flight' = flight2
      /\ UNCHANGED <<next_launch_id, launch_infos, total_requests, count_requests,
                     registered_functions, threads>>
  BY DEF cycle, LaunchedAfter
<1>8. FlowOK(launch_queue, active_launch_ids, generated_requests, in_flight)'
  <2> HIDE DEF queue, active, fronts2, flight2
  <2> QED
    BY <1>6, <1>7, FlowFrame
<1>9. launched' = FALSE
  <2>1. launched' = (/\ active # {}
                     /\ get_next_launch_id(active, fronts) = -1
                     /\ launched \/ new # {})
    BY DEF cycle, LaunchedAfter
  <2>2. SUFFICES ASSUME launched \/ new # {}
                 PROVE  get_next_launch_id(active, fronts) # -1
    BY <2>1
  <2>3. PICK l \in active : generated_requests[l].type = "INITIALIZER"
    BY <1>2, <2>2 DEF IInv, LaunchedFlagReleasable
  <2>4. l \notin uthreads /\ l \in LaunchIds
    <3> HIDE DEF active, uthreads
    <3> QED
      BY <1>2, <1>3, <2>3
  <2>5. fronts[l] = generated_requests[l]
    BY <2>4 DEF Pop
  <2>6. l \in Issuable(active, fronts)
    <3>1. PICK f : f = fronts[l]
      OBVIOUS
    <3>2. f.type = "INITIALIZER"
      BY <2>3, <2>5, <3>1
    <3>3. f # NoRequest
      BY <3>2 DEF NoRequest
    <3>4. check_can_issue(f)
      BY <3>2 DEF check_can_issue
    <3> HIDE DEF active, fronts
    <3> QED
      BY <2>3, <3>1, <3>3, <3>4 DEF Issuable
  <2> HIDE DEF active, fronts
  <2> QED
    BY <1>2, <2>6, NextLaunchId
<1>10. TypeOK'
  <2> HIDE DEF queue, active, fronts2, flight2
  <2> QED
    BY <1>1, <1>2, <1>6, <1>7, <1>9, Zenon DEF TypeOK, FrontsType
<1> QED
  BY <1>8, <1>9, <1>10 DEF IInv, LaunchedFlagReleasable

\* A context that is not a FINALIZER comes back.
LEMMA CountedIInv ==
    ASSUME IInv, NEW r \in in_flight, r.type # "FINALIZER", handle_finished_context(r)
    PROVE  IInv'
<1> DEFINE l == r.launch
           mine == {q \in in_flight : q.launch = l}
           mine2 == {q \in in_flight \ {r} : q.launch = l}
<1>1. /\ TypeOK /\ r \in Request /\ l \in LaunchIds
      /\ FlowOK(launch_queue, active_launch_ids, generated_requests, in_flight)
  BY DEF IInv, TypeOK, Request
<1>2. /\ in_flight' = in_flight \ {r}
      /\ count_requests' = [count_requests EXCEPT ![l] = @ + 1]
      /\ UNCHANGED <<next_launch_id, registered_functions, launch_infos, launch_queue,
                     active_launch_ids, generated_requests, total_requests, launched,
                     threads>>
  BY DEF handle_finished_context, increase_count
<1>3. TypeOK'
  BY <1>1, <1>2 DEF TypeOK
<1>4. ~IdleOK(l, generated_requests, in_flight)
  BY DEF IdleOK
<1>5. LaunchOK(l, generated_requests, in_flight)
  BY <1>1, <1>4 DEF FlowOK
<1>6. /\ IsFiniteSet(mine) /\ Cardinality(mine) \in Nat
      /\ mine2 = mine \ {r} /\ r \in mine
      /\ Cardinality(mine2) = Cardinality(mine) - 1
  <2>1. IsFiniteSet(mine) /\ mine2 = mine \ {r} /\ r \in mine
    BY <1>1, FS_Subset, Zenon DEF FlowOK
  <2> QED
    BY <2>1, FS_CardinalityType, FS_RemoveElement, ZenonT(40)
<1>7. LaunchOK(l, generated_requests, in_flight)'
  <2>1. count_requests'[l] + Cardinality(mine2) = NumBefore(generated_requests[l], l)
    <3>1. count_requests[l] \in Nat /\ count_requests'[l] = count_requests[l] + 1
      BY <1>1, <1>2 DEF TypeOK
    <3>2. count_requests[l] + Cardinality(mine) = NumBefore(generated_requests[l], l)
      BY <1>5, Zenon DEF LaunchOK
    <3> HIDE DEF mine, mine2
    <3>3. PICK k, k2 : k \in Nat /\ k = Cardinality(mine) /\ k2 = Cardinality(mine2)
      BY <1>6, Zenon
    <3>4. k2 = k - 1
      BY <1>6, <3>3, Zenon
    <3>5. count_requests[l] + k = NumBefore(generated_requests[l], l)
      BY <3>2, <3>3, Zenon
    <3>6. k \in Nat
      BY <3>3, Zenon
    <3>7. count_requests'[l] + k2 = NumBefore(generated_requests[l], l)
      BY <3>1, <3>4, <3>5, <3>6
    <3> QED
      BY <3>3, <3>7, Zenon
  <2>2. generated_requests[l] = NoRequest => Finalizer(l) \in mine2
    <3>1. generated_requests[l] = NoRequest =>
            Finalizer(l) \in mine /\ r.type = Finalizer(l).type
      BY <1>5, <1>6, ZenonT(40) DEF LaunchOK
    <3> QED
      BY <1>6, <3>1 DEF Finalizer
  <2>3. mine2 = {q \in in_flight' : q.launch = l}
    BY <1>2
  <2>4. NumBefore(generated_requests[l], l)' = NumBefore(generated_requests[l], l)
    BY <1>2 DEF NumBefore
  <2>5. \A q : RequestOf(q, l)' <=> RequestOf(q, l)
    BY <1>2 DEF RequestOf
  <2> QED
    BY <1>2, <1>5, <1>6, <2>1, <2>2, <2>3, <2>4, <2>5, ZenonT(40) DEF LaunchOK, RequestCount
<1>8. ASSUME NEW m \in LaunchIds, m # l
      PROVE  /\ LaunchOK(m, generated_requests, in_flight)
                  => LaunchOK(m, generated_requests, in_flight)'
             /\ IdleOK(m, generated_requests, in_flight)
                  => IdleOK(m, generated_requests, in_flight)'
  <2>1. {q \in in_flight : q.launch = m}' = {q \in in_flight : q.launch = m}
    BY <1>2, <1>8
  <2>2. count_requests'[m] = count_requests[m]
    BY <1>1, <1>2, <1>8 DEF TypeOK
  <2>3. \A q : NumBefore(q, m)' = NumBefore(q, m)
    BY <1>2 DEF NumBefore
  <2>4. \A q : RequestOf(q, m)' <=> RequestOf(q, m)
    BY <1>2 DEF RequestOf
  <2> QED
    BY <1>2, <2>1, <2>2, <2>3, <2>4, ZenonT(40) DEF LaunchOK, IdleOK, RequestCount
<1>9. IsFiniteSet(in_flight')
  BY <1>1, <1>2, FS_RemoveElement DEF FlowOK
<1>10. QueueOK(launch_queue, active_launch_ids, generated_requests)'
  BY <1>1, <1>2 DEF QueueOK, FlowOK
<1>11. FlowOK(launch_queue, active_launch_ids, generated_requests, in_flight)'
  BY <1>1, <1>2, <1>4, <1>7, <1>8, <1>9, <1>10, Zenon DEF FlowOK
<1> QED
  BY <1>2, <1>3, <1>11 DEF IInv, LaunchedFlagReleasable

\* A step that leaves alone everything LaunchOK reads of a launch keeps it.
LEMMA SameLaunch ==
    ASSUME NEW m, LaunchOK(m, generated_requests, in_flight),
           m < next_launch_id', m \in DOMAIN launch_infos',
           launch_infos'[m] = launch_infos[m],
           total_requests'[m] = total_requests[m],
           count_requests'[m] = count_requests[m],
           generated_requests'[m] = generated_requests[m],
           {q \in in_flight' : q.launch = m} = {q \in in_flight : q.launch = m}
    PROVE  LaunchOK(m, generated_requests, in_flight)'
<1>1. PICK f, mine : f = generated_requests[m] /\ mine = {q \in in_flight : q.launch = m}
  BY Zenon
<1>2. generated_requests'[m] = f /\ {q \in in_flight' : q.launch = m} = mine
  BY <1>1
<1>3. /\ \A q : NumBefore(q, m)' = NumBefore(q, m)
      /\ \A q : RequestOf(q, m)' <=> RequestOf(q, m)
      /\ RequestCount(launch_infos'[m]) = RequestCount(launch_infos[m])
  BY DEF NumBefore, RequestOf
<1>4. /\ launch_infos[m].packets > 0
      /\ total_requests[m] = RequestCount(launch_infos[m])
      /\ f = NoRequest \/ RequestOf(f, m)
      /\ count_requests[m] + Cardinality(mine) = NumBefore(f, m)
      /\ \A r \in mine : RequestOf(r, m) /\ Before(r, f)
      /\ \A r, s \in mine : r.type = s.type /\ r.body = s.body
      /\ f.type = "KERNEL_BODY" /\ f.packet > 0 =>
           \A r \in mine : r.type = "KERNEL_BODY" /\ r.body = f.body
      /\ f = NoRequest => Finalizer(m) \in mine
  BY <1>1, Zenon DEF LaunchOK
<1>5. /\ launch_infos'[m].packets > 0
      /\ total_requests'[m] = RequestCount(launch_infos'[m])
      /\ f = NoRequest \/ RequestOf(f, m)'
      /\ count_requests'[m] + Cardinality(mine) = NumBefore(f, m)'
      /\ \A r \in mine : RequestOf(r, m)' /\ Before(r, f)
  BY <1>3, <1>4
<1> QED
  BY <1>2, <1>4, <1>5, Zenon DEF LaunchOK

\* A FINALIZER comes back: it was the last request of its launch in flight.
LEMMA FinishedIInv ==
    ASSUME IInv, NEW r \in in_flight, r.type = "FINALIZER", handle_finished_context(r)
    PROVE  IInv'
<1> DEFINE l == r.launch
           mine == {q \in in_flight : q.launch = l}
<1>1. /\ TypeOK /\ r \in Request /\ l \in LaunchIds
      /\ FlowOK(launch_queue, active_launch_ids, generated_requests, in_flight)
  BY DEF IInv, TypeOK, Request
<1>2. /\ in_flight' = in_flight \ {r}
      /\ active_launch_ids' = active_launch_ids \ {l}
      /\ total_requests' = [total_requests EXCEPT ![l] = 0]
      /\ count_requests' = [count_requests EXCEPT ![l] = 1]
      /\ launch_infos' = [i \in DOMAIN launch_infos \ {l} |-> launch_infos[i]]
      /\ UNCHANGED <<next_launch_id, registered_functions, launch_queue,
                     generated_requests, launched, threads>>
  BY DEF handle_finished_context, increase_count
<1>3. /\ DOMAIN launch_infos' = DOMAIN launch_infos \ {l}
      /\ \A i \in DOMAIN launch_infos \ {l} : launch_infos'[i] = launch_infos[i]
  BY <1>2
<1>4. TypeOK'
  BY <1>1, <1>2, <1>3 DEF TypeOK
<1>5. ~IdleOK(l, generated_requests, in_flight)
  BY DEF IdleOK
<1>6. LaunchOK(l, generated_requests, in_flight)
  BY <1>1, <1>5 DEF FlowOK
<1>7. generated_requests[l] = NoRequest
  BY <1>6 DEF LaunchOK, Before
<1>8. \A q \in mine : q = r
  <2>1. \A q \in mine : RequestOf(q, l) /\ q.type = "FINALIZER"
    BY <1>6 DEF LaunchOK
  <2> QED
    BY <2>1 DEF RequestOf, Request
<1>9. \A i \in 1..Len(launch_queue) : launch_queue[i] # l
  <2>1. \A x : Initializer(x) # NoRequest
    BY DEF Initializer, NoRequest
  <2> QED
    BY <1>1, <1>7, <2>1 DEF FlowOK, QueueOK
<1>10. IdleOK(l, generated_requests, in_flight)'
  <2>1. {q \in in_flight' : q.launch = l} = {}
    BY <1>2, <1>8
  <2>2. total_requests'[l] = 0 /\ generated_requests'[l] = NoRequest
    BY <1>1, <1>2, <1>7 DEF TypeOK
  <2>3. l \notin DOMAIN launch_infos'
    BY <1>3
  <2> QED
    BY <2>1, <2>2, <2>3 DEF IdleOK
<1>11. ASSUME NEW m \in LaunchIds, m # l
       PROVE  /\ LaunchOK(m, generated_requests, in_flight)
                   => LaunchOK(m, generated_requests, in_flight)'
              /\ IdleOK(m, generated_requests, in_flight)
                   => IdleOK(m, generated_requests, in_flight)'
  <2>1. {q \in in_flight : q.launch = m}' = {q \in in_flight : q.launch = m}
    BY <1>2, <1>11
  <2>2. count_requests'[m] = count_requests[m] /\ total_requests'[m] = total_requests[m]
    BY <1>1, <1>2, <1>11 DEF TypeOK
  <2>3. ASSUME m \in DOMAIN launch_infos
        PROVE  /\ launch_infos'[m] = launch_infos[m] /\ m \in DOMAIN launch_infos'
    BY <1>3, <1>11, <2>3
  <2>4. LaunchOK(m, generated_requests, in_flight)
          => LaunchOK(m, generated_requests, in_flight)'
    <3> SUFFICES ASSUME LaunchOK(m, generated_requests, in_flight)
                 PROVE  LaunchOK(m, generated_requests, in_flight)'
      OBVIOUS
    <3>1. m \in DOMAIN launch_infos /\ m < next_launch_id'
      BY <1>2 DEF LaunchOK
    <3>2. generated_requests'[m] = generated_requests[m]
      BY <1>2
    <3> HIDE DEF l, mine
    <3> QED
      BY <2>1, <2>2, <2>3, <3>1, <3>2, SameLaunch
  <2>5. IdleOK(m, generated_requests, in_flight)
          => IdleOK(m, generated_requests, in_flight)'
    BY <1>2, <1>3, <2>1, <2>2 DEF IdleOK
  <2> QED
    BY <2>4, <2>5
<1>12. IsFiniteSet(in_flight')
  BY <1>1, <1>2, FS_RemoveElement DEF FlowOK
<1>13. QueueOK(launch_queue, active_launch_ids, generated_requests)'
  BY <1>1, <1>2 DEF QueueOK, FlowOK
<1>14. FlowOK(launch_queue, active_launch_ids, generated_requests, in_flight)'
  BY <1>1, <1>2, <1>9, <1>10, <1>11, <1>12, <1>13, Zenon DEF FlowOK
<1>15. LaunchedFlagReleasable'
  <2>1. generated_requests[l].type # "INITIALIZER"
    BY <1>7 DEF NoRequest
  <2> QED
    BY <1>2, <2>1 DEF IInv, LaunchedFlagReleasable
<1> QED
  BY <1>4, <1>14, <1>15 DEF IInv

\* launch() does not disturb the launches made before it.
LEMMA OlderLaunches ==
    ASSUME TypeOK, NEW l \in LaunchIds, l = next_launch_id,
           next_launch_id' = l + 1,
           \A i \in LaunchIds \ {l} :
              /\ i \in DOMAIN launch_infos' <=> i \in DOMAIN launch_infos
              /\ i \in DOMAIN launch_infos => launch_infos'[i] = launch_infos[i]
              /\ total_requests'[i] = total_requests[i]
              /\ count_requests'[i] = count_requests[i]
              /\ generated_requests'[i] = generated_requests[i],
           in_flight' = in_flight,
           NEW m \in LaunchIds, m # l
    PROVE  /\ LaunchOK(m, generated_requests, in_flight)
                => LaunchOK(m, generated_requests, in_flight)'
           /\ IdleOK(m, generated_requests, in_flight)
                => IdleOK(m, generated_requests, in_flight)'
<1>0. m \in Nat /\ l \in Nat
  BY BoundsAssumption DEF LaunchIds
<1>1. {q \in in_flight' : q.launch = m} = {q \in in_flight : q.launch = m}
  OBVIOUS
<1>2. LaunchOK(m, generated_requests, in_flight)
        => LaunchOK(m, generated_requests, in_flight)'
  <2> SUFFICES ASSUME LaunchOK(m, generated_requests, in_flight)
               PROVE  LaunchOK(m, generated_requests, in_flight)'
    OBVIOUS
  <2>1. m \in DOMAIN launch_infos /\ m < next_launch_id
    BY DEF LaunchOK
  <2>2. m < next_launch_id'
    BY <1>0, <2>1
  <2> QED
    BY <1>1, <2>1, <2>2, SameLaunch
<1>3. IdleOK(m, generated_requests, in_flight)
        => IdleOK(m, generated_requests, in_flight)'
  <2> SUFFICES ASSUME IdleOK(m, generated_requests, in_flight)
               PROVE  IdleOK(m, generated_requests, in_flight)'
    OBVIOUS
  <2>1. /\ generated_requests'[m] = NoRequest /\ total_requests'[m] = 0
        /\ {r \in in_flight' : r.launch = m} = {}
    BY DEF IdleOK
  <2>2. m >= next_launch_id' => m \notin DOMAIN launch_infos'
    BY <1>0 DEF IdleOK
  <2> QED
    BY <2>1, <2>2 DEF IdleOK
<1> QED
  BY <1>2, <1>3

\* The launch queue with a launch added at its end.
LEMMA AppendLaunch ==
    ASSUME NEW q \in Seq(LaunchIds), NEW l \in LaunchIds
    PROVE  /\ Len(Append(q, l)) = Len(q) + 1
           /\ Append(q, l)[Len(q) + 1] = l
           /\ \A i \in 1..Len(q) : Append(q, l)[i] = q[i]
           /\ Len(q) \in Nat
  OBVIOUS

\* A fresh launch id has left no trace.
LEMMA FreshLaunch ==
    ASSUME TypeOK, NEW q, NEW a, NEW l \in LaunchIds, l = next_launch_id,
           FlowOK(q, a, generated_requests, in_flight)
    PROVE  /\ IdleOK(l, generated_requests, in_flight)
           /\ l \notin DOMAIN launch_infos
           /\ l \notin a
           /\ \A i \in 1..Len(q) : q[i] # l
<1>0. l \in Nat
  BY BoundsAssumption DEF LaunchIds
<1>1. ~LaunchOK(l, generated_requests, in_flight)
  <2>1. LaunchOK(l, generated_requests, in_flight) => l < next_launch_id
    BY Zenon DEF LaunchOK
  <2> QED
    BY <1>0, <2>1
<1> QED
  BY <1>0, <1>1 DEF FlowOK, IdleOK

\* A new launch of a registered kernel, queued behind the others or, when
\* the queue was empty, activated at once.
LEMMA NewLaunchFlow ==
    ASSUME TypeOK, NEW q \in Seq(LaunchIds), NEW a \in SUBSET LaunchIds,
           FlowOK(q, a, generated_requests, in_flight),
           NEW l \in LaunchIds, l = next_launch_id, next_launch_id' = l + 1,
           NEW info \in KernelLaunchInfo, info.packets > 0,
           launch_infos' = [i \in DOMAIN launch_infos \cup {l} |->
                              IF i = l THEN info ELSE launch_infos[i]],
           total_requests' = [total_requests EXCEPT ![l] = RequestCount(info)],
           count_requests' = [count_requests EXCEPT ![l] = 0],
           generated_requests' = [generated_requests EXCEPT ![l] = Initializer(l)],
           in_flight' = in_flight,
           \/ launch_queue' = Append(q, l) /\ active_launch_ids' = a
           \/ launch_queue' = q /\ active_launch_ids' = a \cup {l}
    PROVE  FlowOK(launch_queue, active_launch_ids, generated_requests, in_flight)'
<1>1. /\ IdleOK(l, generated_requests, in_flight)
      /\ l \notin DOMAIN launch_infos /\ l \notin a
      /\ \A i \in 1..Len(q) : q[i] # l /\ q[i] \in LaunchIds
  BY FreshLaunch
<1>2. /\ generated_requests'[l] = Initializer(l)
      /\ \A i \in LaunchIds \ {l} : generated_requests'[i] = generated_requests[i]
  BY DEF TypeOK
<1>3. LaunchOK(l, generated_requests, in_flight)'
  <2>1. /\ launch_infos'[l] = info /\ l \in DOMAIN launch_infos'
        /\ total_requests'[l] = RequestCount(info) /\ count_requests'[l] = 0
    BY DEF TypeOK
  <2>2. {r \in in_flight' : r.launch = l} = {} /\ Cardinality({}) = 0
    BY <1>1, FS_EmptySet DEF IdleOK
  <2>4. RequestOf(Initializer(l), l)'
    BY DEF RequestOf, Initializer, Request
  <2>5. /\ Initializer(l) # NoRequest
        /\ Initializer(l).type # "KERNEL_BODY"
    BY DEF Initializer, NoRequest
  <2>6. l \in Nat /\ l < next_launch_id'
    BY BoundsAssumption DEF LaunchIds
  <2>7. RequestCount(info)' = RequestCount(info)
    BY DEF RequestCount
  <2> QED
    <3>1. total_requests'[l] = RequestCount(launch_infos[l])'
      BY <2>1, <2>7
    <3>2. (count_requests'[l] + Cardinality({r \in in_flight' : r.launch = l}))
            = NumBefore(generated_requests[l], l)'
      <4>1. Cardinality({r \in in_flight' : r.launch = l}) = 0
        BY <2>2, Zenon
      <4>2. NumBefore(generated_requests[l], l)' = 0
        BY <1>2 DEF NumBefore, Initializer
      <4> QED
        <5>1. PICK c, k, n : /\ c = count_requests'[l]
                             /\ k = Cardinality({r \in in_flight' : r.launch = l})
                             /\ n = NumBefore(generated_requests[l], l)'
          OBVIOUS
        <5>2. c = 0 /\ k = 0 /\ n = 0
          BY <2>1, <4>1, <4>2, <5>1, Zenon
        <5>3. c + k = n
          BY <5>2
        <5> QED
          BY <5>1, <5>3, Zenon
    <3>3. /\ RequestOf(generated_requests[l], l)'
          /\ generated_requests'[l] # NoRequest
          /\ generated_requests'[l].type # "KERNEL_BODY"
      BY <1>2, <2>4, <2>5
    <3>4. /\ l \in DOMAIN launch_infos' /\ l < next_launch_id'
          /\ launch_infos'[l].packets > 0
      BY <2>1, <2>6
    <3> QED
      BY <2>1, <2>2, <3>1, <3>2, <3>3, <3>4, ZenonT(40) DEF LaunchOK
<1>4. ASSUME NEW m \in LaunchIds, m # l
      PROVE  /\ LaunchOK(m, generated_requests, in_flight)
                  => LaunchOK(m, generated_requests, in_flight)'
             /\ IdleOK(m, generated_requests, in_flight)
                  => IdleOK(m, generated_requests, in_flight)'
  <2>1. \A i \in LaunchIds \ {l} :
           /\ i \in DOMAIN launch_infos' <=> i \in DOMAIN launch_infos
           /\ i \in DOMAIN launch_infos => launch_infos'[i] = launch_infos[i]
           /\ total_requests'[i] = total_requests[i]
           /\ count_requests'[i] = count_requests[i]
           /\ generated_requests'[i] = generated_requests[i]
    BY DEF TypeOK
  <2> QED
    BY <1>4, <2>1, OlderLaunches, ZenonT(40)
<1>5. /\ IsFiniteSet(in_flight') /\ QueueOK(q, a, generated_requests)
  BY Zenon DEF FlowOK
<1>6. CASE launch_queue' = Append(q, l) /\ active_launch_ids' = a
  <2>1. /\ Len(launch_queue') = Len(q) + 1 /\ launch_queue'[Len(q) + 1] = l
        /\ \A i \in 1..Len(q) : launch_queue'[i] = q[i]
        /\ Len(q) \in Nat
    BY <1>6, AppendLaunch, Zenon
  <2>2. QueueOK(launch_queue, active_launch_ids, generated_requests)'
    <3>1. SUFFICES ASSUME NEW i \in 1..(Len(q) + 1)
                   PROVE  /\ launch_queue'[i] \notin a
                          /\ generated_requests'[launch_queue'[i]]
                               = Initializer(launch_queue'[i])
                          /\ \A j \in 1..(Len(q) + 1) :
                                launch_queue'[i] = launch_queue'[j] => i = j
      BY <1>6, <2>1 DEF QueueOK
    <3>2. CASE i = Len(q) + 1
      <4>1. launch_queue'[i] = l
        BY <2>1, <3>2
      <4>2. \A j \in 1..(Len(q) + 1) : j # i => launch_queue'[j] # l
        BY <1>1, <2>1, <3>2
      <4> QED
        BY <1>1, <1>2, <4>1, <4>2
    <3>3. CASE i \in 1..Len(q)
      <4>1. /\ launch_queue'[i] = q[i] /\ q[i] # l /\ q[i] \in LaunchIds
            /\ generated_requests'[q[i]] = generated_requests[q[i]]
        BY <1>1, <1>2, <2>1, <3>3
      <4>2. /\ q[i] \notin a /\ generated_requests[q[i]] = Initializer(q[i])
            /\ \A j \in 1..Len(q) : q[i] = q[j] => i = j
        BY <1>5, <3>3 DEF QueueOK
      <4>3. \A j \in 1..(Len(q) + 1) : j \in 1..Len(q) \/ j = Len(q) + 1
        BY <2>1
      <4> QED
        BY <2>1, <4>1, <4>2, <4>3
    <3>4. i \in 1..Len(q) \/ i = Len(q) + 1
      <4>1. Len(q) \in Nat
        BY <2>1
      <4> QED
        BY <4>1
    <3> QED
      BY <3>2, <3>3, <3>4, Zenon
  <2>3. \A m \in LaunchIds : m # l =>
           ((m \in a \/ \E i \in 1..Len(q) : q[i] = m)
              <=> (m \in active_launch_ids' \/
                   \E i \in 1..Len(launch_queue') : launch_queue'[i] = m))
    BY <1>6, <2>1
  <2>4. \E i \in 1..Len(launch_queue') : launch_queue'[i] = l
    BY <2>1
  <2> QED
    BY <1>3, <1>4, <1>5, <2>2, <2>3, <2>4, ZenonT(40) DEF FlowOK
<1>7. CASE launch_queue' = q /\ active_launch_ids' = a \cup {l}
  <2>1. QueueOK(launch_queue, active_launch_ids, generated_requests)'
    BY <1>1, <1>2, <1>5, <1>7 DEF QueueOK
  <2> QED
    BY <1>3, <1>4, <1>5, <1>7, <2>1, ZenonT(40) DEF FlowOK
<1> QED
  BY <1>6, <1>7

\* launch() preserves the invariant in each of its three outcomes.
LEMMA LaunchIInv ==
    ASSUME IInv, NEW info \in KernelLaunchInfo, launch(info)
    PROVE  IInv'
<1>0. PICK l \in LaunchIds : l = next_launch_id
  BY BoundsAssumption DEF launch, IInv, TypeOK, LaunchIds
<1> DEFINE infos == [i \in DOMAIN launch_infos \cup {l} |->
                        IF i = l THEN info ELSE launch_infos[i]]
<1>1. /\ TypeOK /\ LaunchedFlagReleasable
      /\ FlowOK(launch_queue, active_launch_ids, generated_requests, in_flight)
  BY DEF IInv
<1>2. /\ next_launch_id' = l + 1 /\ next_launch_id' \in 0..MaxLaunches
      /\ in_flight' = in_flight /\ threads' = threads
      /\ registered_functions' = registered_functions
  <2>1. /\ next_launch_id' = l + 1 /\ l < MaxLaunches
        /\ in_flight' = in_flight /\ threads' = threads
        /\ registered_functions' = registered_functions
    BY <1>0, Zenon DEF launch
  <2>2. l \in Nat /\ MaxLaunches \in Nat
    BY <1>0, BoundsAssumption DEF LaunchIds
  <2> QED
    BY <2>1, <2>2
<1>3. /\ IdleOK(l, generated_requests, in_flight)
      /\ l \notin DOMAIN launch_infos /\ l \notin active_launch_ids
      /\ \A i \in 1..Len(launch_queue) : launch_queue[i] # l
  BY <1>0, <1>1, FreshLaunch
<1>4. infos \in [DOMAIN launch_infos \cup {l} -> KernelLaunchInfo]
  BY <1>1 DEF TypeOK
<1>5. CASE /\ info.kernel \notin registered_functions
           /\ launch_infos' = infos
           /\ UNCHANGED <<launch_queue, active_launch_ids, launched,
                          generated_requests, total_requests, count_requests>>
  <2>1. TypeOK'
    BY <1>1, <1>2, <1>4, <1>5 DEF TypeOK
  <2>2. LaunchedFlagReleasable'
    BY <1>1, <1>5 DEF LaunchedFlagReleasable
  <2>3. IdleOK(l, generated_requests, in_flight)'
    <3>1. l \in Nat /\ ~(l >= next_launch_id')
      BY <1>2, BoundsAssumption DEF LaunchIds
    <3> QED
      BY <1>2, <1>3, <1>5, <3>1 DEF IdleOK
  <2>4. \A i \in LaunchIds \ {l} :
           /\ i \in DOMAIN launch_infos' <=> i \in DOMAIN launch_infos
           /\ i \in DOMAIN launch_infos => launch_infos'[i] = launch_infos[i]
           /\ total_requests'[i] = total_requests[i]
           /\ count_requests'[i] = count_requests[i]
           /\ generated_requests'[i] = generated_requests[i]
    BY <1>5
  <2>5. \A m \in LaunchIds : m # l =>
           /\ LaunchOK(m, generated_requests, in_flight)
                => LaunchOK(m, generated_requests, in_flight)'
           /\ IdleOK(m, generated_requests, in_flight)
                => IdleOK(m, generated_requests, in_flight)'
    BY <1>0, <1>1, <1>2, <2>4, OlderLaunches, ZenonT(40)
  <2>6. QueueOK(launch_queue, active_launch_ids, generated_requests)'
    BY <1>1, <1>5, ZenonT(40) DEF FlowOK, QueueOK
  <2>7. FlowOK(launch_queue, active_launch_ids, generated_requests, in_flight)'
    BY <1>1, <1>2, <1>3, <1>5, <2>3, <2>5, <2>6 DEF FlowOK
  <2> QED
    BY <2>1, <2>2, <2>7 DEF IInv
<1>6. CASE /\ info.packets = 0
           /\ launch_infos' = launch_infos
           /\ total_requests' = [total_requests EXCEPT ![l] = 0]
           /\ count_requests' = [count_requests EXCEPT ![l] = 0]
           /\ Activate(launch_infos, launch_queue)
           /\ UNCHANGED generated_requests
  <2> DEFINE new == check_kernel_launch(launch_infos, launch_queue)
             queue == StillQueued(launch_infos, launch_queue)
             active == active_launch_ids \cup new
  <2>1. /\ queue \in Seq(LaunchIds) /\ active \in SUBSET LaunchIds
        /\ FlowOK(queue, active, generated_requests, in_flight)
        /\ new # {} => \E m \in active : generated_requests[m].type = "INITIALIZER"
    BY <1>1, ActivateFlow
  <2>2. /\ active_launch_ids' = active /\ launch_queue' = queue
        /\ launched' = (launched \/ new # {})
    BY <1>6 DEF Activate
  <2>3. TypeOK'
    <3> HIDE DEF queue, active, new
    <3> QED
      BY <1>1, <1>2, <1>6, <2>1, <2>2 DEF TypeOK
  <2>4. LaunchedFlagReleasable'
    <3>1. CASE launched
      BY <1>1, <1>6, <2>2, <3>1 DEF LaunchedFlagReleasable
    <3>2. CASE ~launched
      BY <1>6, <2>1, <2>2, <3>2, ZenonT(40) DEF LaunchedFlagReleasable
    <3> QED
      BY <3>1, <3>2
  <2>5. /\ IdleOK(l, generated_requests, in_flight)
        /\ l \notin DOMAIN launch_infos /\ l \notin active
        /\ \A i \in 1..Len(queue) : queue[i] # l
    <3> HIDE DEF queue, active
    <3> QED
      BY <1>0, <1>1, <2>1, FreshLaunch, Zenon
  <2>6. IdleOK(l, generated_requests, in_flight)'
    BY <1>1, <1>2, <1>6, <2>5 DEF IdleOK, TypeOK
  <2>7. \A i \in LaunchIds \ {l} :
           /\ i \in DOMAIN launch_infos' <=> i \in DOMAIN launch_infos
           /\ i \in DOMAIN launch_infos => launch_infos'[i] = launch_infos[i]
           /\ total_requests'[i] = total_requests[i]
           /\ count_requests'[i] = count_requests[i]
           /\ generated_requests'[i] = generated_requests[i]
    BY <1>1, <1>6 DEF TypeOK
  <2>8. \A m \in LaunchIds : m # l =>
           /\ LaunchOK(m, generated_requests, in_flight)
                => LaunchOK(m, generated_requests, in_flight)'
           /\ IdleOK(m, generated_requests, in_flight)
                => IdleOK(m, generated_requests, in_flight)'
    BY <1>0, <1>1, <1>2, <2>7, OlderLaunches, Zenon
  <2>9. FlowOK(launch_queue, active_launch_ids, generated_requests, in_flight)'
    <3> HIDE DEF queue, active
    <3>1. QueueOK(launch_queue, active_launch_ids, generated_requests)'
      <4>1. QueueOK(queue, active, generated_requests)
        BY <2>1 DEF FlowOK
      <4>2. generated_requests' = generated_requests
        BY <1>6
      <4> QED
        BY <2>2, <4>1, <4>2 DEF QueueOK
    <3> QED
      BY <1>2, <2>1, <2>2, <2>5, <2>6, <2>8, <3>1 DEF FlowOK
  <2> QED
    BY <2>3, <2>4, <2>9 DEF IInv
<1>7. CASE /\ info.packets > 0
           /\ launch_infos' = infos
           /\ total_requests' = [total_requests EXCEPT ![l] = RequestCount(info)]
           /\ count_requests' = [count_requests EXCEPT ![l] = 0]
           /\ generated_requests' = [generated_requests EXCEPT ![l] = Initializer(l)]
           /\ Activate(infos, Append(launch_queue, l))
  <2> DEFINE long == Append(launch_queue, l)
             new == check_kernel_launch(infos, long)
  <2>1. /\ active_launch_ids' = active_launch_ids \cup new
        /\ launch_queue' = StillQueued(infos, long)
        /\ launched' = (launched \/ new # {})
    BY <1>7, Zenon DEF Activate
  <2>2. /\ launch_queue \in Seq(LaunchIds) /\ active_launch_ids \in SUBSET LaunchIds
        /\ generated_requests \in FrontsType /\ in_flight \in SUBSET Request
    BY <1>1 DEF TypeOK, FrontsType
  <2>3. /\ generated_requests'[l].type = "INITIALIZER"
        /\ \A m \in LaunchIds \ {l} : generated_requests'[m] = generated_requests[m]
    BY <1>7, <2>2, ZenonT(40) DEF Initializer, FrontsType
  <2>4. launched => \E m \in active_launch_ids :
                       generated_requests'[m].type = "INITIALIZER"
    BY <1>1, <1>3, <2>2, <2>3 DEF LaunchedFlagReleasable
  <2>5. /\ launch_infos' \in [DOMAIN launch_infos' -> KernelLaunchInfo]
        /\ DOMAIN launch_infos' \subseteq LaunchIds
        /\ generated_requests' \in [LaunchIds -> Request \cup {NoRequest}]
        /\ total_requests' \in [LaunchIds -> Nat]
        /\ count_requests' \in [LaunchIds -> Nat]
    <3>1. Initializer(l) \in Request
      BY DEF Initializer, Request
    <3>2. RequestCount(info) \in Nat
      <4>1. /\ NumKernelBodies[info.kernel] \in Nat /\ info.packets \in Nat
        BY NumKernelBodiesAssumption, BoundsAssumption DEF KernelLaunchInfo
      <4>2. NumKernelBodies[info.kernel] * info.packets \in Nat
        BY <4>1
      <4> QED
        BY <4>2 DEF RequestCount
    <3> QED
      BY <1>1, <1>4, <1>7, <3>1, <3>2 DEF TypeOK
  <2>6. CASE new = {} /\ StillQueued(infos, long) = long
    <3>1. launch_queue' = long /\ active_launch_ids' = active_launch_ids /\ launched' = launched
      <4> HIDE DEF new, long
      <4> QED
        BY <1>1, <2>1, <2>6 DEF TypeOK
    <3>2. FlowOK(launch_queue, active_launch_ids, generated_requests, in_flight)'
      BY <1>0, <1>1, <1>2, <1>7, <2>2, <3>1, NewLaunchFlow, ZenonT(40)
    <3>3. TypeOK'
      BY <1>1, <1>2, <2>5, <3>1 DEF TypeOK
    <3>4. LaunchedFlagReleasable'
      BY <2>4, <3>1 DEF LaunchedFlagReleasable
    <3> QED
      BY <3>2, <3>3, <3>4 DEF IInv
  <2>7. CASE new = {Head(long)} /\ StillQueued(infos, long) = Tail(long)
    <3>1. launched' = TRUE /\ active_launch_ids' = active_launch_ids \cup {Head(long)}
      BY <2>1, <2>7, Zenon
    <3>2. CASE launch_queue = <<>>
      <4>1. Head(long) = l /\ Tail(long) = launch_queue
        BY <3>2
      <4>2. FlowOK(launch_queue, active_launch_ids, generated_requests, in_flight)'
        <5>1. launch_queue' = launch_queue /\ active_launch_ids' = active_launch_ids \cup {l}
          BY <2>1, <2>7, <3>1, <4>1, ZenonT(40)
        <5> QED
          BY <1>0, <1>1, <1>2, <1>7, <2>2, <5>1, NewLaunchFlow, ZenonT(40)
      <4>3. TypeOK'
        BY <1>1, <1>2, <2>1, <2>5, <2>7, <3>1, <4>1, ZenonT(40) DEF TypeOK
      <4>4. LaunchedFlagReleasable'
        BY <2>3, <3>1, <4>1 DEF LaunchedFlagReleasable
      <4> QED
        BY <4>2, <4>3, <4>4 DEF IInv
    <3>3. CASE launch_queue # <<>>
      <4> DEFINE q == Tail(launch_queue)
                 h == Head(launch_queue)
      <4>1. Head(long) = h /\ Tail(long) = Append(q, l)
        BY <2>2, <3>3
      <4>2. /\ q \in Seq(LaunchIds) /\ h \in LaunchIds
            /\ generated_requests[h] = Initializer(h)
            /\ FlowOK(q, active_launch_ids \cup {h}, generated_requests, in_flight)
        BY <1>1, <2>2, <3>3, ActivationPreservesFlow, Zenon
      <4>3. PICK qq \in Seq(LaunchIds), aa \in SUBSET LaunchIds :
               /\ qq = q /\ aa = active_launch_ids \cup {h}
        BY <2>2, <4>2, ZenonT(40)
      <4>4. launch_queue' = Append(qq, l) /\ active_launch_ids' = aa
        BY <2>1, <2>7, <3>1, <4>1, <4>3, Zenon
      <4>5. FlowOK(launch_queue, active_launch_ids, generated_requests, in_flight)'
        BY <1>0, <1>1, <1>2, <1>7, <4>2, <4>3, <4>4, NewLaunchFlow, ZenonT(40)
      <4>6. TypeOK'
        <5>1. launch_queue' \in Seq(LaunchIds) /\ active_launch_ids' \subseteq LaunchIds
          BY <4>3, <4>4
        <5>2. launched' \in BOOLEAN
          BY <3>1
        <5> QED
          BY <1>1, <1>2, <2>5, <5>1, <5>2 DEF TypeOK
      <4>7. h # l
        BY <1>3, <2>2, <3>3
      <4>8. LaunchedFlagReleasable'
        <5>1. h \in active_launch_ids' /\ generated_requests'[h].type = "INITIALIZER"
          <6>1. generated_requests'[h] = Initializer(h)
            BY <2>3, <4>2, <4>7
          <6>2. Initializer(h).type = "INITIALIZER"
            BY DEF Initializer
          <6>3. h \in active_launch_ids'
            BY <3>1, <4>1
          <6> QED
            BY <6>1, <6>2, <6>3
        <5> QED
          BY <5>1, Zenon DEF LaunchedFlagReleasable
      <4> QED
        BY <4>5, <4>6, <4>8 DEF IInv
    <3> QED
      BY <3>2, <3>3
  <2> QED
    BY <2>6, <2>7, CheckKernelLaunchCases, Zenon
<1> QED
  BY <1>0, <1>5, <1>6, <1>7 DEF launch

-----------------------------------------------------------------------------
\* Every step of the generator preserves the inductive invariant.
LEMMA NextIInv == IInv /\ [Next]_generator_vars => IInv'
<1> SUFFICES ASSUME IInv, [Next]_generator_vars
             PROVE  IInv'
  OBVIOUS
<1>1. CASE UNCHANGED generator_vars
  <2>1. TypeOK'
    BY <1>1 DEF IInv, TypeOK, generator_vars
  <2> QED
    BY <1>1, <2>1, FrameIInv DEF generator_vars
<1>2. ASSUME NEW k \in KernelIds, register_kernel(k)
      PROVE  IInv'
  BY <1>2, RegisterIInv
<1>3. ASSUME NEW info \in KernelLaunchInfo, launch(info)
      PROVE  IInv'
  BY <1>3, LaunchIInv
<1>4. CASE cycle
  BY <1>4, CycleIInv
<1>5. ASSUME NEW n \in {1, CoarseThreads}, generate_uthreads(n)
      PROVE  IInv'
  BY <1>5, GenerateIInv
<1>6. CASE generate_uthread
  BY <1>6, GenerateUthreadIInv
<1>7. ASSUME NEW r \in in_flight, handle_finished_context(r)
      PROVE  IInv'
  BY <1>7, CountedIInv, FinishedIInv
<1> QED
  BY <1>1, <1>2, <1>3, <1>4, <1>5, <1>6, <1>7 DEF Next

\* A request in flight belongs to an active launch and has left its deque.
LEMMA FlightOK ==
    ASSUME IInv, NEW r \in in_flight
    PROVE  /\ r.launch \in active_launch_ids
           /\ LaunchOK(r.launch, generated_requests, in_flight)
<1>1. /\ r.launch \in LaunchIds
      /\ FlowOK(launch_queue, active_launch_ids, generated_requests, in_flight)
  BY DEF IInv, TypeOK, Request
<1>2. ~IdleOK(r.launch, generated_requests, in_flight)
  BY DEF IdleOK
<1>3. LaunchOK(r.launch, generated_requests, in_flight)
  BY <1>1, <1>2 DEF FlowOK
<1>4. Before(r, generated_requests[r.launch])
  BY <1>3 DEF LaunchOK
<1>5. generated_requests[r.launch] # Initializer(r.launch)
  BY <1>4 DEF Before, Initializer, NoRequest
<1> QED
  BY <1>1, <1>2, <1>3, <1>5 DEF FlowOK, QueueOK

\* The inductive invariant implies the four properties.
LEMMA IInvImplies ==
    ASSUME IInv
    PROVE  PhaseBarrier /\ ScratchpadAlive /\ RequestsAccounted /\ LaunchedFlagReleasable
<1>1. PhaseBarrier
  <2> SUFFICES ASSUME NEW r \in in_flight, NEW s \in in_flight, r.launch = s.launch
               PROVE  r.type = s.type /\ r.body = s.body
    BY DEF PhaseBarrier
  <2>1. LaunchOK(r.launch, generated_requests, in_flight)
    BY FlightOK
  <2>2. \A x, y \in {q \in in_flight : q.launch = r.launch} :
           x.type = y.type /\ x.body = y.body
    BY <2>1 DEF LaunchOK
  <2> QED
    BY <2>2
<1>2. ScratchpadAlive
  BY FlightOK, ZenonT(40) DEF ScratchpadAlive, LaunchOK
<1>3. RequestsAccounted
  <2> SUFFICES ASSUME NEW l \in DOMAIN launch_infos, Underway(l)
               PROVE  /\ total_requests[l] = RequestCount(launch_infos[l])
                      /\ count_requests[l] + Cardinality(InFlight(l))
                           = NumBefore(generated_requests[l], l)
    BY Zenon DEF RequestsAccounted
  <2>1. LaunchOK(l, generated_requests, in_flight)
    BY DEF IInv, TypeOK, FlowOK, Underway, Enqueued
  <2> QED
    BY <2>1, Zenon DEF LaunchOK, InFlight
<1> QED
  BY <1>1, <1>2, <1>3 DEF IInv

\* Type correctness of the generator, for any number of launches, packets and
\* kernel bodies.
THEOREM TypeCorrect == Spec => []TypeOK
<1>1. IInv => TypeOK
  BY DEF IInv
<1> QED
  BY <1>1, InitIInv, NextIInv, PTL DEF Spec

\* check_can_issue really is a barrier: requests of two phases of one launch
\* are never in flight together.
THEOREM PhasesNeverOverlap == Spec => []PhaseBarrier
<1> QED
  BY IInvImplies, InitIInv, NextIInv, PTL DEF Spec

\* finish_launch never deletes the scratchpad of a launch with a request
\* still in flight.
THEOREM ScratchpadOutlivesRequests == Spec => []ScratchpadAlive
<1> QED
  BY IInvImplies, InitIInv, NextIInv, PTL DEF Spec

\* No request is lost, pushed twice or counted twice.
THEOREM EveryRequestAccounted == Spec => []RequestsAccounted
<1> QED
  BY IInvImplies, InitIInv, NextIInv, PTL DEF Spec

\* The early return of cycle() never leaves the one-activation-per-cycle
\* flag set with nothing to release it.
THEOREM FlagIsReleasable == Spec => []LaunchedFlagReleasable
<1> QED
  BY IInvImplies, InitIInv, NextIInv, PTL DEF Spec
=============================================================================

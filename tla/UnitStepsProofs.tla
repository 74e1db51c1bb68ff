-------------------------- MODULE UnitStepsProofs --------------------------
(***************************************************************************)
(* What the steps of NdpUnit do to its parts: a step moves a request to    *)
(* the next part, and keeps UnitInv.                                       *)
(***************************************************************************)
EXTENDS UnitPartsProofs

-----------------------------------------------------------------------------
(* Every step of the unit preserves its invariant.                         *)

\* What the parts hold after a step.
LEMMA NextPartition ==
    ASSUME NEW CONSTANT C \in PartsType, Holding(C)', Partition(C, in_flight')
    PROVE  Partition(Contents, in_flight)'
<1>1. ContentsExact'
  BY ContentsAre, PTL
<1>2. Contents' = C
  BY <1>1 DEF ContentsExact
<1> QED
  BY <1>2 DEF Partition

\* A step that moves no request preserves the invariant.
LEMMA FrameUnitInv ==
    ASSUME IInv, UnitInv,
           UNCHANGED <<matched_requests, inst_columns, inst_column_q,
                       last_sub_core_fetched, after_rename, inst_queue,
                       dependency_info, finished_contexts, in_flight>>
    PROVE  UnitInv'
<1>1. PICK D : D = Contents
  OBVIOUS
<1>2. D \in PartsType /\ Holding(D) /\ Partition(D, in_flight')
  BY <1>1, InParts
<1>3. Holding(D)'
  BY <1>2 DEF Holding, EmptyContexts
<1>4. Partition(Contents, in_flight)'
  BY <1>2, <1>3, NextPartition
<1>5. /\ (Distinct(matched_requests) /\ Distinct(inst_columns))'
      /\ \A sc \in SubCores : (Distinct(inst_column_q[sc]) /\ Distinct(after_rename[sc]))'
  BY DEF UnitInv, Distinct
<1>6. \A sc \in SubCores : DependencyOK(dependency_info[sc], inst_queue[sc])'
  BY DEF UnitInv, DependencyOK
<1> QED
  BY <1>4, <1>5, <1>6 DEF UnitInv

\* A context of an empty column is counted and leaves the unit.
LEMMA EmptyFinished ==
    ASSUME IInv, UnitInv, NEW c \in finished_contexts, c.sub_core = -1,
           in_flight' = in_flight \ {c.request},
           finished_contexts' = finished_contexts \ {c},
           UNCHANGED <<matched_requests, inst_columns, inst_column_q, inst_queue,
                       last_sub_core_fetched, after_rename, dependency_info>>
    PROVE  UnitInv'
<1> DEFINE r == c.request
           p == <<"empty", 0>>
<1>1. PICK D : D = [Contents EXCEPT ![p] = @ \ {r}]
  BY Zenon
<1>2. p \in Parts /\ r \in Contents[p]
  BY InParts, PartNames DEF Holding, EmptyContexts
<1>3. D \in PartsType /\ Partition(D, in_flight \ {r})
  BY <1>1, <1>2, InParts, Leaving, Zenon
<1>4. D[p] = Contents[p] \ {r} /\ \A q \in Parts : q # p => D[q] = Contents[q]
  BY <1>1, <1>2, InParts DEF PartsType
<1>5. {d.request : d \in EmptyContexts'} = {d.request : d \in EmptyContexts} \ {r}
  <2>1. \A d \in EmptyContexts : d.request = r => d = c
    <3>1. finished_contexts \subseteq [request : Request, sub_core : SubCores \cup {-1}]
      BY DEF UnitInv
    <3>2. c \in [request : Request, sub_core : {-1}]
      BY <3>1
    <3>3. EmptyContexts \subseteq [request : Request, sub_core : {-1}]
      BY <3>1 DEF EmptyContexts
    <3> QED
      BY <3>2, <3>3
  <2>2. EmptyContexts' = EmptyContexts \ {c}
    BY DEF EmptyContexts
  <2> QED
    BY <2>1, <2>2
<1>6. Holding(D)'
  <2>1. D[<<"empty", 0>>] = {d.request : d \in EmptyContexts'}
    BY <1>4, <1>5, InParts DEF Holding
  <2> QED
    BY <1>4, <2>1, InParts, PartNames DEF Holding
<1>7. Partition(Contents, in_flight)'
  BY <1>3, <1>6, NextPartition
<1>8. /\ (Distinct(matched_requests) /\ Distinct(inst_columns))'
      /\ \A sc \in SubCores : (Distinct(inst_column_q[sc]) /\ Distinct(after_rename[sc]))'
  BY DEF UnitInv, Distinct
<1>9. \A sc \in SubCores : DependencyOK(dependency_info[sc], inst_queue[sc])'
  BY DEF UnitInv, DependencyOK
<1> QED
  BY <1>7, <1>8, <1>9 DEF UnitInv

\* A context of a sub-core is counted and takes its column out of the queue.
LEMMA ColumnFinished ==
    ASSUME IInv, UnitInv, NEW c \in finished_contexts, NEW sc \in SubCores, c.sub_core = sc,
           in_flight' = in_flight \ {c.request},
           finished_contexts' = finished_contexts \ {c},
           inst_queue' = [inst_queue EXCEPT ![sc] = finish_inst_column(sc, c.request)],
           dependency_info' = [dependency_info EXCEPT ![sc] = DependencyFinish(sc, c.request)],
           UNCHANGED <<matched_requests, inst_columns, inst_column_q,
                       last_sub_core_fetched, after_rename>>
    PROVE  UnitInv'
<1> DEFINE r == c.request
           p == <<"queue", sc>>
<1>1. PICK D : D = [Contents EXCEPT ![p] = @ \ {r}]
  BY Zenon
<1>2. sc # -1 /\ r \in inst_queue[sc]
  BY SubCoreNumbers DEF UnitInv
<1>3. p \in Parts /\ r \in Contents[p]
  BY <1>2, InParts, PartNames, Zenon DEF Holding
<1>4. D \in PartsType /\ Partition(D, in_flight \ {r})
  BY <1>1, <1>3, InParts, Leaving, ZenonT(40)
<1>5. D[p] = Contents[p] \ {r} /\ \A q \in Parts : q # p => D[q] = Contents[q]
  BY <1>1, <1>3, InParts DEF PartsType
<1>6. /\ inst_queue' \in [SubCores -> SUBSET Request]
      /\ inst_queue'[sc] = inst_queue[sc] \ {r}
      /\ \A s \in SubCores : s # sc => inst_queue'[s] = inst_queue[s]
  BY DEF UnitInv, finish_inst_column
<1>7. EmptyContexts' = EmptyContexts
  BY <1>2 DEF EmptyContexts
<1>8. Holding(D)'
  BY <1>5, <1>6, <1>7, InParts, PartNames, ZenonT(40) DEF Holding
<1>9. Partition(Contents, in_flight)'
  BY <1>4, <1>8, NextPartition
<1>10. ASSUME NEW d \in finished_contexts', d.sub_core # -1
       PROVE  d.request \in inst_queue'[d.sub_core]
  <2>1. /\ d \in [request : Request, sub_core : SubCores \cup {-1}] /\ d # c
        /\ c \in [request : Request, sub_core : SubCores \cup {-1}]
        /\ d.sub_core \in SubCores /\ d.request \in inst_queue[d.sub_core]
    BY <1>10 DEF UnitInv
  <2>2. d.sub_core = sc => d.request # r
    BY <2>1
  <2> QED
    BY <1>6, <2>1, <2>2
<1>11. DependencyOK(dependency_info[sc], inst_queue[sc])
       /\ inst_queue[sc] \in SUBSET Request /\ IsFiniteSet(inst_queue[sc])
  <2>1. inst_queue[sc] \subseteq in_flight
    BY InParts, PartNames, Zenon DEF Holding
  <2> QED
    BY <2>1, InParts, FS_Subset DEF UnitInv
<1>12. DependencyOK(DependencyFinish(sc, r), inst_queue[sc] \ {r})
  BY <1>2, <1>11, FinishOne
<1>13. ASSUME NEW s \in SubCores
       PROVE  DependencyOK(dependency_info'[s], inst_queue'[s])
  <2>1. CASE s = sc
    BY <1>6, <1>12, <2>1, ZenonT(40) DEF UnitInv
  <2>2. CASE s # sc
    BY <1>6, <2>2 DEF UnitInv
  <2> QED
    BY <2>1, <2>2
<1>14. \A s \in SubCores : DependencyOK(dependency_info[s], inst_queue[s])'
  BY <1>13 DEF DependencyOK
<1> QED
  BY <1>6, <1>9, <1>10, <1>14 DEF UnitInv, Distinct

\* handle_finished_context preserves the invariant.
LEMMA HandleFinishedUnitInv ==
    ASSUME IInv, UnitInv, HandleFinished
    PROVE  UnitInv'
<1>1. PICK c \in finished_contexts :
         /\ handle_finished_context(c.request)
         /\ finished_contexts' = finished_contexts \ {c}
         /\ IF c.sub_core = -1
            THEN UNCHANGED <<free_xregs, xreg_mapping, inst_queue, dependency_info>>
            ELSE /\ inst_queue' = [inst_queue EXCEPT ![c.sub_core] =
                                      finish_inst_column(c.sub_core, c.request)]
                 /\ dependency_info' = [dependency_info EXCEPT ![c.sub_core] =
                                          DependencyFinish(c.sub_core, c.request)]
  BY DEF HandleFinished
<1>2. /\ in_flight' = in_flight \ {c.request}
      /\ UNCHANGED <<matched_requests, inst_columns, inst_column_q,
                     last_sub_core_fetched, after_rename>>
  BY <1>1 DEF handle_finished_context, HandleFinished
<1>3. c.sub_core \in SubCores \cup {-1}
  BY DEF UnitInv
<1>4. CASE c.sub_core = -1
  BY <1>1, <1>2, <1>4, EmptyFinished
<1>5. CASE c.sub_core # -1
  BY <1>1, <1>2, <1>3, <1>5, ColumnFinished
<1> QED
  BY <1>4, <1>5

\* The parts after SubCore::cycle: the columns pushed go from the rename stage
\* to the queue, the empty ones to the finished contexts, and the columns
\* renamed from inst_column_q to the rename stage.
SubCoreParts(C, D, sc, pushed, empty, renamed) ==
    /\ D[<<"renamed", sc>>] = (C[<<"renamed", sc>>] \ (pushed \cup empty)) \cup renamed
    /\ D[<<"sent", sc>>] = C[<<"sent", sc>>] \ renamed
    /\ D[<<"queue", sc>>] = C[<<"queue", sc>>] \cup pushed
    /\ D[<<"empty", 0>>] = C[<<"empty", 0>>] \cup empty
    /\ \A p \in Parts \ {<<"renamed", sc>>, <<"sent", sc>>,
                          <<"queue", sc>>, <<"empty", 0>>} : D[p] = C[p]

\* SubCore::cycle leaves every request in one part.
LEMMA SubCoreCrossings ==
    ASSUME NEW C \in PartsType, NEW F, Partition(C, F), NEW sc \in SubCores,
           NEW pushed \in SUBSET C[<<"renamed", sc>>],
           NEW empty \in SUBSET C[<<"renamed", sc>>], pushed \cap empty = {},
           NEW renamed \in SUBSET C[<<"sent", sc>>]
    PROVE  \E D \in PartsType :
              Partition(D, F) /\ SubCoreParts(C, D, sc, pushed, empty, renamed)
<1> DEFINE R == <<"renamed", sc>>
           S == <<"sent", sc>>
           Q == <<"queue", sc>>
           E == <<"empty", 0>>
<1>1. /\ R \in Parts /\ S \in Parts /\ Q \in Parts /\ E \in Parts
      /\ R # S /\ R # Q /\ R # E /\ S # Q /\ S # E /\ Q # E
  BY PartNames
<1> HIDE DEF R, S, Q, E
<1>2. PICK C1 : C1 = [C EXCEPT ![R] = @ \ pushed, ![Q] = @ \cup pushed]
  BY Zenon
<1>3. C1 \in PartsType /\ Partition(C1, F)
  BY <1>1, <1>2, Crossing, Zenon DEF R
<1>4. /\ C1[R] = C[R] \ pushed /\ C1[Q] = C[Q] \cup pushed
      /\ \A p \in Parts \ {R, Q} : C1[p] = C[p]
  BY <1>1, <1>2 DEF PartsType
<1>5. empty \in SUBSET C1[R]
  BY <1>4 DEF R
<1>6. PICK C2 : C2 = [C1 EXCEPT ![R] = @ \ empty, ![E] = @ \cup empty]
  BY Zenon
<1>7. C2 \in PartsType /\ Partition(C2, F)
  BY <1>1, <1>3, <1>5, <1>6, Crossing, Zenon
<1>8. /\ C2[R] = C1[R] \ empty /\ C2[E] = C1[E] \cup empty
      /\ \A p \in Parts \ {R, E} : C2[p] = C1[p]
  BY <1>1, <1>3, <1>6 DEF PartsType
<1>9. renamed \in SUBSET C2[S]
  BY <1>1, <1>4, <1>8 DEF S
<1>10. PICK C3 : C3 = [C2 EXCEPT ![S] = @ \ renamed, ![R] = @ \cup renamed]
  BY Zenon
<1>11. C3 \in PartsType /\ Partition(C3, F)
  BY <1>1, <1>7, <1>9, <1>10, Crossing, Zenon
<1>12. /\ C3[S] = C2[S] \ renamed /\ C3[R] = C2[R] \cup renamed
       /\ \A p \in Parts \ {R, S} : C3[p] = C2[p]
  BY <1>1, <1>7, <1>10 DEF PartsType
<1>13. /\ C3[R] = (C[R] \ (pushed \cup empty)) \cup renamed
       /\ C3[S] = C[S] \ renamed /\ C3[Q] = C[Q] \cup pushed /\ C3[E] = C[E] \cup empty
       /\ \A p \in Parts \ {R, S, Q, E} : C3[p] = C[p]
  BY <1>1, <1>4, <1>8, <1>12
<1> QED
  BY <1>11, <1>13 DEF R, S, Q, E, SubCoreParts

\* What one cycle of a sub-core does: the columns it pushes into the
\* instruction queue, those it finds empty and those it renames.
SubCoreMoves(sc, done, pushed, empty, renamed) ==
    /\ pushed \cup empty \subseteq Heads(after_rename[sc]) /\ pushed \cap empty = {}
    /\ renamed \subseteq Heads(inst_column_q[sc])
    /\ \A r \in pushed : can_push(sc, r) /\ ~Column(r).empty
    /\ \A r \in empty : Column(r).empty
    /\ \A r \in renamed : ~RenameFull(sc, r)
    /\ finished_contexts' = finished_contexts
         \cup {[request |-> r, sub_core |-> sc] : r \in done}
         \cup {[request |-> r, sub_core |-> -1] : r \in empty}
    /\ inst_queue' = [inst_queue EXCEPT ![sc] = @ \cup pushed]
    /\ dependency_info' = [dependency_info EXCEPT ![sc] = DependencyPush(sc, pushed)]
    /\ inst_column_q' = [inst_column_q EXCEPT ![sc] = Without(@, renamed)]
    /\ free_xregs' = [free_xregs EXCEPT ![sc] =
          IF renamed = {} THEN @ ELSE @ - Convert(Head(inst_column_q[sc]))]
    /\ xreg_mapping' = [xreg_mapping EXCEPT ![sc] = @ \cup renamed]
    /\ after_rename' =
          [after_rename EXCEPT ![sc] = Without(@, pushed \cup empty) \o SeqOf(renamed)]
    /\ UNCHANGED <<generator_vars, matched_requests, inst_columns, last_sub_core_fetched>>

\* SubCore::cycle moves requests that way.
LEMMA SubCoreCycleMoves ==
    ASSUME NEW sc \in SubCores, NEW done, SubCoreCycle(sc, done)
    PROVE  \E pushed, empty, renamed : SubCoreMoves(sc, done, pushed, empty, renamed)
<1> DEFINE entering == {r \in Heads(after_rename[sc]) : can_push(sc, r)}
           empty == {r \in entering : Column(r).empty}
           renamed == {r \in Heads(inst_column_q[sc]) : ~RenameFull(sc, r)}
<1>1. PICK e, m, n : e = entering /\ m = empty /\ n = renamed
  BY Zenon
<1>2. /\ finished_contexts' = finished_contexts
           \cup {[request |-> r, sub_core |-> sc] : r \in done}
           \cup {[request |-> r, sub_core |-> -1] : r \in m}
      /\ inst_queue' = [inst_queue EXCEPT ![sc] = @ \cup (e \ m)]
      /\ dependency_info' = [dependency_info EXCEPT ![sc] = DependencyPush(sc, e \ m)]
      /\ inst_column_q' = [inst_column_q EXCEPT ![sc] = Without(@, n)]
      /\ free_xregs' = [free_xregs EXCEPT ![sc] =
            IF n = {} THEN @ ELSE @ - Convert(Head(inst_column_q[sc]))]
      /\ xreg_mapping' = [xreg_mapping EXCEPT ![sc] = @ \cup n]
      /\ after_rename' =
            [after_rename EXCEPT ![sc] = Without(@, e) \o SeqOf(n)]
      /\ UNCHANGED <<generator_vars, matched_requests, inst_columns, last_sub_core_fetched>>
  BY <1>1, Zenon DEF SubCoreCycle
<1>3. /\ m \subseteq e /\ e \subseteq Heads(after_rename[sc])
      /\ n \subseteq Heads(inst_column_q[sc])
      /\ \A r \in e \ m : can_push(sc, r) /\ ~Column(r).empty
      /\ \A r \in m : Column(r).empty
      /\ \A r \in n : ~RenameFull(sc, r)
  BY <1>1
<1>4. PICK pushed : pushed = e \ m
  BY ZenonT(40)
<1>5. e = pushed \cup m /\ pushed \cap m = {}
  BY <1>3, <1>4
<1>6. SubCoreMoves(sc, done, pushed, m, n)
  BY <1>2, <1>3, <1>4, <1>5, Zenon DEF SubCoreMoves
<1> QED
  BY <1>6

\* SubCore::cycle preserves the invariant.
LEMMA SubCoreUnitInv ==
    ASSUME IInv, UnitInv, NEW sc \in SubCores, NEW done \in SUBSET Running(sc),
           SubCoreCycle(sc, done)
    PROVE  UnitInv'
<1> DEFINE a == after_rename[sc]
           q == inst_column_q[sc]
<1>1. PICK pushed, empty, renamed : SubCoreMoves(sc, done, pushed, empty, renamed)
  BY SubCoreCycleMoves
<1>2. /\ Distinct(a) /\ Distinct(q) /\ Range(a) \subseteq in_flight /\ Range(q) \subseteq in_flight
      /\ Contents[<<"renamed", sc>>] = Range(a) /\ Contents[<<"sent", sc>>] = Range(q)
      /\ Range(a) \cap Range(q) = {}
      /\ inst_queue[sc] \subseteq in_flight /\ inst_queue[sc] \cap Range(a) = {}
  <2>1. /\ Contents[<<"renamed", sc>>] = Range(a) /\ Contents[<<"sent", sc>>] = Range(q)
        /\ Contents[<<"queue", sc>>] = inst_queue[sc]
        /\ <<"renamed", sc>> \in Parts /\ <<"sent", sc>> \in Parts /\ <<"queue", sc>> \in Parts
    BY InParts, PartNames DEF Holding
  <2>2. /\ Contents[<<"renamed", sc>>] \cap Contents[<<"sent", sc>>] = {}
        /\ Contents[<<"queue", sc>>] \cap Contents[<<"renamed", sc>>] = {}
    BY <2>1, InParts DEF Partition
  <2> QED
    BY <2>1, <2>2, InParts DEF UnitInv
<1>3. /\ pushed \cup empty \subseteq Heads(a) /\ pushed \cup empty \subseteq Range(a)
      /\ renamed \subseteq Heads(q) /\ renamed \subseteq Range(q) /\ renamed \subseteq Request
      /\ IsFiniteSet(renamed)
  <2>1. pushed \cup empty \subseteq Heads(a) /\ renamed \subseteq Heads(q)
    BY <1>1 DEF SubCoreMoves
  <2>2. Heads(a) \subseteq Range(a) /\ Heads(q) \subseteq Range(q)
    BY <1>2, WithoutFacts, Zenon
  <2> QED
    BY <1>2, <2>1, <2>2, InParts, FS_Subset
<1>4. Distinct(Without(q, renamed)) /\ Range(Without(q, renamed)) = Range(q) \ renamed
  BY <1>2, <1>3, WithoutFacts
<1>5. PICK a2 : a2 = Without(a, pushed \cup empty) \o SeqOf(renamed)
  BY Zenon
<1>6. Distinct(a2) /\ Range(a2) = (Range(a) \ (pushed \cup empty)) \cup renamed
  <2>1. Distinct(SeqOf(renamed)) /\ Range(SeqOf(renamed)) = renamed
    BY <1>3, SeqOfFacts
  <2>2. PICK s : s = SeqOf(renamed)
    OBVIOUS
  <2>3. PICK taken : taken = pushed \cup empty
    BY Zenon
  <2>4. Distinct(s) /\ Range(s) = renamed
    BY <2>1, <2>2
  <2>5. taken \in SUBSET Heads(a) /\ Distinct(a) /\ (Range(a) \ taken) \cap Range(s) = {}
    BY <1>2, <1>3, <2>3, <2>4
  <2>6. /\ Distinct(Without(a, taken) \o s)
        /\ Range(Without(a, taken) \o s) = (Range(a) \ taken) \cup Range(s)
    BY <2>4, <2>5, QueueStep
  <2> QED
    BY <1>5, <2>2, <2>3, <2>4, <2>6, ZenonT(40)
<1>7. /\ inst_column_q' \in [SubCores -> Seq(Request)]
      /\ inst_column_q'[sc] = Without(q, renamed)
      /\ \A s \in SubCores : s # sc => inst_column_q'[s] = inst_column_q[s]
  BY <1>1, <1>4 DEF UnitInv, SubCoreMoves, Distinct
<1>8. /\ after_rename' \in [SubCores -> Seq(Request)] /\ after_rename'[sc] = a2
      /\ \A s \in SubCores : s # sc => after_rename'[s] = after_rename[s]
  BY <1>1, <1>5, <1>6 DEF UnitInv, SubCoreMoves, Distinct
<1>9. /\ inst_queue' \in [SubCores -> SUBSET Request]
      /\ inst_queue'[sc] = inst_queue[sc] \cup pushed
      /\ \A s \in SubCores : s # sc => inst_queue'[s] = inst_queue[s]
  BY <1>1, <1>2, <1>3, InParts DEF UnitInv, SubCoreMoves
<1>10. /\ finished_contexts' \subseteq [request : Request, sub_core : SubCores \cup {-1}]
       /\ {c.request : c \in EmptyContexts'} = {c.request : c \in EmptyContexts} \cup empty
       /\ \A c \in finished_contexts' : c.sub_core # -1 => c.request \in inst_queue'[c.sub_core]
  <2>1. finished_contexts' = finished_contexts
           \cup {[request |-> r, sub_core |-> sc] : r \in done}
           \cup {[request |-> r, sub_core |-> -1] : r \in empty}
    BY <1>1 DEF SubCoreMoves
  <2>2. done \subseteq inst_queue[sc] /\ done \subseteq Request /\ empty \subseteq Request
    BY <1>2, <1>3, InParts, Zenon DEF Running
  <2>3. finished_contexts \subseteq [request : Request, sub_core : SubCores \cup {-1}]
    BY DEF UnitInv
  <2>4. finished_contexts' \subseteq [request : Request, sub_core : SubCores \cup {-1}]
    BY <2>1, <2>2, <2>3
  <2>5. EmptyContexts' = EmptyContexts \cup {[request |-> r, sub_core |-> -1] : r \in empty}
    <3>1. PICK D, N : /\ D = {[request |-> r, sub_core |-> sc] : r \in done}
                      /\ N = {[request |-> r, sub_core |-> -1] : r \in empty}
      BY Zenon
    <3>2. (\A c \in D : c.sub_core # -1) /\ (\A c \in N : c.sub_core = -1)
      BY <3>1, SubCoreNumbers
    <3>3. finished_contexts' = finished_contexts \cup D \cup N
      BY <2>1, <3>1
    <3>4. EmptyContexts' = EmptyContexts \cup N
      BY <3>2, <3>3 DEF EmptyContexts
    <3> QED
      BY <3>1, <3>4
  <2>6. {c.request : c \in EmptyContexts'} = {c.request : c \in EmptyContexts} \cup empty
    <3>1. ASSUME NEW x \in empty PROVE x \in {c.request : c \in EmptyContexts'}
      <4>1. PICK c : c = [request |-> x, sub_core |-> -1]
        BY Zenon
      <4>2. c \in EmptyContexts' /\ c.request = x
        BY <2>5, <4>1
      <4> QED
        BY <4>2
    <3>2. ASSUME NEW c \in EmptyContexts'
          PROVE  c.request \in {d.request : d \in EmptyContexts} \cup empty
      BY <2>5
    <3>3. EmptyContexts \subseteq EmptyContexts'
      BY <2>5
    <3> QED
      BY <3>1, <3>2, <3>3
  <2>7. ASSUME NEW c \in finished_contexts', c.sub_core # -1
        PROVE  c.request \in inst_queue'[c.sub_core]
    <3>1. CASE c \in finished_contexts
      <4>1. c.sub_core \in SubCores /\ c.request \in inst_queue[c.sub_core]
        BY <2>7, <3>1 DEF UnitInv
      <4> QED
        BY <1>9, <4>1
    <3>2. CASE c \in {[request |-> r, sub_core |-> sc] : r \in done}
      BY <1>9, <2>2, <3>2
    <3> QED
      BY <2>1, <2>7, <3>1, <3>2
  <2> QED
    BY <2>4, <2>6, <2>7
<1>11. Partition(Contents, in_flight)'
  <2>1. pushed \in SUBSET Contents[<<"renamed", sc>>] /\ empty \in SUBSET Contents[<<"renamed", sc>>]
        /\ renamed \in SUBSET Contents[<<"sent", sc>>] /\ pushed \cap empty = {}
    BY <1>1, <1>2, <1>3 DEF SubCoreMoves
  <2>2. PICK D \in PartsType :
           Partition(D, in_flight) /\ SubCoreParts(Contents, D, sc, pushed, empty, renamed)
    <3>1. Contents \in PartsType /\ Partition(Contents, in_flight)
      BY InParts
    <3> QED
      BY <2>1, <3>1, SubCoreCrossings, Zenon
  <2>3. matched_requests' = matched_requests /\ inst_columns' = inst_columns
        /\ in_flight' = in_flight
    BY <1>1 DEF SubCoreMoves, generator_vars
  <2>4. Holding(Contents)
    BY InParts
  <2>5. /\ D[<<"matched", 0>>] = Range(matched_requests')
        /\ D[<<"buffer", 0>>] = Range(inst_columns')
        /\ D[<<"empty", 0>>] = {c.request : c \in EmptyContexts'}
    BY <1>10, <2>2, <2>3, <2>4, PartNames DEF Holding, SubCoreParts
  <2>6. ASSUME NEW s \in SubCores
        PROVE  /\ D[<<"sent", s>>] = Range(inst_column_q'[s])
               /\ D[<<"renamed", s>>] = Range(after_rename'[s])
               /\ D[<<"queue", s>>] = inst_queue'[s]
    <3>1. CASE s = sc
      BY <1>2, <1>4, <1>6, <1>7, <1>8, <1>9, <2>2, <2>4, <3>1, ZenonT(40) DEF Holding, SubCoreParts
    <3>2. CASE s # sc
      BY <1>7, <1>8, <1>9, <2>2, <2>4, <3>2, PartNames, ZenonT(40) DEF Holding, SubCoreParts
    <3> QED
      BY <3>1, <3>2
  <2>7. Holding(D)'
    BY <2>5, <2>6, ZenonT(40) DEF Holding
  <2> QED
    BY <2>2, <2>3, <2>7, NextPartition
<1>12. ASSUME NEW s \in SubCores
       PROVE  DependencyOK(dependency_info'[s], inst_queue'[s])
  <2>1. /\ DOMAIN dependency_info = SubCores
        /\ DependencyOK(dependency_info[s], inst_queue[s])
        /\ DependencyOK(dependency_info[sc], inst_queue[sc])
    BY DEF UnitInv
  <2>2. dependency_info' = [dependency_info EXCEPT ![sc] = DependencyPush(sc, pushed)]
    BY <1>1 DEF SubCoreMoves
  <2>3. CASE s # sc
    BY <1>9, <2>1, <2>2, <2>3
  <2>4. CASE s = sc /\ pushed = {}
    <3>1. DependencyOK(DependencyPush(sc, {}), inst_queue[sc])
      BY <2>1, PushNone
    <3>2. dependency_info'[s] = DependencyPush(sc, {}) /\ inst_queue'[s] = inst_queue[sc]
      BY <1>9, <2>1, <2>2, <2>4
    <3> QED
      BY <3>1, <3>2
  <2>5. CASE s = sc /\ pushed # {}
    <3>1. PICK r : pushed = {r}
      BY <1>3, <2>5, ZenonT(40) DEF Heads
    <3>2. /\ r \in Request /\ r \notin inst_queue[sc] /\ SameStep(sc, r)
          /\ inst_queue[sc] \in SUBSET Request /\ IsFiniteSet(inst_queue[sc])
      <4>1. SameStep(sc, r)
        BY <1>1, <3>1 DEF SubCoreMoves, can_push
      <4>2. r \in Range(a)
        BY <1>3, <3>1
      <4> QED
        BY <1>2, <4>1, <4>2, InParts, FS_Subset, Zenon
    <3>3. DependencyOK(DependencyPush(sc, {r}), inst_queue[sc] \cup {r})
      BY <2>1, <3>2, PushOne, ZenonT(40)
    <3>4. dependency_info'[s] = DependencyPush(sc, {r}) /\ inst_queue'[s] = inst_queue[sc] \cup {r}
      BY <1>9, <2>1, <2>2, <2>5, <3>1
    <3> QED
      BY <3>3, <3>4
  <2> QED
    BY <2>3, <2>4, <2>5, Zenon
<1>13. /\ \A s \in SubCores : DependencyOK(dependency_info[s], inst_queue[s])'
       /\ DOMAIN dependency_info' = SubCores
  BY <1>1, <1>12, ZenonT(40) DEF DependencyOK, SubCoreMoves, UnitInv
<1>14. \A s \in SubCores : Distinct(inst_column_q'[s]) /\ Distinct(after_rename'[s])
  BY <1>4, <1>6, <1>7, <1>8, Zenon DEF UnitInv
<1>15. matched_requests' = matched_requests /\ inst_columns' = inst_columns
       /\ last_sub_core_fetched' = last_sub_core_fetched
  BY <1>1 DEF SubCoreMoves
<1> QED
  BY <1>7, <1>8, <1>9, <1>10, <1>11, <1>13, <1>14, <1>15 DEF UnitInv, Distinct

\* What the generator pushes in a step, each request once.
LEMMA NewlyPushedFacts ==
    ASSUME in_flight' \subseteq Request, IsFiniteSet(in_flight')
    PROVE  Distinct(NewlyPushed) /\ Range(NewlyPushed) = in_flight' \ in_flight
<1>1. PICK new : new = in_flight' \ in_flight
  BY Zenon
<1>2. PICK b, e : /\ b = {r \in new : r.type = "KERNEL_BODY"}
                  /\ e = {r \in new : r.type # "KERNEL_BODY"}
  BY Zenon
<1>3. /\ b \in SUBSET Request /\ e \in SUBSET Request /\ IsFiniteSet(b) /\ IsFiniteSet(e)
      /\ b \cap e = {} /\ b \cup e = new
  <2>1. b \subseteq in_flight' /\ e \subseteq in_flight'
    BY <1>1, <1>2
  <2> QED
    BY <1>1, <1>2, <2>1, FS_Subset
<1>4. NewlyPushed = SeqOf(b) \o SeqOf(e)
  BY <1>1, <1>2, Zenon DEF NewlyPushed
<1>5. /\ Distinct(SeqOf(b)) /\ Range(SeqOf(b)) = b
      /\ Distinct(SeqOf(e)) /\ Range(SeqOf(e)) = e
  BY <1>3, SeqOfFacts
<1> QED
  BY <1>1, <1>3, <1>4, <1>5, JoinFacts

\* One iteration of generate_uthreads preserves the invariant.
LEMMA GenerateUthreadUnitInv ==
    ASSUME IInv, UnitInv, IInv', GenerateUthread
    PROVE  UnitInv'
<1>1. /\ matched_requests' = matched_requests \o NewlyPushed
      /\ in_flight \subseteq in_flight'
      /\ UNCHANGED <<inst_columns, inst_column_q, last_sub_core_fetched, after_rename,
                     inst_queue, dependency_info, finished_contexts>>
  BY DEF GenerateUthread, generate_uthread
<1>2. in_flight' \subseteq Request /\ IsFiniteSet(in_flight')
  BY DEF IInv, TypeOK, FlowOK
<1>3. PICK new, ms : new = in_flight' \ in_flight /\ ms = NewlyPushed
  BY Zenon
<1>4. Distinct(ms) /\ Range(ms) = new
  BY <1>2, <1>3, NewlyPushedFacts
<1>5. Distinct(matched_requests) /\ Range(matched_requests) \subseteq in_flight
  BY InParts, PartNames, Zenon DEF UnitInv, Holding
<1>6. /\ Distinct(matched_requests') /\ Range(matched_requests') = Range(matched_requests) \cup new
  BY <1>1, <1>3, <1>4, <1>5, JoinFacts
<1>7. PICK D : D = [Contents EXCEPT ![<<"matched", 0>>] = @ \cup new]
  BY Zenon
<1>8. D \in PartsType /\ Partition(D, in_flight')
  <2>1. new \in SUBSET Request /\ new \cap in_flight = {} /\ in_flight \cup new = in_flight'
    BY <1>1, <1>2, <1>3
  <2> QED
    BY <1>7, <2>1, InParts, PartNames, Entering, ZenonT(40)
<1>9. Holding(D)'
  <2>1. /\ D[<<"matched", 0>>] = Contents[<<"matched", 0>>] \cup new
        /\ \A p \in Parts : p # <<"matched", 0>> => D[p] = Contents[p]
    BY <1>7, InParts, PartNames DEF PartsType
  <2>2. EmptyContexts' = EmptyContexts
    BY <1>1 DEF EmptyContexts
  <2> QED
    BY <1>1, <1>6, <2>1, <2>2, InParts, PartNames, ZenonT(40) DEF Holding
<1>10. Partition(Contents, in_flight)'
  BY <1>8, <1>9, NextPartition
<1>11. UNCHANGED <<inst_columns, inst_column_q, last_sub_core_fetched, after_rename,
                   inst_queue, dependency_info, finished_contexts>>
  BY <1>1
<1>12. /\ Distinct(matched_requests)' /\ Distinct(inst_columns)'
       /\ \A sc \in SubCores : Distinct(inst_column_q[sc])' /\ Distinct(after_rename[sc])'
  BY <1>6, <1>11 DEF UnitInv, Distinct
<1>13. \A sc \in SubCores : DependencyOK(dependency_info[sc], inst_queue[sc])'
  <2>1. dependency_info' = dependency_info /\ inst_queue' = inst_queue
    BY <1>11
  <2>2. \A sc \in SubCores : DependencyOK(dependency_info[sc], inst_queue[sc])
    BY Zenon DEF UnitInv
  <2> QED
    BY <2>1, <2>2, Zenon DEF DependencyOK
<1> QED
  BY <1>10, <1>11, <1>12, <1>13 DEF UnitInv

\* The parts after the rest of the cycle: a column goes from the instruction
\* buffer to sub-core t, a request from matched_requests into the buffer, and
\* new requests line up in matched_requests.
DispatchParts(C, D, t, fetched, looked_up, new) ==
    /\ D[<<"matched", 0>>] = (C[<<"matched", 0>>] \ looked_up) \cup new
    /\ D[<<"buffer", 0>>] = (C[<<"buffer", 0>>] \ fetched) \cup looked_up
    /\ D[<<"sent", t>>] = C[<<"sent", t>>] \cup fetched
    /\ \A p \in Parts \ {<<"matched", 0>>, <<"buffer", 0>>, <<"sent", t>>} : D[p] = C[p]

\* The rest of the cycle leaves every request in one part.
LEMMA DispatchCrossings ==
    ASSUME NEW C \in PartsType, NEW F, Partition(C, F), NEW t \in SubCores,
           NEW fetched \in SUBSET C[<<"buffer", 0>>],
           NEW looked_up \in SUBSET C[<<"matched", 0>>],
           NEW new \in SUBSET Request, new \cap F = {}
    PROVE  \E D \in PartsType :
              Partition(D, F \cup new) /\ DispatchParts(C, D, t, fetched, looked_up, new)
<1> DEFINE M == <<"matched", 0>>
           B == <<"buffer", 0>>
           S == <<"sent", t>>
<1>1. M \in Parts /\ B \in Parts /\ S \in Parts /\ M # B /\ M # S /\ B # S
  BY PartNames, Zenon
<1> HIDE DEF M, B, S
<1>2. PICK C1 : C1 = [C EXCEPT ![B] = @ \ fetched, ![S] = @ \cup fetched]
  BY Zenon
<1>3. C1 \in PartsType /\ Partition(C1, F)
  BY <1>1, <1>2, Crossing, ZenonT(40) DEF B
<1>4. /\ C1[B] = C[B] \ fetched /\ C1[S] = C[S] \cup fetched
      /\ \A p \in Parts \ {B, S} : C1[p] = C[p]
  BY <1>1, <1>2 DEF PartsType
<1>5. looked_up \in SUBSET C1[M]
  BY <1>1, <1>4 DEF M
<1>6. PICK C2 : C2 = [C1 EXCEPT ![M] = @ \ looked_up, ![B] = @ \cup looked_up]
  BY Zenon
<1>7. C2 \in PartsType /\ Partition(C2, F)
  BY <1>1, <1>3, <1>5, <1>6, Crossing, ZenonT(40)
<1>8. /\ C2[M] = C1[M] \ looked_up /\ C2[B] = C1[B] \cup looked_up
      /\ \A p \in Parts \ {M, B} : C2[p] = C1[p]
  BY <1>1, <1>3, <1>6 DEF PartsType
<1>9. PICK C3 : C3 = [C2 EXCEPT ![M] = @ \cup new]
  BY Zenon
<1>10. C3 \in PartsType /\ Partition(C3, F \cup new)
  BY <1>1, <1>7, <1>9, Entering, ZenonT(40)
<1>11. C3[M] = C2[M] \cup new /\ \A p \in Parts \ {M} : C3[p] = C2[p]
  BY <1>1, <1>7, <1>9 DEF PartsType
<1>12. /\ C3[M] = (C[M] \ looked_up) \cup new
       /\ C3[B] = (C[B] \ fetched) \cup looked_up
       /\ C3[S] = C[S] \cup fetched
       /\ \A p \in Parts \ {M, B, S} : C3[p] = C[p]
  BY <1>1, <1>4, <1>8, <1>11
<1> QED
  BY <1>10, <1>12 DEF M, B, S, DispatchParts

-----------------------------------------------------------------------------
(* The part of a request and its places.                                   *)

\* The places of a request, one kind after the other.
LEMMA PlaceKinds ==
    ASSUME NEW r
    PROVE  \A x : x \in Places(r) <=>
              \/ \E i \in 1..Len(matched_requests) :
                    matched_requests[i] = r /\ x = <<"matched", i>>
              \/ \E i \in 1..Len(inst_columns) : inst_columns[i] = r /\ x = <<"buffer", i>>
              \/ \E sc \in SubCores : \E i \in 1..Len(inst_column_q[sc]) :
                    inst_column_q[sc][i] = r /\ x = <<"sent", sc, i>>
              \/ \E sc \in SubCores : \E i \in 1..Len(after_rename[sc]) :
                    after_rename[sc][i] = r /\ x = <<"renamed", sc, i>>
              \/ \E sc \in SubCores : r \in inst_queue[sc] /\ x = <<"queue", sc>>
              \/ \E c \in EmptyContexts : c.request = r /\ x = <<"empty", c>>
<1> DEFINE queues == UNION {{<<"sent", sc, i>> :
                     i \in {j \in 1..Len(inst_column_q[sc]) : inst_column_q[sc][j] = r}}
                 \cup {<<"renamed", sc, i>> :
                     i \in {j \in 1..Len(after_rename[sc]) : after_rename[sc][j] = r}}
                 : sc \in SubCores}
<1>1. \A x : x \in queues <=>
         \/ \E sc \in SubCores : \E i \in 1..Len(inst_column_q[sc]) :
               inst_column_q[sc][i] = r /\ x = <<"sent", sc, i>>
         \/ \E sc \in SubCores : \E i \in 1..Len(after_rename[sc]) :
               after_rename[sc][i] = r /\ x = <<"renamed", sc, i>>
  OBVIOUS
<1>2. PICK q : q = queues
  BY Zenon
<1>3. Places(r) =
         {<<"matched", i>> : i \in {j \in 1..Len(matched_requests) : matched_requests[j] = r}}
         \cup {<<"buffer", i>> : i \in {j \in 1..Len(inst_columns) : inst_columns[j] = r}}
         \cup q
         \cup {<<"queue", sc>> : sc \in {s \in SubCores : r \in inst_queue[s]}}
         \cup {<<"empty", c>> : c \in {d \in finished_contexts : d.request = r /\ d.sub_core = -1}}
  BY <1>2, Zenon DEF Places
<1> HIDE DEF queues
<1> QED
  BY <1>1, <1>2, <1>3 DEF EmptyContexts

\* A request in one part has no place in another.
LEMMA OnlyPart ==
    ASSUME IInv, UnitInv, NEW r \in in_flight, NEW p \in Parts, r \in Contents[p]
    PROVE  /\ \A i \in 1..Len(matched_requests) :
                 matched_requests[i] = r => p = <<"matched", 0>>
           /\ \A i \in 1..Len(inst_columns) : inst_columns[i] = r => p = <<"buffer", 0>>
           /\ \A sc \in SubCores :
                 /\ \A i \in 1..Len(inst_column_q[sc]) :
                       inst_column_q[sc][i] = r => p = <<"sent", sc>>
                 /\ \A i \in 1..Len(after_rename[sc]) :
                       after_rename[sc][i] = r => p = <<"renamed", sc>>
                 /\ r \in inst_queue[sc] => p = <<"queue", sc>>
           /\ \A c \in EmptyContexts : c.request = r => p = <<"empty", 0>>
<1>1. \A q \in Parts : r \in Contents[q] => p = q
  BY DEF UnitInv, Partition
<1>2. Holding(Contents)
  BY InParts, ZenonT(40)
<1>3. /\ matched_requests \in Seq(Request) /\ inst_columns \in Seq(Request)
      /\ \A sc \in SubCores : inst_column_q[sc] \in Seq(Request) /\ after_rename[sc] \in Seq(Request)
  BY DEF UnitInv, Distinct
<1>4. /\ \A i \in 1..Len(matched_requests) :
            matched_requests[i] = r => r \in Contents[<<"matched", 0>>]
      /\ \A i \in 1..Len(inst_columns) : inst_columns[i] = r => r \in Contents[<<"buffer", 0>>]
  <2>1. \A i \in 1..Len(matched_requests) : matched_requests[i] \in Range(matched_requests)
    BY <1>3, RangeByPosition, ZenonT(40)
  <2>2. \A i \in 1..Len(inst_columns) : inst_columns[i] \in Range(inst_columns)
    BY <1>3, RangeByPosition
  <2> QED
    BY <1>2, <2>1, <2>2, ZenonT(40) DEF Holding
<1>5. ASSUME NEW sc \in SubCores
      PROVE  /\ \A i \in 1..Len(inst_column_q[sc]) :
                   inst_column_q[sc][i] = r => r \in Contents[<<"sent", sc>>]
             /\ \A i \in 1..Len(after_rename[sc]) :
                   after_rename[sc][i] = r => r \in Contents[<<"renamed", sc>>]
             /\ r \in inst_queue[sc] => r \in Contents[<<"queue", sc>>]
  BY <1>2, <1>3, RangeByPosition DEF Holding
<1>6. \A c \in EmptyContexts : c.request = r => r \in Contents[<<"empty", 0>>]
  BY <1>2 DEF Holding
<1> QED
  BY <1>1, <1>4, <1>5, <1>6, PartNames, ZenonT(40)

\* A queue without repetition has its requests in one position each.
LEMMA OnePosition ==
    ASSUME NEW q, Distinct(q), NEW r \in Range(q)
    PROVE  \E i \in 1..Len(q) : q[i] = r /\ \A j \in 1..Len(q) : q[j] = r => j = i
<1>1. q \in Seq(Request)
  BY DEF Distinct
<1>2. PICK i \in 1..Len(q) : q[i] = r
  BY <1>1, RangeByPosition
<1>3. \A j \in 1..Len(q) : q[j] = r => j = i
  BY <1>2 DEF Distinct
<1> QED
  BY <1>2, <1>3

\* A request in flight has exactly one place.
LEMMA PlaceExists ==
    ASSUME IInv, UnitInv, NEW r \in in_flight
    PROVE  \E x : Places(r) = {x}
<1>1. PICK p \in Parts : r \in Contents[p]
  BY Zenon DEF UnitInv, Partition
<1>2. Holding(Contents)
  BY InParts, Zenon
<1>3. /\ Distinct(matched_requests) /\ Distinct(inst_columns)
      /\ \A sc \in SubCores : Distinct(inst_column_q[sc]) /\ Distinct(after_rename[sc])
  BY DEF UnitInv
<1>4. /\ \A i \in 1..Len(matched_requests) : matched_requests[i] = r => p = <<"matched", 0>>
      /\ \A i \in 1..Len(inst_columns) : inst_columns[i] = r => p = <<"buffer", 0>>
      /\ \A sc \in SubCores :
            /\ \A i \in 1..Len(inst_column_q[sc]) :
                  inst_column_q[sc][i] = r => p = <<"sent", sc>>
            /\ \A i \in 1..Len(after_rename[sc]) :
                  after_rename[sc][i] = r => p = <<"renamed", sc>>
            /\ r \in inst_queue[sc] => p = <<"queue", sc>>
      /\ \A c \in EmptyContexts : c.request = r => p = <<"empty", 0>>
  BY <1>1, OnlyPart
<1>5. CASE p = <<"matched", 0>>
  <2>1. r \in Range(matched_requests)
    BY <1>1, <1>2, <1>5 DEF Holding
  <2>2. PICK i \in 1..Len(matched_requests) :
           matched_requests[i] = r /\ \A j \in 1..Len(matched_requests) : matched_requests[j] = r => j = i
    BY <1>3, <2>1, OnePosition
  <2>3. /\ \A k \in 1..Len(inst_columns) : inst_columns[k] # r
        /\ \A s \in SubCores : \A k \in 1..Len(inst_column_q[s]) : inst_column_q[s][k] # r
        /\ \A s \in SubCores : \A k \in 1..Len(after_rename[s]) : after_rename[s][k] # r
        /\ \A s \in SubCores : r \notin inst_queue[s]
        /\ \A c \in EmptyContexts : c.request # r
    BY <1>4, <1>5
  <2>4. \A x : x \in Places(r) <=>
           \E j \in 1..Len(matched_requests) : matched_requests[j] = r /\ x = <<"matched", j>>
    BY <2>3, PlaceKinds
  <2>5. \A x : x \in Places(r) <=> x = <<"matched", i>>
    BY <2>2, <2>4
  <2>6. Places(r) = {<<"matched", i>>}
    BY <2>5
  <2> QED
    BY <2>6, ZenonT(40)
<1>6. CASE p = <<"buffer", 0>>
  <2>1. r \in Range(inst_columns)
    BY <1>1, <1>2, <1>6 DEF Holding
  <2>2. PICK i \in 1..Len(inst_columns) :
           inst_columns[i] = r /\ \A j \in 1..Len(inst_columns) : inst_columns[j] = r => j = i
    BY <1>3, <2>1, OnePosition
  <2>3. /\ \A k \in 1..Len(matched_requests) : matched_requests[k] # r
        /\ \A s \in SubCores : \A k \in 1..Len(inst_column_q[s]) : inst_column_q[s][k] # r
        /\ \A s \in SubCores : \A k \in 1..Len(after_rename[s]) : after_rename[s][k] # r
        /\ \A s \in SubCores : r \notin inst_queue[s]
        /\ \A c \in EmptyContexts : c.request # r
    BY <1>4, <1>6
  <2>4. \A x : x \in Places(r) <=>
           \E j \in 1..Len(inst_columns) : inst_columns[j] = r /\ x = <<"buffer", j>>
    BY <2>3, PlaceKinds
  <2>5. \A x : x \in Places(r) <=> x = <<"buffer", i>>
    BY <2>2, <2>4
  <2>6. Places(r) = {<<"buffer", i>>}
    BY <2>5
  <2> QED
    BY <2>6, ZenonT(40)
<1>7. ASSUME NEW sc \in SubCores, p = <<"sent", sc>> PROVE \E x : Places(r) = {x}
  <2>1. r \in Range(inst_column_q[sc])
    BY <1>1, <1>2, <1>7, Zenon DEF Holding
  <2>2. PICK i \in 1..Len(inst_column_q[sc]) :
           inst_column_q[sc][i] = r /\ \A j \in 1..Len(inst_column_q[sc]) : inst_column_q[sc][j] = r => j = i
    BY <1>3, <2>1, OnePosition
  <2>3. /\ \A k \in 1..Len(matched_requests) : matched_requests[k] # r
        /\ \A k \in 1..Len(inst_columns) : inst_columns[k] # r
        /\ \A s \in SubCores : s # sc => \A k \in 1..Len(inst_column_q[s]) : inst_column_q[s][k] # r
        /\ \A s \in SubCores : \A k \in 1..Len(after_rename[s]) : after_rename[s][k] # r
        /\ \A s \in SubCores : r \notin inst_queue[s]
        /\ \A c \in EmptyContexts : c.request # r
    BY <1>4, <1>7
  <2>4. \A x : x \in Places(r) <=>
           \E j \in 1..Len(inst_column_q[sc]) : inst_column_q[sc][j] = r /\ x = <<"sent", sc, j>>
    BY <2>3, PlaceKinds
  <2>5. \A x : x \in Places(r) <=> x = <<"sent", sc, i>>
    BY <2>2, <2>4
  <2>6. Places(r) = {<<"sent", sc, i>>}
    BY <2>5
  <2> QED
    BY <2>6, Zenon
<1>8. ASSUME NEW sc \in SubCores, p = <<"renamed", sc>> PROVE \E x : Places(r) = {x}
  <2>1. r \in Range(after_rename[sc])
    BY <1>1, <1>2, <1>8, Zenon DEF Holding
  <2>2. PICK i \in 1..Len(after_rename[sc]) :
           after_rename[sc][i] = r /\ \A j \in 1..Len(after_rename[sc]) : after_rename[sc][j] = r => j = i
    BY <1>3, <2>1, OnePosition
  <2>3. /\ \A k \in 1..Len(matched_requests) : matched_requests[k] # r
        /\ \A k \in 1..Len(inst_columns) : inst_columns[k] # r
        /\ \A s \in SubCores : \A k \in 1..Len(inst_column_q[s]) : inst_column_q[s][k] # r
        /\ \A s \in SubCores : s # sc => \A k \in 1..Len(after_rename[s]) : after_rename[s][k] # r
        /\ \A s \in SubCores : r \notin inst_queue[s]
        /\ \A c \in EmptyContexts : c.request # r
    BY <1>4, <1>8
  <2>4. \A x : x \in Places(r) <=>
           \E j \in 1..Len(after_rename[sc]) : after_rename[sc][j] = r /\ x = <<"renamed", sc, j>>
    BY <2>3, PlaceKinds
  <2>5. \A x : x \in Places(r) <=> x = <<"renamed", sc, i>>
    BY <2>2, <2>4
  <2>6. Places(r) = {<<"renamed", sc, i>>}
    BY <2>5
  <2> QED
    BY <2>6, Zenon
<1>9. ASSUME NEW sc \in SubCores, p = <<"queue", sc>> PROVE \E x : Places(r) = {x}
  <2>1. r \in inst_queue[sc]
    BY <1>1, <1>2, <1>9, ZenonT(40) DEF Holding
  <2>2. /\ \A k \in 1..Len(matched_requests) : matched_requests[k] # r
        /\ \A k \in 1..Len(inst_columns) : inst_columns[k] # r
        /\ \A s \in SubCores : \A k \in 1..Len(inst_column_q[s]) : inst_column_q[s][k] # r
        /\ \A s \in SubCores : \A k \in 1..Len(after_rename[s]) : after_rename[s][k] # r
        /\ \A s \in SubCores : s # sc => r \notin inst_queue[s]
        /\ \A c \in EmptyContexts : c.request # r
    BY <1>4, <1>9, Zenon
  <2>3. \A x : x \in Places(r) <=> x = <<"queue", sc>>
    BY <2>1, <2>2, PlaceKinds
  <2>4. Places(r) = {<<"queue", sc>>}
    BY <2>3
  <2> QED
    BY <2>4, Zenon
<1>10. CASE p = <<"empty", 0>>
  <2>1. PICK c \in EmptyContexts : c.request = r
    BY <1>1, <1>2, <1>10 DEF Holding
  <2>2. \A d \in EmptyContexts : d.request = r => d = c
    <3>1. EmptyContexts \subseteq [request : Request, sub_core : {-1}]
      BY DEF EmptyContexts, UnitInv
    <3> QED
      BY <2>1, <3>1
  <2>3. /\ \A k \in 1..Len(matched_requests) : matched_requests[k] # r
        /\ \A k \in 1..Len(inst_columns) : inst_columns[k] # r
        /\ \A s \in SubCores : \A k \in 1..Len(inst_column_q[s]) : inst_column_q[s][k] # r
        /\ \A s \in SubCores : \A k \in 1..Len(after_rename[s]) : after_rename[s][k] # r
        /\ \A s \in SubCores : r \notin inst_queue[s]
    BY <1>4, <1>10
  <2>4. \A x : x \in Places(r) <=> x = <<"empty", c>>
    BY <2>1, <2>2, <2>3, PlaceKinds
  <2>5. Places(r) = {<<"empty", c>>}
    BY <2>4
  <2> QED
    BY <2>5, Zenon
<1> QED
  BY <1>5, <1>6, <1>7, <1>8, <1>9, <1>10, PartNames, ZenonT(40)
=============================================================================

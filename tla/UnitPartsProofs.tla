-------------------------- MODULE UnitPartsProofs --------------------------
(***************************************************************************)
(* The parts of NdpUnit: its queues of requests, its dependency tables and *)
(* the registers that the requests hold.  Every request in flight is in    *)
(* one part (UnitInv); the steps that move it are in UnitStepsProofs.      *)
(***************************************************************************)
EXTENDS NdpUnit, FiniteSetTheorems, TLAPS

-----------------------------------------------------------------------------
(* Queues without repetition.                                              *)
\* The sequence of a finite set has its elements, each of them once.
LEMMA SeqOfFacts ==
    ASSUME NEW T \in SUBSET Request, IsFiniteSet(T)
    PROVE  Distinct(SeqOf(T)) /\ Range(SeqOf(T)) = T
<1> DEFINE n == Cardinality(T)
<1>1. n \in Nat /\ ExistsBijection(1..n, T)
  BY FS_CardinalityType
<1>2. \E f \in [1..n -> T] : IsInjective(f)
  BY <1>1, Zenon DEF ExistsBijection, Bijection, Injection
<1>3. PICK f : f \in [1..n -> T] /\ IsInjective(f) /\ f = SeqOf(T)
  BY <1>2, Zenon DEF SeqOf
<1>4. f \in Injection(1..n, T)
  BY <1>3, Zenon DEF Injection
<1>5. f \in Surjection(1..n, T)
  <2>1. Cardinality(1..n) = n
    BY <1>1, FS_Interval
  <2> QED
    BY <1>4, <2>1, FS_Injection
<1>6. Range(f) = T
  BY <1>3, <1>5, Zenon DEF Range, Surjection
<1>7. f \in Seq(Request) /\ Len(f) = n
  BY <1>1, <1>3
<1>8. \A i, j \in 1..n : f[i] = f[j] => i = j
  BY <1>3 DEF IsInjective
<1> QED
  BY <1>3, <1>6, <1>7, <1>8 DEF Distinct

\* What a queue holds, by position.
LEMMA RangeByPosition ==
    ASSUME NEW q \in Seq(Request)
    PROVE  /\ \A x : x \in Range(q) <=> \E i \in 1..Len(q) : q[i] = x
           /\ Range(q) \subseteq Request
<1>1. DOMAIN q = 1..Len(q) /\ \A i \in 1..Len(q) : q[i] \in Request
  OBVIOUS
<1>2. \A x : x \in Range(q) <=> \E i \in 1..Len(q) : q[i] = x
  BY <1>1, SMT DEF Range
<1> QED
  BY <1>1, <1>2

\* The head of a queue, taken or not.
LEMMA WithoutFacts ==
    ASSUME NEW q, Distinct(q), NEW taken \in SUBSET Heads(q)
    PROVE  /\ Distinct(Without(q, taken))
           /\ Range(Without(q, taken)) = Range(q) \ taken
           /\ Heads(q) \subseteq Range(q)
           /\ Len(Without(q, taken)) <= Len(q)
<1> DEFINE t == Tail(q)
<1>1. CASE q = <<>> \/ taken = {}
  <2>1. taken = {}
    BY <1>1 DEF Heads
  <2>2. Heads(q) \subseteq Range(q)
    <3>1. CASE q = <<>>
      BY <3>1 DEF Heads
    <3>2. CASE q # <<>>
      <4>1. q \in Seq(Request) /\ 1 \in 1..Len(q) /\ Head(q) = q[1]
        BY <3>2 DEF Distinct
      <4> QED
        BY <4>1, <3>2, RangeByPosition DEF Heads
    <3> QED
      BY <3>1, <3>2
  <2> QED
    BY <2>1, <2>2 DEF Without, Distinct
<1>2. CASE q # <<>> /\ taken # {}
  <2>1. /\ q \in Seq(Request) /\ 1 \in 1..Len(q) /\ Head(q) = q[1] /\ Len(q) \in Nat
        /\ t \in Seq(Request) /\ Len(t) = Len(q) - 1
        /\ \A i \in 1..Len(t) : t[i] = q[i + 1]
    BY <1>2 DEF Distinct
  <2>2. taken = {q[1]} /\ Heads(q) = {q[1]} /\ Without(q, taken) = t
    BY <1>2, <2>1, Zenon DEF Heads, Without
  <2>3. \A i, j \in 1..Len(q) : q[i] = q[j] => i = j
    BY <2>1, RangeByPosition DEF Distinct
  <2>4. \A i, j \in 1..Len(t) : t[i] = t[j] => i = j
    BY <2>1, <2>3
  <2>5. Range(t) = Range(q) \ {q[1]}
    <3>1. ASSUME NEW x \in Range(t) PROVE x \in Range(q) \ {q[1]}
      <4>1. PICK i \in 1..Len(t) : x = t[i]
        BY <2>1, <3>1, RangeByPosition, Zenon
      <4>2. i + 1 \in 1..Len(q) /\ i + 1 # 1 /\ x = q[i + 1]
        BY <2>1, <4>1
      <4> QED
        BY <2>1, <2>3, <4>2, RangeByPosition
    <3>2. ASSUME NEW x \in Range(q) \ {q[1]} PROVE x \in Range(t)
      <4>1. PICK i \in 1..Len(q) : x = q[i] /\ i # 1
        BY <2>1, <3>2, RangeByPosition
      <4>2. i - 1 \in 1..Len(t) /\ x = t[i - 1]
        BY <2>1, <4>1
      <4> QED
        BY <2>1, <4>2, RangeByPosition, Zenon
    <3> QED
      BY <3>1, <3>2
  <2> QED
    <3>1. Heads(q) \subseteq Range(q)
      BY <2>1, <2>2, RangeByPosition
    <3>2. Distinct(t) /\ Len(t) <= Len(q)
      BY <2>1, <2>4 DEF Distinct
    <3> QED
      BY <2>2, <2>5, <3>1, <3>2, Zenon
<1> QED
  BY <1>1, <1>2

\* Two queues that share no request, one behind the other.
LEMMA JoinFacts ==
    ASSUME NEW q, NEW s, Distinct(q), Distinct(s), Range(q) \cap Range(s) = {}
    PROVE  Distinct(q \o s) /\ Range(q \o s) = Range(q) \cup Range(s)
<1> DEFINE t == q \o s
<1>1. q \in Seq(Request) /\ s \in Seq(Request) /\ Len(q) \in Nat /\ Len(s) \in Nat
  BY DEF Distinct
<1>2. /\ t \in Seq(Request) /\ Len(t) = Len(q) + Len(s)
      /\ \A i \in 1..Len(q) + Len(s) : t[i] = IF i <= Len(q) THEN q[i] ELSE s[i - Len(q)]
  BY <1>1
<1> HIDE DEF t
<1>3. /\ \A i, j \in 1..Len(q) : q[i] = q[j] => i = j
      /\ \A i, j \in 1..Len(s) : s[i] = s[j] => i = j
  BY <1>1, RangeByPosition DEF Distinct
<1>4. \A i \in 1..Len(q), j \in 1..Len(s) : q[i] # s[j]
  BY <1>1, RangeByPosition, Zenon
<1>5. \A i, j \in 1..Len(t) : t[i] = t[j] => i = j
  <2> SUFFICES ASSUME NEW i \in 1..Len(t), NEW j \in 1..Len(t), t[i] = t[j]
               PROVE  i = j
    OBVIOUS
  <2>1. CASE i <= Len(q) /\ j <= Len(q)
    BY <1>1, <1>2, <1>3, <2>1
  <2>2. CASE i > Len(q) /\ j > Len(q)
    <3>1. i - Len(q) \in 1..Len(s) /\ j - Len(q) \in 1..Len(s)
      BY <1>1, <1>2, <2>2
    <3>2. s[i - Len(q)] = s[j - Len(q)]
      BY <1>1, <1>2, <2>2
    <3>3. i - Len(q) = j - Len(q)
      BY <1>3, <3>1, <3>2
    <3> QED
      BY <1>1, <3>3
  <2>3. CASE i <= Len(q) /\ j > Len(q)
    <3>1. i \in 1..Len(q) /\ j - Len(q) \in 1..Len(s)
      BY <1>1, <1>2, <2>3
    <3>2. q[i] = s[j - Len(q)]
      BY <1>1, <1>2, <2>3
    <3> QED
      BY <1>4, <3>1, <3>2
  <2>4. CASE i > Len(q) /\ j <= Len(q)
    <3>1. j \in 1..Len(q) /\ i - Len(q) \in 1..Len(s)
      BY <1>1, <1>2, <2>4
    <3>2. q[j] = s[i - Len(q)]
      BY <1>1, <1>2, <2>4
    <3> QED
      BY <1>4, <3>1, <3>2
  <2> QED
    BY <1>1, <1>2, <2>1, <2>2, <2>3, <2>4
<1>6. Range(t) = Range(q) \cup Range(s)
  <2>1. ASSUME NEW x \in Range(t) PROVE x \in Range(q) \cup Range(s)
    <3>1. PICK i \in 1..Len(t) : x = t[i]
      BY <1>2, <2>1, RangeByPosition
    <3>2. CASE i <= Len(q)
      BY <1>1, <1>2, <3>1, <3>2, RangeByPosition
    <3>3. CASE i > Len(q)
      <4>1. i - Len(q) \in 1..Len(s) /\ x = s[i - Len(q)]
        BY <1>1, <1>2, <3>1, <3>3
      <4> QED
        BY <1>1, <4>1, RangeByPosition
    <3> QED
      BY <1>1, <1>2, <3>2, <3>3
  <2>2. ASSUME NEW x \in Range(q) PROVE x \in Range(t)
    <3>1. PICK i \in 1..Len(q) : x = q[i]
      BY <1>1, <2>2, RangeByPosition
    <3>2. i \in 1..Len(t) /\ x = t[i]
      BY <1>1, <1>2, <3>1
    <3> QED
      BY <1>2, <3>2, RangeByPosition
  <2>3. ASSUME NEW x \in Range(s) PROVE x \in Range(t)
    <3>1. PICK i \in 1..Len(s) : x = s[i]
      BY <1>1, <2>3, RangeByPosition
    <3> DEFINE k == i + Len(q)
    <3>2. k \in 1..Len(q) + Len(s) /\ k \in 1..Len(t) /\ ~(k <= Len(q)) /\ k - Len(q) = i
      BY <1>1, <1>2
    <3> HIDE DEF k
    <3>3. x = t[k]
      BY <1>2, <3>1, <3>2
    <3> QED
      BY <1>2, <3>2, <3>3, RangeByPosition
  <2> QED
    BY <2>1, <2>2, <2>3
<1>7. Distinct(t)
  BY <1>2, <1>5, RangeByPosition DEF Distinct
<1> QED
  BY <1>6, <1>7 DEF t

\* The step of a queue: its head may leave, new requests line up behind.
LEMMA QueueStep ==
    ASSUME NEW q, Distinct(q), NEW taken \in SUBSET Heads(q),
           NEW s, Distinct(s), (Range(q) \ taken) \cap Range(s) = {}
    PROVE  /\ Distinct(Without(q, taken) \o s)
           /\ Range(Without(q, taken) \o s) = (Range(q) \ taken) \cup Range(s)
  BY WithoutFacts, JoinFacts

\* Append puts one request behind a queue.
LEMMA AppendFacts ==
    ASSUME NEW q, Distinct(q), NEW r \in Request, r \notin Range(q)
    PROVE  Distinct(Append(q, r)) /\ Range(Append(q, r)) = Range(q) \cup {r}
<1> DEFINE s == <<r>>
<1>1. s \in Seq(Request) /\ Len(s) = 1 /\ s[1] = r
  OBVIOUS
<1> HIDE DEF s
<1>2. Distinct(s)
  BY <1>1 DEF Distinct
<1>3. Range(s) = {r}
  BY <1>1, RangeByPosition
<1>4. Append(q, r) = q \o s
  BY DEF Distinct, s
<1> QED
  BY <1>2, <1>3, <1>4, JoinFacts

-----------------------------------------------------------------------------
(* Requests that enter, cross and leave the parts of the unit.             *)

PartsType == [Parts -> SUBSET Request]

\* Requests that move from one part to another are still in one part.
LEMMA Crossing ==
    ASSUME NEW C \in PartsType, NEW F, Partition(C, F),
           NEW p \in Parts, NEW q \in Parts, p # q, NEW T \in SUBSET C[p]
    PROVE  LET D == [C EXCEPT ![p] = @ \ T, ![q] = @ \cup T]
           IN  D \in PartsType /\ Partition(D, F)
<1> DEFINE D == [C EXCEPT ![p] = @ \ T, ![q] = @ \cup T]
<1>1. /\ D \in PartsType /\ D[p] = C[p] \ T /\ D[q] = C[q] \cup T
      /\ \A s \in Parts \ {p, q} : D[s] = C[s]
  BY DEF PartsType
<1> HIDE DEF D
<1>2. \A s \in Parts : D[s] \subseteq F
  BY <1>1 DEF Partition
<1>3. ASSUME NEW r \in F PROVE \E s \in Parts : r \in D[s]
  <2>1. PICK s \in Parts : r \in C[s]
    BY DEF Partition
  <2>2. CASE r \in T
    BY <1>1, <2>2
  <2>3. CASE r \notin T
    BY <1>1, <2>1, <2>3
  <2> QED
    BY <2>2, <2>3
<1>4. ASSUME NEW s \in Parts, NEW u \in Parts, s # u PROVE D[s] \cap D[u] = {}
  <2>1. C[s] \cap C[u] = {} /\ C[s] \cap C[p] \subseteq {r \in C[p] : s = p}
        /\ C[u] \cap C[p] \subseteq {r \in C[p] : u = p} /\ T \subseteq C[p]
    BY <1>4 DEF Partition
  <2>2. CASE s = p
    BY <1>1, <1>4, <2>1, <2>2
  <2>3. CASE u = p
    BY <1>1, <1>4, <2>1, <2>3
  <2>4. CASE s # p /\ u # p
    BY <1>1, <1>4, <2>1, <2>4
  <2> QED
    BY <2>2, <2>3, <2>4
<1> QED
  BY <1>1, <1>2, <1>3, <1>4, Zenon DEF Partition, D

\* Requests that are not in the unit yet enter one of its parts.
LEMMA Entering ==
    ASSUME NEW C \in PartsType, NEW F, Partition(C, F),
           NEW p \in Parts, NEW T \in SUBSET Request, T \cap F = {}
    PROVE  LET D == [C EXCEPT ![p] = @ \cup T]
           IN  D \in PartsType /\ Partition(D, F \cup T)
<1> DEFINE D == [C EXCEPT ![p] = @ \cup T]
<1>1. D \in PartsType /\ D[p] = C[p] \cup T /\ \A s \in Parts \ {p} : D[s] = C[s]
  BY DEF PartsType
<1> HIDE DEF D
<1>2. \A s \in Parts : D[s] \subseteq F \cup T
  BY <1>1 DEF Partition
<1>3. ASSUME NEW r \in F \cup T PROVE \E s \in Parts : r \in D[s]
  <2>1. CASE r \in T
    BY <1>1, <2>1
  <2>2. CASE r \in F
    <3>1. PICK s \in Parts : r \in C[s]
      BY <2>2 DEF Partition
    <3> QED
      BY <1>1, <3>1
  <2> QED
    BY <2>1, <2>2
<1>4. ASSUME NEW s \in Parts, NEW u \in Parts, s # u PROVE D[s] \cap D[u] = {}
  <2>1. C[s] \cap C[u] = {} /\ C[s] \subseteq F /\ C[u] \subseteq F
    BY <1>4 DEF Partition
  <2> QED
    BY <1>1, <1>4, <2>1
<1> QED
  BY <1>1, <1>2, <1>3, <1>4 DEF Partition, D

\* Requests that leave a part have left the unit.
LEMMA Leaving ==
    ASSUME NEW C \in PartsType, NEW F, Partition(C, F),
           NEW p \in Parts, NEW T \in SUBSET C[p]
    PROVE  LET D == [C EXCEPT ![p] = @ \ T]
           IN  D \in PartsType /\ Partition(D, F \ T)
<1> DEFINE D == [C EXCEPT ![p] = @ \ T]
<1>1. D \in PartsType /\ D[p] = C[p] \ T /\ \A s \in Parts \ {p} : D[s] = C[s]
  BY DEF PartsType
<1> HIDE DEF D
<1>2. \A s \in Parts : s # p => C[s] \cap T = {}
  BY DEF Partition
<1>3. \A s \in Parts : D[s] \subseteq F \ T
  BY <1>1, <1>2 DEF Partition
<1>4. ASSUME NEW r \in F \ T PROVE \E s \in Parts : r \in D[s]
  <2>1. PICK s \in Parts : r \in C[s]
    BY DEF Partition
  <2> QED
    BY <1>1, <2>1
<1>5. \A s, u \in Parts : s # u => D[s] \cap D[u] = {}
  BY <1>1 DEF Partition
<1> QED
  BY <1>1, <1>3, <1>4, <1>5 DEF Partition, D

\* The six kinds of parts, and what the unit holds in each.
LEMMA PartNames ==
    /\ <<"matched", 0>> \in Parts /\ <<"buffer", 0>> \in Parts /\ <<"empty", 0>> \in Parts
    /\ \A sc \in SubCores : /\ <<"sent", sc>> \in Parts
                             /\ <<"renamed", sc>> \in Parts
                             /\ <<"queue", sc>> \in Parts
    /\ \A p \in Parts :
          \/ p = <<"matched", 0>> \/ p = <<"buffer", 0>> \/ p = <<"empty", 0>>
          \/ \E sc \in SubCores :
                p = <<"sent", sc>> \/ p = <<"renamed", sc>> \/ p = <<"queue", sc>>
  BY DEF Parts

Holding(D) ==
    /\ D[<<"matched", 0>>] = Range(matched_requests)
    /\ D[<<"buffer", 0>>] = Range(inst_columns)
    /\ D[<<"empty", 0>>] = {c.request : c \in EmptyContexts}
    /\ \A sc \in SubCores : /\ D[<<"sent", sc>>] = Range(inst_column_q[sc])
                             /\ D[<<"renamed", sc>>] = Range(after_rename[sc])
                             /\ D[<<"queue", sc>>] = inst_queue[sc]

ContentsExact ==
    /\ Holding(Contents)
    /\ \A D \in PartsType : Holding(D) => D = Contents

\* Contents is the one function that says what every part holds.
LEMMA ContentsAre == ContentsExact
<1>1. Holding(Contents)
  BY PartNames, Zenon DEF Holding, Contents, RequestsIn
<1>2. ASSUME NEW D \in PartsType, Holding(D) PROVE D = Contents
  <2>1. DOMAIN D = Parts /\ DOMAIN Contents = Parts
    BY DEF PartsType, Contents
  <2>2. ASSUME NEW p \in Parts PROVE D[p] = Contents[p]
    <3>1. CASE p = <<"matched", 0>> \/ p = <<"buffer", 0>> \/ p = <<"empty", 0>>
      BY <1>1, <1>2, <3>1, Zenon DEF Holding
    <3>2. ASSUME NEW sc \in SubCores,
                 p = <<"sent", sc>> \/ p = <<"renamed", sc>> \/ p = <<"queue", sc>>
          PROVE  D[p] = Contents[p]
      <4>1. /\ D[<<"sent", sc>>] = Contents[<<"sent", sc>>]
            /\ D[<<"renamed", sc>>] = Contents[<<"renamed", sc>>]
            /\ D[<<"queue", sc>>] = Contents[<<"queue", sc>>]
        BY <1>1, <1>2, Zenon DEF Holding
      <4> QED
        BY <3>2, <4>1, Zenon
    <3> QED
      BY <3>1, <3>2, PartNames
  <2>3. Contents = [p \in Parts |-> Contents[p]]
    BY Zenon DEF Contents
  <2>4. D = [p \in Parts |-> D[p]]
    BY DEF PartsType
  <2>5. [p \in Parts |-> D[p]] = [p \in Parts |-> Contents[p]]
    BY <2>2, Zenon
  <2> QED
    BY <2>3, <2>4, <2>5, Zenon
<1> QED
  BY <1>1, <1>2 DEF ContentsExact

\* No sub-core has the number that marks an empty column's context.
LEMMA SubCoreNumbers == 0 \in SubCores /\ \A sc \in SubCores : sc \in Nat /\ sc # -1
  BY UnitSizesAssumption DEF SubCores

-----------------------------------------------------------------------------
(* The dependency table.                                                   *)

\* Counting no further column leaves an entry as it is.
LEMMA SameEntry ==
    ASSUME NEW e \in DependencyEntry
    PROVE  [e EXCEPT !.count = @ + 0] = e
  BY DEF DependencyEntry

\* The requests of a launch among those of a set, when one of them goes.
LEMMA OneLess ==
    ASSUME NEW A, IsFiniteSet(A), NEW x \in A
    PROVE  /\ Cardinality(A) \in Nat /\ Cardinality(A \ {x}) \in Nat
           /\ Cardinality(A \ {x}) = Cardinality(A) - 1
           /\ Cardinality(A) = 1 <=> A \ {x} = {}
<1>1. /\ IsFiniteSet(A \ {x}) /\ Cardinality(A \ {x}) = Cardinality(A) - 1
      /\ Cardinality(A) \in Nat
  BY FS_RemoveElement, FS_CardinalityType
<1>2. Cardinality(A \ {x}) \in Nat
  BY <1>1, FS_CardinalityType
<1>3. Cardinality(A \ {x}) = 0 <=> A \ {x} = {}
  BY <1>1, FS_EmptySet
<1> QED
  BY <1>1, <1>2, <1>3

\* A cycle that puts no column in the queue leaves the table as it is.
LEMMA PushNone ==
    ASSUME NEW sc, NEW queue, DependencyOK(dependency_info[sc], queue)
    PROVE  DependencyOK(DependencyPush(sc, {}), queue)
<1> DEFINE info == dependency_info[sc]
           info2 == DependencyPush(sc, {})
<1>1. \A l : {r \in {} : r.launch = l} = {}
  OBVIOUS
<1>2. /\ DOMAIN info2 = DOMAIN info
      /\ \A l \in DOMAIN info : info2[l] = [info[l] EXCEPT !.count = @ + 0]
  BY <1>1, FS_EmptySet DEF DependencyPush
<1>3. \A l \in DOMAIN info : info[l] \in DependencyEntry
  BY DEF DependencyOK
<1>4. \A l \in DOMAIN info : info2[l] = info[l]
  BY <1>2, <1>3, SameEntry
<1>5. PICK f : f = info2
  OBVIOUS
<1>6. \A x \in queue : x.launch \in DOMAIN info
  BY DEF DependencyOK, LaunchesOf
<1> HIDE DEF info2
<1>7. DependencyOK(f, queue)
  BY <1>2, <1>4, <1>5, <1>6 DEF DependencyOK
<1> QED
  BY <1>5, <1>7 DEF info2

\* InstructionQueue::push counts the column it takes.
LEMMA PushOne ==
    ASSUME NEW sc, NEW queue \in SUBSET Request, IsFiniteSet(queue),
           DependencyOK(dependency_info[sc], queue),
           NEW r \in Request, r \notin queue, SameStep(sc, r)
    PROVE  DependencyOK(DependencyPush(sc, {r}), queue \cup {r})
<1> DEFINE info == dependency_info[sc]
           info2 == DependencyPush(sc, {r})
           queue2 == queue \cup {r}
<1>1. /\ DOMAIN info = LaunchesOf(queue)
      /\ \A l \in DOMAIN info : info[l] \in DependencyEntry /\ info[l].count = Cardinality(ColumnsOf(l, queue))
      /\ \A x \in queue : info[x.launch].type = x.type /\ info[x.launch].body = x.body
  BY DEF DependencyOK
<1>2. r.type \in {"INITIALIZER", "KERNEL_BODY", "FINALIZER"} /\ r.body \in Nat
  BY DEF Request
<1>3. DOMAIN info2 = LaunchesOf(queue2)
  BY <1>1 DEF DependencyPush, LaunchesOf
<1>4. ASSUME NEW l \in DOMAIN info, l # r.launch
      PROVE  info2[l] = info[l] /\ ColumnsOf(l, queue2) = ColumnsOf(l, queue)
  <2>1. {x \in {r} : x.launch = l} = {}
    BY <1>4
  <2>2. info2[l] = [info[l] EXCEPT !.count = @ + 0]
    BY <2>1, FS_EmptySet, Zenon DEF DependencyPush
  <2>3. info2[l] = info[l]
    BY <1>1, <2>2, SameEntry
  <2> QED
    BY <1>4, <2>3 DEF ColumnsOf
<1>5. CASE r.launch \in DOMAIN info
  <2>1. {x \in {r} : x.launch = r.launch} = {r}
    OBVIOUS
  <2>2. info2[r.launch] = [info[r.launch] EXCEPT !.count = @ + 1]
    BY <1>5, <2>1, FS_Singleton DEF DependencyPush
  <2>3. /\ info2[r.launch] \in DependencyEntry
        /\ info2[r.launch].type = r.type /\ info2[r.launch].body = r.body
        /\ info2[r.launch].count = Cardinality(ColumnsOf(r.launch, queue)) + 1
    <3>1. /\ info[r.launch] \in DependencyEntry
          /\ info[r.launch].count = Cardinality(ColumnsOf(r.launch, queue))
      BY <1>1, <1>5
    <3>2. info[r.launch].type = r.type /\ info[r.launch].body = r.body
      BY <1>5 DEF SameStep
    <3> QED
      BY <2>2, <3>1, <3>2 DEF DependencyEntry
  <2>4. ColumnsOf(r.launch, queue2) = ColumnsOf(r.launch, queue) \cup {r}
    BY DEF ColumnsOf
  <2>5. Cardinality(ColumnsOf(r.launch, queue2)) = Cardinality(ColumnsOf(r.launch, queue)) + 1
    <3>1. IsFiniteSet(ColumnsOf(r.launch, queue)) /\ r \notin ColumnsOf(r.launch, queue)
      BY FS_Subset DEF ColumnsOf
    <3> QED
      BY <2>4, <3>1, FS_AddElement, Zenon
  <2>6. \A x \in queue : x.launch = r.launch => x.type = r.type /\ x.body = r.body
    BY <1>1, <1>5 DEF SameStep, LaunchesOf
  <2>7. DOMAIN info2 = DOMAIN info
    BY <1>1, <1>3, <1>5, Zenon DEF LaunchesOf
  <2> HIDE DEF info2
  <2> QED
    <3>1. \A l \in DOMAIN info2 :
             info2[l] \in DependencyEntry /\ info2[l].count = Cardinality(ColumnsOf(l, queue2))
      BY <1>1, <1>4, <2>3, <2>5, <2>7, ZenonT(40)
    <3>2. \A x \in queue2 : info2[x.launch].type = x.type /\ info2[x.launch].body = x.body
      BY <1>1, <1>4, <2>3, <2>6 DEF LaunchesOf
    <3>3. DependencyOK(info2, queue2)
      BY <1>3, <3>1, <3>2, Zenon DEF DependencyOK
    <3> QED
      BY <3>3 DEF info2
<1>6. CASE r.launch \notin DOMAIN info
  <2>1. info2[r.launch] = [type |-> r.type, body |-> r.body, count |-> 1]
    <3>1. (CHOOSE q \in {r} : q.launch = r.launch) = r
      OBVIOUS
    <3> QED
      BY <1>6, <3>1 DEF DependencyPush
  <2>2. ColumnsOf(r.launch, queue2) = {r}
    BY <1>1, <1>6 DEF ColumnsOf, LaunchesOf
  <2>3. Cardinality(ColumnsOf(r.launch, queue2)) = 1
    BY <2>2, FS_Singleton, Zenon
  <2>4. /\ info2[r.launch] \in DependencyEntry
        /\ info2[r.launch].type = r.type /\ info2[r.launch].body = r.body
        /\ info2[r.launch].count = 1
    BY <1>2, <2>1 DEF DependencyEntry
  <2>5. \A l \in DOMAIN info2 : l = r.launch \/ (l \in DOMAIN info /\ l # r.launch)
    BY <1>1, <1>3 DEF LaunchesOf
  <2> HIDE DEF info2
  <2> QED
    <3>1. \A l \in DOMAIN info2 :
             info2[l] \in DependencyEntry /\ info2[l].count = Cardinality(ColumnsOf(l, queue2))
      BY <1>1, <1>4, <2>3, <2>4, <2>5, ZenonT(40)
    <3>2. \A x \in queue2 : info2[x.launch].type = x.type /\ info2[x.launch].body = x.body
      BY <1>1, <1>4, <1>6, <2>4 DEF LaunchesOf
    <3>3. DependencyOK(info2, queue2)
      BY <1>3, <3>1, <3>2, Zenon DEF DependencyOK
    <3> QED
      BY <3>3 DEF info2
<1> QED
  BY <1>5, <1>6

\* finish_inst_column takes the column out of the count, and the entry away
\* with its last column.
LEMMA FinishOne ==
    ASSUME NEW sc, NEW queue \in SUBSET Request, IsFiniteSet(queue),
           DependencyOK(dependency_info[sc], queue), NEW r \in queue
    PROVE  DependencyOK(DependencyFinish(sc, r), queue \ {r})
<1> DEFINE info == dependency_info[sc]
           info2 == DependencyFinish(sc, r)
           queue2 == queue \ {r}
           last == info[r.launch].count = 1
<1>1. /\ DOMAIN info = LaunchesOf(queue)
      /\ \A l \in DOMAIN info : info[l] \in DependencyEntry /\ info[l].count = Cardinality(ColumnsOf(l, queue))
      /\ \A x \in queue : info[x.launch].type = x.type /\ info[x.launch].body = x.body
      /\ r.launch \in DOMAIN info
  BY DEF DependencyOK, LaunchesOf
<1>2. /\ IsFiniteSet(ColumnsOf(r.launch, queue)) /\ r \in ColumnsOf(r.launch, queue)
      /\ ColumnsOf(r.launch, queue2) = ColumnsOf(r.launch, queue) \ {r}
  BY FS_Subset DEF ColumnsOf
<1>3. PICK A : A = ColumnsOf(r.launch, queue)
  OBVIOUS
<1>4. /\ Cardinality(A) \in Nat /\ Cardinality(A \ {r}) \in Nat
      /\ Cardinality(A \ {r}) = Cardinality(A) - 1
      /\ last <=> A \ {r} = {}
  <2>1. /\ Cardinality(A) \in Nat /\ Cardinality(A \ {r}) \in Nat
        /\ Cardinality(A \ {r}) = Cardinality(A) - 1
        /\ Cardinality(A) = 1 <=> A \ {r} = {}
    BY <1>2, <1>3, OneLess
  <2>2. info[r.launch].count = Cardinality(A)
    BY <1>1, <1>3
  <2> QED
    BY <2>1, <2>2
<1>5. /\ DOMAIN info2 = {m \in DOMAIN info : m = r.launch => ~last}
      /\ \A l \in DOMAIN info2 :
            info2[l] = IF l = r.launch THEN [info[l] EXCEPT !.count = @ - 1] ELSE info[l]
  BY DEF DependencyFinish
<1> HIDE DEF info2
<1>6. DOMAIN info2 = LaunchesOf(queue2)
  <2>1. ASSUME NEW l \in DOMAIN info2 PROVE \E x \in queue2 : x.launch = l
    <3>1. CASE l = r.launch
      BY <1>2, <1>3, <1>4, <1>5, <3>1 DEF ColumnsOf
    <3>2. CASE l # r.launch
      BY <1>1, <1>5, <3>2 DEF LaunchesOf
    <3> QED
      BY <3>1, <3>2
  <2>2. ASSUME NEW x \in queue2 PROVE x.launch \in DOMAIN info2
    <3>1. x.launch = r.launch => A \ {r} # {}
      BY <1>2, <1>3 DEF ColumnsOf
    <3> QED
      BY <1>1, <1>4, <1>5, <3>1 DEF LaunchesOf
  <2> QED
    BY <2>1, <2>2 DEF LaunchesOf
<1>7. ASSUME NEW l \in DOMAIN info2, l # r.launch
      PROVE  info2[l] = info[l] /\ ColumnsOf(l, queue2) = ColumnsOf(l, queue) /\ l \in DOMAIN info
  BY <1>5, <1>7, Zenon DEF ColumnsOf
<1>8. ASSUME r.launch \in DOMAIN info2
      PROVE  /\ info2[r.launch] \in DependencyEntry
             /\ info2[r.launch].type = info[r.launch].type
             /\ info2[r.launch].body = info[r.launch].body
             /\ info2[r.launch].count = Cardinality(ColumnsOf(r.launch, queue2))
  <2>1. info2[r.launch] = [info[r.launch] EXCEPT !.count = @ - 1]
    BY <1>5, <1>8
  <2>2. info[r.launch].count = Cardinality(A) /\ ColumnsOf(r.launch, queue2) = A \ {r}
    BY <1>1, <1>2, <1>3, Zenon
  <2>3. info[r.launch] \in DependencyEntry
    BY <1>1
  <2> QED
    BY <1>4, <2>1, <2>2, <2>3, ZenonT(40) DEF DependencyEntry
<1>9. \A l \in DOMAIN info2 :
         info2[l] \in DependencyEntry /\ info2[l].count = Cardinality(ColumnsOf(l, queue2))
  BY <1>1, <1>7, <1>8
<1>10. \A x \in queue2 : info2[x.launch].type = x.type /\ info2[x.launch].body = x.body
  BY <1>1, <1>6, <1>7, <1>8 DEF LaunchesOf
<1>11. DependencyOK(info2, queue2)
  BY <1>6, <1>9, <1>10, Zenon DEF DependencyOK
<1> QED
  BY <1>11 DEF info2

-----------------------------------------------------------------------------
(* The unit's steps are steps of the generator.                            *)

\* Whatever a part of the unit or a finished context holds is in flight.
LEMMA InParts ==
    ASSUME IInv, UnitInv
    PROVE  /\ Contents \in PartsType /\ Partition(Contents, in_flight)
           /\ Holding(Contents)
           /\ in_flight \subseteq Request /\ IsFiniteSet(in_flight)
           /\ \A p \in Parts : Contents[p] \subseteq in_flight
           /\ \A c \in finished_contexts : c.request \in in_flight
<1>1. in_flight \subseteq Request /\ IsFiniteSet(in_flight)
  BY DEF IInv, TypeOK, FlowOK
<1>2. Partition(Contents, in_flight) /\ \A p \in Parts : Contents[p] \subseteq in_flight
  BY DEF UnitInv, Partition
<1>3. Contents \in PartsType
  <2>1. \A p \in Parts : RequestsIn(p) \in SUBSET Request
    BY <1>1, <1>2 DEF Contents
  <2> QED
    BY <2>1 DEF Contents, PartsType
<1>4. ASSUME NEW c \in finished_contexts PROVE c.request \in in_flight
  <2>1. Holding(Contents)
    BY ContentsAre DEF ContentsExact
  <2>2. CASE c.sub_core = -1
    <3>1. c.request \in Contents[<<"empty", 0>>]
      BY <2>1, <2>2 DEF Holding, EmptyContexts
    <3> QED
      BY <1>2, <3>1, PartNames
  <2>3. CASE c.sub_core # -1
    <3>1. c.sub_core \in SubCores /\ c.request \in inst_queue[c.sub_core]
      BY <2>3 DEF UnitInv
    <3>2. c.request \in Contents[<<"queue", c.sub_core>>]
      BY <2>1, <3>1, Zenon DEF Holding
    <3> QED
      BY <1>2, <3>1, <3>2, PartNames, Zenon
  <2> QED
    BY <2>2, <2>3
<1> QED
  BY <1>1, <1>2, <1>3, <1>4, ContentsAre DEF ContentsExact

\* Every step of the unit is a step of the generator or leaves it alone: the
\* one thing the unit does to the generator on its own account, counting a
\* finished context, it does for a request in flight.
LEMMA GeneratorStep ==
    ASSUME IInv, UnitInv, UnitNext
    PROVE  [Next]_generator_vars
<1>1. CASE BeginCycle \/ AllFinishedHandled
  BY <1>1 DEF BeginCycle, AllFinishedHandled
<1>2. CASE HandleFinished
  <2>1. PICK c \in finished_contexts : handle_finished_context(c.request)
    BY <1>2 DEF HandleFinished
  <2>2. c.request \in in_flight
    BY InParts
  <2> QED
    BY <2>1, <2>2 DEF Next
<1>3. CASE \E sc \in SubCores : \E done \in SUBSET Running(sc) : SubCoreCycle(sc, done)
  BY <1>3 DEF SubCoreCycle
<1>4. CASE Generate
  <2>1. generate_uthreads(CoarseThreads) \/ UNCHANGED generator_vars
    BY <1>4 DEF Generate
  <2> QED
    BY <2>1 DEF Next
<1>5. CASE GenerateUthread
  BY <1>5 DEF GenerateUthread, Next
<1>6. CASE Dispatch
  BY <1>6 DEF Dispatch, Next
<1>7. CASE \E k \in KernelIds : register_ndp_kernel(k)
  BY <1>7 DEF register_ndp_kernel, Next
<1>8. CASE \E info \in KernelLaunchInfo : launch_ndp_kernel(info)
  BY <1>8 DEF launch_ndp_kernel, Next
<1>9. CASE uthread_request
  BY <1>9 DEF uthread_request, Next
<1> QED
  BY <1>1, <1>2, <1>3, <1>4, <1>5, <1>6, <1>7, <1>8, <1>9 DEF UnitNext, UnitCycle

-----------------------------------------------------------------------------
(* The registers that requests hold.                                       *)

\* The pairs of a request of T and a register f maps for it.
Pairs(T, f) == UNION {{r} \X f[r] : r \in T}

\* Sets that share nothing add up.
LEMMA DisjointSum ==
    ASSUME NEW P, NEW N, IsFiniteSet(P), IsFiniteSet(N), P \cap N = {}
    PROVE  /\ IsFiniteSet(P \cup N) /\ Cardinality(P) \in Nat /\ Cardinality(N) \in Nat
           /\ Cardinality(P \cup N) = Cardinality(P) + Cardinality(N)
<1>1. IsFiniteSet(P \cup N)
      /\ Cardinality(P \cup N) = Cardinality(P) + Cardinality(N) - Cardinality(P \cap N)
  BY FS_Union
<1>2. Cardinality(P \cap N) = 0
  BY FS_EmptySet
<1> QED
  BY <1>1, <1>2, FS_CardinalityType

\* A request that is not in T adds its registers to the pairs.
LEMMA PairsOneMore ==
    ASSUME NEW T, NEW f, NEW r, r \notin T, IsFiniteSet(Pairs(T, f)), IsFiniteSet(f[r])
    PROVE  /\ IsFiniteSet(Pairs(T \cup {r}, f))
           /\ Cardinality(Pairs(T, f)) \in Nat /\ Cardinality(f[r]) \in Nat
           /\ Cardinality(Pairs(T \cup {r}, f)) = Cardinality(Pairs(T, f)) + Cardinality(f[r])
<1>1. \A S : \A x : x \in Pairs(S, f) <=> \E q \in S : \E m \in f[q] : x = <<q, m>>
  BY DEF Pairs
<1>2. PICK P, P2, N : P = Pairs(T, f) /\ P2 = Pairs(T \cup {r}, f) /\ N = {r} \X f[r]
  BY Zenon
<1>3. /\ IsFiniteSet(N) /\ Cardinality(N) = 1 * Cardinality(f[r])
      /\ Cardinality(f[r]) \in Nat /\ Cardinality(P) \in Nat
  <2>1. IsFiniteSet({r}) /\ Cardinality({r}) = 1
    BY FS_Singleton, Zenon
  <2>2. IsFiniteSet({r} \X f[r]) /\ Cardinality({r} \X f[r]) = Cardinality({r}) * Cardinality(f[r])
    BY <2>1, FS_Product, Zenon
  <2>3. Cardinality(f[r]) \in Nat /\ Cardinality(P) \in Nat
    BY <1>2, FS_CardinalityType
  <2> QED
    BY <1>2, <2>1, <2>2, <2>3, Zenon
<1>4. P \cap N = {}
  BY <1>1, <1>2
<1>5. P2 = P \cup N
  BY <1>1, <1>2
<1>6. IsFiniteSet(P2) /\ Cardinality(P2) = Cardinality(P) + Cardinality(N)
  <2>1. IsFiniteSet(P) /\ IsFiniteSet(N)
    BY <1>2, <1>3
  <2>2. IsFiniteSet(P \cup N) /\ Cardinality(P \cup N) = Cardinality(P) + Cardinality(N)
    BY <1>4, <2>1, DisjointSum
  <2> QED
    BY <1>5, <2>2
<1> QED
  BY <1>2, <1>3, <1>6

\* The balance of the free lists, in terms of RegsOf.
Balanced(free, T, f) == /\ free \in Int /\ IsFiniteSet(Pairs(T, f))
                        /\ free + Cardinality(Pairs(T, f)) = NumXregs

\* A request takes its registers.
LEMMA Take ==
    ASSUME NEW free, NEW T, NEW f, NEW r, r \notin T, IsFiniteSet(f[r]), Balanced(free, T, f)
    PROVE  Balanced(free - Cardinality(f[r]), T \cup {r}, f)
<1>1. /\ IsFiniteSet(Pairs(T, f)) /\ free \in Int /\ NumXregs \in Nat
      /\ free + Cardinality(Pairs(T, f)) = NumXregs
  BY UnitSizesAssumption DEF Balanced
<1>2. /\ IsFiniteSet(Pairs(T \cup {r}, f))
      /\ Cardinality(Pairs(T, f)) \in Nat /\ Cardinality(f[r]) \in Nat
      /\ Cardinality(Pairs(T \cup {r}, f)) = Cardinality(Pairs(T, f)) + Cardinality(f[r])
  BY <1>1, PairsOneMore
<1> QED
  BY <1>1, <1>2 DEF Balanced

\* A request that leaves gives its registers back.
LEMMA GiveBack ==
    ASSUME NEW free, NEW U, NEW f, NEW r, r \notin U, IsFiniteSet(f[r]),
           Balanced(free, U \cup {r}, f)
    PROVE  Balanced(free + Cardinality(f[r]), U, f)
<1>1. /\ IsFiniteSet(Pairs(U \cup {r}, f)) /\ free \in Int /\ NumXregs \in Nat
      /\ free + Cardinality(Pairs(U \cup {r}, f)) = NumXregs
  BY UnitSizesAssumption DEF Balanced
<1>2. IsFiniteSet(Pairs(U, f))
  <2>1. Pairs(U, f) \subseteq Pairs(U \cup {r}, f)
    BY DEF Pairs
  <2> QED
    BY <1>1, <2>1, FS_Subset, Zenon
<1>3. /\ IsFiniteSet(Pairs(U \cup {r}, f))
      /\ Cardinality(Pairs(U, f)) \in Nat /\ Cardinality(f[r]) \in Nat
      /\ Cardinality(Pairs(U \cup {r}, f)) = Cardinality(Pairs(U, f)) + Cardinality(f[r])
  BY <1>2, PairsOneMore
<1> QED
  BY <1>1, <1>2, <1>3 DEF Balanced
=============================================================================

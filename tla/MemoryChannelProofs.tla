------------------------ MODULE MemoryChannelProofs ------------------------
(***************************************************************************)
(* Proof that the loads a memory channel has parked have exactly one       *)
(* back-invalidation behind them, unless an L1 has answered it, for every  *)
(* number of banks, blocks, units of addresses and requests, and every     *)
(* size of the queues and the cache.                                       *)
(*                                                                         *)
(* A request changes on its way (its id, its op), so that the set of the   *)
(* requests under way does not say how many there are.  The invariant      *)
(* counts places instead: for each unit, the places that hold a            *)
(* back-invalidation of it.                                                *)
(***************************************************************************)
EXTENDS MemoryChannel, DataCacheProofs

-----------------------------------------------------------------------------
(* The back-invalidations of a unit in a family of queues, one per bank.   *)

\* Requests that are not waiting at the host: a back-invalidation among them
\* has become a write.
Request == [id : Nat, op : {"read", "write"}, block : Blocks, sector : Sectors,
            n : Nat, bi : BOOLEAN]

Moving == {mf \in Request : mf.bi => mf.op = "write"}

BiOf(mf, u) == mf.bi /\ Unit(mf) = u

InSet(S, u) == {mf \in S : BiOf(mf, u)}

InQueue(q, u) ==
    {p \in Banks \X (Nat \ {0}) : p[2] <= Len(q[p[1]]) /\ BiOf(q[p[1]][p[2]], u)}

Single(S) == \A x, y \in S : x = y

-----------------------------------------------------------------------------
(* The places in a queue, when a request is added or taken.                *)

\* A request that is no back-invalidation of the unit adds no place.
LEMMA PushOther ==
    ASSUME NEW q \in [Banks -> Seq(Moving)], NEW b \in Banks, NEW mf \in Moving,
           NEW u, ~BiOf(mf, u)
    PROVE  InQueue(push(q, b, mf), u) = InQueue(q, u)
<1> DEFINE r == push(q, b, mf)
<1>1. r \in [Banks -> Seq(Moving)] /\ r[b] = Append(q[b], mf)
      /\ \A c \in Banks \ {b} : r[c] = q[c]
  BY DEF push
<1>2. /\ q[b] \in Seq(Moving) /\ Len(q[b]) \in Nat /\ Len(r[b]) = Len(q[b]) + 1
      /\ r[b][Len(q[b]) + 1] = mf
      /\ \A i \in 1..Len(q[b]) : r[b][i] = q[b][i]
  BY <1>1
<1> HIDE DEF r
<1>3. ASSUME NEW c \in Banks, NEW i \in Nat \ {0}
      PROVE  (i <= Len(r[c]) /\ BiOf(r[c][i], u)) <=> (i <= Len(q[c]) /\ BiOf(q[c][i], u))
  <2>1. CASE c # b
    BY <1>1, <2>1
  <2>2. CASE c = b /\ i <= Len(q[b])
    BY <1>2, <2>2
  <2>3. CASE c = b /\ i = Len(q[b]) + 1
    BY <1>2, <2>3
  <2>4. CASE c = b /\ i > Len(q[b]) + 1
    BY <1>2, <2>4
  <2> QED
    BY <1>2, <2>1, <2>2, <2>3, <2>4
<1>4. InQueue(r, u) = InQueue(q, u)
  BY <1>3 DEF InQueue
<1> QED
  BY <1>4 DEF r

\* The first back-invalidation of the unit is then the only one.
LEMMA PushBi ==
    ASSUME NEW q \in [Banks -> Seq(Moving)], NEW b \in Banks, NEW mf \in Moving,
           NEW u, BiOf(mf, u), InQueue(q, u) = {}
    PROVE  /\ Single(InQueue(push(q, b, mf), u))
           /\ InQueue(push(q, b, mf), u) # {}
<1> DEFINE r == push(q, b, mf)
           n == Len(q[b]) + 1
<1>1. r \in [Banks -> Seq(Moving)] /\ r[b] = Append(q[b], mf)
      /\ \A c \in Banks \ {b} : r[c] = q[c]
  BY DEF push
<1>2. /\ q[b] \in Seq(Moving) /\ Len(q[b]) \in Nat /\ Len(r[b]) = n
      /\ r[b][n] = mf /\ n \in Nat \ {0}
      /\ \A i \in 1..Len(q[b]) : r[b][i] = q[b][i]
  BY <1>1
<1> HIDE DEF r
<1>3. \A c \in Banks, i \in Nat \ {0} : ~(i <= Len(q[c]) /\ BiOf(q[c][i], u))
  <2> SUFFICES ASSUME NEW c \in Banks, NEW i \in Nat \ {0},
                      i <= Len(q[c]) /\ BiOf(q[c][i], u)
               PROVE  FALSE
    OBVIOUS
  <2>1. <<c, i>> \in InQueue(q, u)
    BY DEF InQueue
  <2> QED
    BY <2>1
<1>4. ASSUME NEW c \in Banks, NEW i \in Nat \ {0}
      PROVE  (i <= Len(r[c]) /\ BiOf(r[c][i], u)) <=> (c = b /\ i = n)
  <2>1. CASE c # b
    BY <1>1, <1>3, <2>1
  <2>2. CASE c = b /\ i <= Len(q[b])
    BY <1>2, <1>3, <2>2
  <2>3. CASE c = b /\ i = n
    BY <1>2, <2>3
  <2>4. CASE c = b /\ i > n
    BY <1>2, <2>4
  <2> QED
    BY <1>2, <2>1, <2>2, <2>3, <2>4
<1>5. InQueue(r, u) = {<<b, n>>}
  BY <1>2, <1>4 DEF InQueue
<1> QED
  BY <1>5 DEF r, Single

\* Taking the only back-invalidation of the unit leaves none, taking another
\* request moves it at most.
LEMMA PopOne ==
    ASSUME NEW q \in [Banks -> Seq(Moving)], NEW b \in Banks, q[b] # <<>>,
           NEW u, Single(InQueue(q, u))
    PROVE  /\ BiOf(Head(q[b]), u) => InQueue(q, u) # {} /\ InQueue(pop(q, b), u) = {}
           /\ ~BiOf(Head(q[b]), u) => /\ Single(InQueue(pop(q, b), u))
                                      /\ InQueue(pop(q, b), u) = {} <=> InQueue(q, u) = {}
<1> DEFINE r == pop(q, b)
           At(f, c, i) == i <= Len(f[c]) /\ BiOf(f[c][i], u)
           was(c, i) == IF c = b THEN i + 1 ELSE i
<1>1. r[b] = Tail(q[b]) /\ \A c \in Banks \ {b} : r[c] = q[c]
  BY DEF pop
<1>2. /\ q[b] \in Seq(Moving) /\ Len(q[b]) \in Nat \ {0} /\ Head(q[b]) = q[b][1]
      /\ Len(r[b]) = Len(q[b]) - 1
      /\ \A i \in 1..Len(r[b]) : r[b][i] = q[b][i + 1]
  <2>1. q[b] \in Seq(Moving)
    OBVIOUS
  <2> QED
    BY <1>1, <2>1
<1> HIDE DEF r
<1>3. ASSUME NEW c \in Banks, NEW i \in Nat \ {0}
      PROVE  At(r, c, i) <=> At(q, c, was(c, i))
  <2>1. CASE c # b
    BY <1>1, <2>1
  <2>2. CASE c = b /\ i <= Len(r[b])
    BY <1>2, <2>2
  <2>3. CASE c = b /\ i > Len(r[b])
    BY <1>2, <2>3
  <2> QED
    BY <1>2, <2>1, <2>2, <2>3
<1>4. \A c \in Banks, i \in Nat \ {0} : was(c, i) \in Nat \ {0}
  OBVIOUS
<1>5. \A c \in Banks, i \in Nat \ {0} : /\ At(q, c, i) <=> <<c, i>> \in InQueue(q, u)
                                        /\ At(r, c, i) <=> <<c, i>> \in InQueue(r, u)
  BY DEF InQueue
<1>6. \A c, d \in Banks, i, j \in Nat \ {0} : At(q, c, i) /\ At(q, d, j) => c = d /\ i = j
  <2> SUFFICES ASSUME NEW c \in Banks, NEW d \in Banks, NEW i \in Nat \ {0},
                      NEW j \in Nat \ {0}, At(q, c, i), At(q, d, j)
               PROVE  c = d /\ i = j
    OBVIOUS
  <2>1. <<c, i>> = <<d, j>>
    BY <1>5, Zenon DEF Single
  <2> QED
    BY <2>1
<1>7. ASSUME NEW f, NEW x \in InQueue(f, u)
      PROVE  \E c \in Banks, i \in Nat \ {0} : x = <<c, i>> /\ At(f, c, i)
  <2>1. /\ x \in Banks \X (Nat \ {0})
        /\ x[2] <= Len(f[x[1]]) /\ BiOf(f[x[1]][x[2]], u)
    BY <1>7 DEF InQueue
  <2>2. x[1] \in Banks /\ x[2] \in Nat \ {0} /\ x = <<x[1], x[2]>>
    BY <2>1
  <2> QED
    BY <2>1, <2>2, Zenon
<1>8. BiOf(Head(q[b]), u) <=> At(q, b, 1)
  BY <1>2
<1> HIDE DEF At
<1>9. CASE BiOf(Head(q[b]), u)
  <2>1. ASSUME NEW c \in Banks, NEW i \in Nat \ {0}, At(r, c, i)
        PROVE  FALSE
    <3>1. At(q, c, was(c, i))
      BY <1>3, <2>1
    <3>2. c = b /\ was(c, i) = 1
      BY <1>4, <1>6, <1>8, <1>9, <3>1
    <3> QED
      BY <3>2
  <2> QED
    <3>1. <<b, 1>> \in InQueue(q, u)
      BY <1>5, <1>8, <1>9
    <3>2. InQueue(r, u) = {}
      BY <1>7, <2>1
    <3> QED
      BY <1>9, <3>1, <3>2 DEF r
<1>10. CASE ~BiOf(Head(q[b]), u)
  <2>1. Single(InQueue(r, u))
    <3> SUFFICES ASSUME NEW x \in InQueue(r, u), NEW y \in InQueue(r, u)
                 PROVE  x = y
      BY DEF Single
    <3>1. PICK c \in Banks, i \in Nat \ {0} : x = <<c, i>> /\ At(r, c, i)
      BY <1>7
    <3>2. PICK d \in Banks, j \in Nat \ {0} : y = <<d, j>> /\ At(r, d, j)
      BY <1>7
    <3>3. c = d /\ was(c, i) = was(d, j)
      <4>1. At(q, c, was(c, i)) /\ was(c, i) \in Nat \ {0}
        BY <1>3, <1>4, <3>1
      <4>2. At(q, d, was(d, j)) /\ was(d, j) \in Nat \ {0}
        BY <1>3, <1>4, <3>2
      <4> HIDE DEF was
      <4> QED
        BY <1>6, <4>1, <4>2
    <3>4. i = j
      BY <3>3
    <3> QED
      BY <3>1, <3>2, <3>3, <3>4
  <2>2. ASSUME NEW c \in Banks, NEW i \in Nat \ {0}, At(q, c, i)
        PROVE  \E j \in Nat \ {0} : At(r, c, j)
    <3>1. CASE c = b
      <4>1. i # 1
        BY <1>8, <1>10, <2>2, <3>1
      <4>2. i - 1 \in Nat \ {0} /\ was(c, i - 1) = i
        BY <3>1, <4>1
      <4> QED
        BY <1>3, <2>2, <4>2, Zenon
    <3>2. CASE c # b
      BY <1>3, <2>2, <3>2
    <3> QED
      BY <3>1, <3>2
  <2>3. ASSUME NEW c \in Banks, NEW i \in Nat \ {0}, At(r, c, i)
        PROVE  \E j \in Nat \ {0} : At(q, c, j)
    BY <1>3, <1>4, <2>3, Zenon
  <2>4. InQueue(r, u) # {} => InQueue(q, u) # {}
    BY <1>5, <1>7, <2>3, Zenon
  <2>5. InQueue(q, u) # {} => InQueue(r, u) # {}
    BY <1>5, <1>7, <2>2, Zenon
  <2> QED
    BY <1>10, <2>1, <2>4, <2>5 DEF r
<1> QED
  BY <1>9, <1>10

-----------------------------------------------------------------------------
(* The invariant.                                                          *)

\* A unit is in progress, and no L1 has answered for it, when one place holds a
\* back-invalidation of it: at the host (h), in the crossbar (t), or in a queue
\* before (f) or behind (l) the cache.
OnePlace(h, t, f, l) ==
    /\ Single(h) /\ Single(t) /\ Single(f) /\ Single(l)
    /\ t # {} => h = {}
    /\ f # {} => h = {} /\ t = {}
    /\ l # {} => h = {} /\ t = {} /\ f = {}

Counted(u) ==
    /\ OnePlace(InSet(at_host, u), InSet(travelling, u), InQueue(from_crossbar, u),
                InQueue(latency, u))
    /\ u \in inprogress \ l1_answered
         <=> \/ InSet(at_host, u) # {} \/ InSet(travelling, u) # {}
             \/ InQueue(from_crossbar, u) # {} \/ InQueue(latency, u) # {}

\* The loads that may wait in the MSHR table.
Waiting == {mf \in Moving : mf.op = "read"}

WayInv ==
    /\ policy \in Policies /\ next_id \in Nat /\ issued \in Nat
    /\ at_host \subseteq {mf \in Request : mf.bi}
    /\ travelling \subseteq Moving
    /\ from_crossbar \in [Banks -> Seq(Moving)]
    /\ latency \in [Banks -> Seq(Moving)]

BiInv ==
    /\ \A u \in Units : Counted(u)
    /\ DOMAIN pending_lds = Units
    /\ \A u \in Units : pending_lds[u] # <<>> \/ u \in l1_answered => u \in inprogress

ChannelInv == TableInv(Waiting) /\ WayInv /\ BiInv

\* A step outside the way of a request from the host to the latency queue.
LEMMA WayUnchanged ==
    ASSUME WayInv, BiInv,
           UNCHANGED <<policy, next_id, issued, at_host, travelling, from_crossbar, latency,
                       pending_lds, inprogress, l1_answered>>
    PROVE  WayInv' /\ BiInv'
  BY DEF WayInv, BiInv, Counted

\* Everything starts empty.
LEMMA ChannelInvInit == ChannelInit => ChannelInv
<1> SUFFICES ASSUME ChannelInit PROVE ChannelInv
  OBVIOUS
<1>1. CacheInit /\ TableInv(Waiting)
  BY TableInit DEF ChannelInit
<1>2. WayInv
  BY <1>1 DEF ChannelInit, CacheInit, WayInv
<1>3. ASSUME NEW u \in Units PROVE Counted(u)
  <2>1. InSet(at_host, u) = {} /\ InSet(travelling, u) = {}
    BY DEF ChannelInit, InSet
  <2>2. InQueue(from_crossbar, u) = {} /\ InQueue(latency, u) = {}
    BY DEF ChannelInit, InQueue
  <2> QED
    BY <2>1, <2>2 DEF ChannelInit, Counted, OnePlace, Single
<1>4. BiInv
  BY <1>3 DEF ChannelInit, BiInv
<1> QED
  BY <1>1, <1>2, <1>4 DEF ChannelInv

\* A unit without a back-invalidation anywhere may get one.
LEMMA WayNewLoad ==
    ASSUME WayInv, BiInv, NEW b \in Blocks, NEW bi \in BOOLEAN, NewLoad(b, bi)
    PROVE  WayInv' /\ BiInv'
<1>0. PICK mf : mf = [id |-> 0, op |-> "read", block |-> b, sector |-> 0,
                      n |-> issued', bi |-> bi]
  BY Zenon
<1>1. /\ issued' = issued + 1
      /\ UNCHANGED <<policy, next_id, from_crossbar, latency, pending_lds, l1_answered>>
  BY DEF NewLoad, cache_vars, queueVars
<1>2. mf \in Request /\ Unit(mf) \in Units /\ (mf.bi <=> bi)
  BY <1>0, <1>1, ChannelAssumption DEF WayInv, Request, Unit, Units, Sectors
<1>3. \/ /\ bi
         /\ Unit(mf) \notin inprogress
         /\ inprogress' = inprogress \cup {Unit(mf)}
         /\ at_host' = at_host \cup {mf}
         /\ UNCHANGED travelling
      \/ /\ ~bi
         /\ travelling' = travelling \cup {mf}
         /\ UNCHANGED <<inprogress, at_host>>
  BY <1>0 DEF NewLoad, MarkLoad
<1>4. CASE bi
  <2>1. WayInv'
    <3>1. mf \in {f \in Request : f.bi}
      BY <1>2, <1>4
    <3>2. at_host' = at_host \cup {mf} /\ travelling' = travelling
      BY <1>3, <1>4
    <3> QED
      BY <1>1, <3>1, <3>2 DEF WayInv
  <2>2. ASSUME NEW u \in Units, u # Unit(mf) PROVE Counted(u)'
    <3>1. InSet(at_host', u) = InSet(at_host, u)
      BY <1>3, <1>4, <2>2 DEF InSet, BiOf
    <3>2. Counted(u)
      BY DEF BiInv
    <3> QED
      BY <1>1, <1>3, <1>4, <2>2, <3>1, <3>2 DEF Counted
  <2>3. Counted(Unit(mf))'
    <3>1. Counted(Unit(mf)) /\ Unit(mf) \notin inprogress /\ Unit(mf) \notin l1_answered
      BY <1>2, <1>3, <1>4 DEF BiInv
    <3>2. InSet(at_host, Unit(mf)) = {}
      BY <3>1 DEF Counted
    <3>3. InSet(at_host', Unit(mf)) = {mf}
      BY <1>2, <1>3, <1>4, <3>2 DEF InSet, BiOf
    <3> QED
      BY <1>1, <1>3, <1>4, <3>1, <3>3 DEF Counted, OnePlace, Single
  <2> QED
    BY <1>1, <1>3, <1>4, <2>1, <2>2, <2>3 DEF BiInv
<1>5. CASE ~bi
  <2>1. mf \in Moving
    BY <1>2, <1>5 DEF Moving
  <2>2. WayInv'
    BY <1>1, <1>3, <1>5, <2>1 DEF WayInv
  <2>3. ASSUME NEW u \in Units PROVE Counted(u)'
    <3>1. InSet(travelling', u) = InSet(travelling, u)
      BY <1>2, <1>3, <1>5 DEF InSet, BiOf
    <3> QED
      BY <1>1, <1>3, <1>5, <3>1 DEF Counted, BiInv
  <2> QED
    BY <1>1, <1>3, <1>5, <2>2, <2>3 DEF BiInv
<1> QED
  BY <1>4, <1>5

\* A unit whose invalidation an L1 answers has none under way, and gets none.
LEMMA WayHitsL1 ==
    ASSUME WayInv, BiInv, NEW b \in Blocks, NEW bi \in BOOLEAN, LoadHitsL1(b, bi)
    PROVE  WayInv' /\ BiInv'
<1> DEFINE v == BiUnitOf[b]
<1>1. /\ issued' = issued + 1
      /\ UNCHANGED <<policy, next_id, from_crossbar, latency, pending_lds, at_host, travelling>>
  BY DEF LoadHitsL1, cache_vars, queueVars
<1>2. \/ /\ bi /\ v \notin inprogress
         /\ inprogress' = inprogress \cup {v}
         /\ l1_answered' = l1_answered \cup {v}
      \/ ~bi /\ UNCHANGED <<inprogress, l1_answered>>
  BY DEF LoadHitsL1, MarkLoad
<1>3. v \in Units
  BY DEF Units
<1> HIDE DEF v
<1>4. WayInv'
  BY <1>1 DEF WayInv
<1>5. \A u \in Units : u \in (inprogress \ l1_answered)' <=> u \in inprogress \ l1_answered
  BY <1>2
<1>6. ASSUME NEW u \in Units PROVE Counted(u)'
  BY <1>1, <1>5, ZenonT(40) DEF BiInv, Counted
<1>7. \A u \in Units : pending_lds'[u] # <<>> \/ u \in l1_answered' => u \in inprogress'
  BY <1>1, <1>2 DEF BiInv
<1> QED
  BY <1>1, <1>4, <1>6, <1>7 DEF BiInv

\* A store travels without a back-invalidation.
LEMMA WayNewStore ==
    ASSUME WayInv, BiInv, NEW b \in Blocks, NEW bi \in BOOLEAN, NewStore(b, bi)
    PROVE  WayInv' /\ BiInv'
<1> DEFINE mf == [id |-> 0, op |-> "write", block |-> b, sector |-> 0, n |-> issued', bi |-> FALSE]
<1>1. /\ issued' = issued + 1
      /\ travelling' = travelling \cup {mf}
      /\ UNCHANGED <<policy, next_id, from_crossbar, latency, pending_lds, inprogress, at_host,
                   l1_answered>>
  BY DEF NewStore, cache_vars, queueVars
<1>2. mf \in Moving /\ ~mf.bi
  BY <1>1, ChannelAssumption DEF WayInv, Request, Moving, Sectors
<1> HIDE DEF mf
<1>3. WayInv'
  BY <1>1, <1>2 DEF WayInv
<1>4. ASSUME NEW u \in Units PROVE Counted(u)'
  <2>1. InSet(travelling', u) = InSet(travelling, u)
    BY <1>1, <1>2 DEF InSet, BiOf
  <2> QED
    BY <1>1, <2>1, ZenonT(40) DEF Counted, BiInv
<1> QED
  BY <1>1, <1>3, <1>4 DEF BiInv

\* The host sends its only back-invalidation of the unit into the crossbar.
LEMMA WayHost ==
    ASSUME WayInv, BiInv, HostAnswersBi
    PROVE  WayInv' /\ BiInv'
<1>1. PICK mf \in at_host :
         /\ at_host' = at_host \ {mf}
         /\ travelling' = travelling \cup {[mf EXCEPT !.op = "write"]}
  BY DEF HostAnswersBi
<1> DEFINE wr == [mf EXCEPT !.op = "write"]
<1>2. UNCHANGED <<policy, next_id, issued, from_crossbar, latency, pending_lds, inprogress,
                  l1_answered>>
  BY DEF HostAnswersBi, cache_vars, queueVars, biVars
<1>3. mf \in Request /\ mf.bi
  BY DEF WayInv
<1>4. wr \in Moving /\ wr.bi /\ Unit(wr) = Unit(mf) /\ Unit(mf) \in Units
  BY <1>3 DEF Request, Moving, Unit, Units
<1>5. travelling' = travelling \cup {wr}
  BY <1>1
<1> HIDE DEF wr
<1>6. WayInv'
  BY <1>1, <1>2, <1>4, <1>5 DEF WayInv
<1>7. ASSUME NEW u \in Units, u # Unit(mf) PROVE Counted(u)'
  <2>1. InSet(at_host', u) = InSet(at_host, u) /\ InSet(travelling', u) = InSet(travelling, u)
    BY <1>1, <1>4, <1>5, <1>7 DEF InSet, BiOf
  <2> QED
    BY <1>2, <2>1 DEF Counted, BiInv
<1>8. Counted(Unit(mf))'
  <2>1. Counted(Unit(mf))
    BY <1>4 DEF BiInv
  <2>2. mf \in InSet(at_host, Unit(mf))
    BY <1>3 DEF InSet, BiOf
  <2>3. InSet(at_host', Unit(mf)) = {}
    <3>1. InSet(at_host', Unit(mf)) = InSet(at_host, Unit(mf)) \ {mf}
      BY <1>1 DEF InSet
    <3> QED
      BY <2>1, <2>2, <3>1 DEF Counted, OnePlace, Single
  <2>4. InSet(travelling, Unit(mf)) = {}
    BY <2>1, <2>2 DEF Counted, OnePlace
  <2>5. InSet(travelling', Unit(mf)) = {wr}
    BY <1>4, <1>5, <2>4 DEF InSet, BiOf
  <2> QED
    BY <1>2, <2>1, <2>2, <2>3, <2>5 DEF Counted, OnePlace, Single
<1> QED
  BY <1>2, <1>6, <1>7, <1>8 DEF BiInv

\* Queues of requests stay queues of requests.
LEMMA QueueType ==
    ASSUME NEW q \in [Banks -> Seq(Moving)], NEW b \in Banks
    PROVE  /\ \A mf \in Moving : push(q, b, mf) \in [Banks -> Seq(Moving)]
           /\ q[b] # <<>> => pop(q, b) \in [Banks -> Seq(Moving)] /\ Head(q[b]) \in Moving
<1>1. q[b] \in Seq(Moving)
  OBVIOUS
<1>2. \A mf \in Moving : Append(q[b], mf) \in Seq(Moving)
  BY <1>1
<1>3. q[b] # <<>> => Tail(q[b]) \in Seq(Moving) /\ Head(q[b]) \in Moving
  BY <1>1
<1> QED
  BY <1>2, <1>3 DEF push, pop

\* A request goes from the crossbar into the queue of its bank.
LEMMA WayArrive ==
    ASSUME WayInv, BiInv, Arrive
    PROVE  WayInv' /\ BiInv'
<1>1. PICK mf \in travelling :
         /\ from_crossbar' = push(from_crossbar, BankOf[mf.block], mf)
         /\ travelling' = travelling \ {mf}
  BY DEF Arrive
<1>2. UNCHANGED <<policy, next_id, issued, at_host, latency, pending_lds, inprogress,
                  l1_answered>>
  BY DEF Arrive, cache_vars, biVars
<1>3. /\ mf \in Moving /\ mf \in Request /\ from_crossbar \in [Banks -> Seq(Moving)]
      /\ BankOf[mf.block] \in Banks
  BY ChannelAssumption DEF WayInv, Moving, Request
<1>4. WayInv'
  <2>1. from_crossbar' \in [Banks -> Seq(Moving)]
    BY <1>1, <1>3, QueueType
  <2> QED
    BY <1>1, <1>2, <2>1 DEF WayInv
<1>5. ASSUME NEW u \in Units PROVE Counted(u)'
  <2>1. Counted(u)
    BY DEF BiInv
  <2>2. CASE BiOf(mf, u)
    <3>1. mf \in InSet(travelling, u)
      BY <2>2 DEF InSet
    <3>2. InSet(travelling', u) = InSet(travelling, u) \ {mf}
      BY <1>1 DEF InSet
    <3>3. InSet(travelling', u) = {}
      BY <2>1, <3>1, <3>2 DEF Counted, OnePlace, Single
    <3>4. /\ InQueue(from_crossbar, u) = {} /\ InQueue(latency, u) = {}
          /\ InSet(at_host, u) = {} /\ u \in inprogress \ l1_answered
      BY <2>1, <3>1 DEF Counted, OnePlace
    <3>5. Single(InQueue(from_crossbar', u)) /\ InQueue(from_crossbar', u) # {}
      BY <1>1, <1>3, <2>2, <3>4, PushBi
    <3> QED
      BY <1>2, <3>3, <3>4, <3>5 DEF Counted, OnePlace, Single
  <2>3. CASE ~BiOf(mf, u)
    <3>1. InSet(travelling', u) = InSet(travelling, u)
      BY <1>1, <2>3 DEF InSet
    <3>2. InQueue(from_crossbar', u) = InQueue(from_crossbar, u)
      BY <1>1, <1>3, <2>3, PushOther
    <3> QED
      BY <1>2, <2>1, <3>1, <3>2 DEF Counted
  <2> QED
    BY <2>2, <2>3
<1> QED
  BY <1>2, <1>4, <1>5 DEF BiInv

\* The write-back cache answers a write at once.
LEMMA WritesAnswered ==
    ASSUME policy \in Policies, NEW mf, access(mf), mf.op = "write"
    PROVE  mf.id \in answered'
<1>1. policy.write = "WRITE_BACK" /\ policy.alloc = "LAZY_FETCH_ON_READ"
  BY ChannelAssumption
<1>2. wr_hit(mf) \/ wr_miss_wa_lazy_fetch_on_read(mf)
  BY <1>1 DEF access, wr_miss_no_wa
<1>3. CASE wr_hit(mf)
  BY <1>1, <1>3 DEF wr_hit, wr_hit_wb
<1>4. CASE wr_miss_wa_lazy_fetch_on_read(mf)
  BY <1>1, <1>4 DEF wr_miss_wa_lazy_fetch_on_read
<1> QED
  BY <1>2, <1>3, <1>4

\* The cache keeps loads, and passes a back-invalidation on.
LEMMA WayAccess ==
    ASSUME ChannelInv, NEW b \in Banks, AccessCache(b)
    PROVE  ChannelInv'
<1> DEFINE hd == Head(from_crossbar[b])
<1>1. PICK mf : mf = [hd EXCEPT !.id = next_id + 1]
  BY Zenon
<1>2. /\ from_crossbar[b] # <<>>
      /\ access(mf)
      /\ latency' = IF mf.id \in answered' THEN push(latency, b, mf) ELSE latency
      /\ from_crossbar' = pop(from_crossbar, b)
      /\ UNCHANGED <<issued, at_host, travelling, pending_lds, inprogress, l1_answered>>
  BY <1>1 DEF AccessCache, biVars, outerVars
<1>3. WayInv /\ BiInv /\ TableInv(Waiting)
  BY DEF ChannelInv
<1>4. from_crossbar \in [Banks -> Seq(Moving)] /\ latency \in [Banks -> Seq(Moving)]
      /\ next_id \in Nat /\ policy \in Policies
  BY <1>3 DEF WayInv
<1>5. hd \in Moving /\ from_crossbar' \in [Banks -> Seq(Moving)]
  BY <1>2, <1>4, QueueType, Zenon
<1>6. /\ mf \in Moving /\ mf \in Request
      /\ mf.bi <=> hd.bi
      /\ Unit(mf) = Unit(hd)
  BY <1>1, <1>4, <1>5 DEF Moving, Request, Unit
<1>7. next_id' = next_id + 1 /\ policy' = policy
  BY <1>2 DEF access
<1>8. TableInv(Waiting)'
  <2>1. Addr(mf) \in Blocks \X Sectors
    BY <1>6 DEF Request, Addr
  <2>2. mf.op \in {"read", "atomic"} => mf \in Waiting
    BY <1>6 DEF Request, Waiting
  <2> QED
    BY <1>2, <1>3, <2>1, <2>2, TableAccess
<1>9. latency' \in [Banks -> Seq(Moving)]
  BY <1>2, <1>4, <1>6, QueueType, Zenon
<1>10. WayInv'
  BY <1>2, <1>3, <1>4, <1>5, <1>7, <1>9 DEF WayInv
<1>11. ASSUME NEW u \in Units PROVE Counted(u)'
  <2>1. Counted(u) /\ Single(InQueue(from_crossbar, u))
    BY <1>3, Zenon DEF BiInv, Counted, OnePlace
  <2>2. BiOf(mf, u) <=> BiOf(hd, u)
    BY <1>6 DEF BiOf
  <2>3. CASE BiOf(mf, u)
    <3>1. InQueue(from_crossbar, u) # {} /\ InQueue(from_crossbar', u) = {}
      BY <1>2, <1>4, <2>1, <2>2, <2>3, PopOne, ZenonT(40)
    <3>2. /\ InQueue(latency, u) = {} /\ InSet(travelling, u) = {}
          /\ InSet(at_host, u) = {} /\ u \in inprogress \ l1_answered
      BY <2>1, <3>1 DEF Counted, OnePlace
    <3>3. mf.op = "write"
      BY <1>6, <2>3 DEF Moving, BiOf
    <3>4. latency' = push(latency, b, mf)
      BY <1>2, <1>4, <3>3, WritesAnswered
    <3>5. Single(InQueue(latency', u)) /\ InQueue(latency', u) # {}
      BY <1>4, <1>6, <2>3, <3>2, <3>4, PushBi, ZenonT(40)
    <3> QED
      BY <1>2, <3>1, <3>2, <3>5, ZenonT(40) DEF Counted, OnePlace, Single
  <2>4. CASE ~BiOf(mf, u)
    <3>1. /\ Single(InQueue(from_crossbar', u))
          /\ InQueue(from_crossbar', u) = {} <=> InQueue(from_crossbar, u) = {}
      BY <1>2, <1>4, <2>1, <2>2, <2>4, PopOne, Zenon
    <3>2. InQueue(latency', u) = InQueue(latency, u)
      BY <1>2, <1>4, <1>6, <2>4, PushOther
    <3> QED
      BY <1>2, <2>1, <3>1, <3>2, Zenon DEF Counted, OnePlace
  <2> QED
    BY <2>3, <2>4
<1>12. BiInv'
  BY <1>2, <1>3, <1>11 DEF BiInv
<1> QED
  BY <1>8, <1>10, <1>12 DEF ChannelInv

\* What comes out of the MSHR table is a load.
LEMMA WayTakeReady ==
    ASSUME ChannelInv, NEW b \in Banks, TakeReady(b)
    PROVE  ChannelInv'
<1> DEFINE hd == Head(mshrs[Head(current_response)])
<1>1. pop_next_access /\ latency' = push(latency, b, hd)
  BY DEF TakeReady
<1>2. UNCHANGED <<policy, next_id, issued, at_host, travelling, from_crossbar, pending_lds,
                  inprogress, l1_answered>>
  BY <1>1 DEF TakeReady, pop_next_access, biVars, outerVars
<1>3. WayInv /\ BiInv /\ TableInv(Waiting)
  BY DEF ChannelInv
<1>4. TableInv(Waiting)' /\ hd \in Waiting
  BY <1>1, <1>3, TablePop
<1>5. PICK mf : mf = hd
  OBVIOUS
<1>6. mf \in Moving /\ ~mf.bi
  BY <1>4, <1>5 DEF Waiting, Moving, Request
<1>7. latency \in [Banks -> Seq(Moving)] /\ latency' \in [Banks -> Seq(Moving)]
  BY <1>1, <1>3, <1>5, <1>6, QueueType, ZenonT(40) DEF WayInv
<1>8. WayInv'
  BY <1>2, <1>3, <1>7 DEF WayInv
<1>9. ASSUME NEW u \in Units PROVE Counted(u)'
  <2>1. InQueue(latency', u) = InQueue(latency, u)
    BY <1>1, <1>5, <1>6, <1>7, PushOther DEF BiOf
  <2> QED
    BY <1>2, <1>3, <2>1, ZenonT(40) DEF BiInv, Counted
<1> QED
  BY <1>2, <1>3, <1>4, <1>8, <1>9 DEF ChannelInv, BiInv

\* The answer to a back-invalidation ends it, and nothing else does.
LEMMA WayLatencyHead ==
    ASSUME WayInv, BiInv, NEW b \in Banks, LatencyHead(b)
    PROVE  WayInv' /\ BiInv'
<1>1. PICK mf : mf = Head(latency[b])
  OBVIOUS
<1>2. /\ latency[b] # <<>>
      /\ latency' = pop(latency, b)
      /\ UNCHANGED <<policy, next_id, issued, at_host, travelling, from_crossbar, l1_answered>>
  BY ZenonT(40) DEF LatencyHead, cache_vars, outerVars
<1>3. \/ EndsBi(mf) /\ BiDone(b, mf)
      \/ MustPark(mf) /\ Park(b, mf)
      \/ ~EndsBi(mf) /\ ~MustPark(mf) /\ UNCHANGED biVars
  BY <1>1, ZenonT(40) DEF LatencyHead
<1>4. latency \in [Banks -> Seq(Moving)] /\ latency' \in [Banks -> Seq(Moving)]
      /\ mf \in Moving
  BY <1>1, <1>2, QueueType, ZenonT(40) DEF WayInv
<1>5. Unit(mf) \in Units
  BY <1>4 DEF Moving, Request, Unit, Units
<1>6. WayInv'
  BY <1>2, <1>4 DEF WayInv
<1>7. ASSUME NEW u \in Units
      PROVE  /\ Single(InQueue(latency, u))
             /\ BiOf(mf, u) => InQueue(latency, u) # {} /\ InQueue(latency', u) = {}
             /\ ~BiOf(mf, u) => /\ Single(InQueue(latency', u))
                                /\ InQueue(latency', u) = {} <=> InQueue(latency, u) = {}
  <2>1. Single(InQueue(latency, u))
    BY ZenonT(40) DEF BiInv, Counted, OnePlace
  <2> QED
    BY <1>1, <1>2, <1>4, <2>1, PopOne, ZenonT(40)
<1>8. ASSUME NEW u \in Units, ~BiOf(mf, u), u \in inprogress' <=> u \in inprogress
      PROVE  Counted(u)'
  BY <1>2, <1>7, <1>8, ZenonT(40) DEF BiInv, Counted, OnePlace
<1>9. CASE EndsBi(mf) /\ BiDone(b, mf)
  <2>1. mf.bi /\ inprogress' = inprogress \ {Unit(mf)}
        /\ pending_lds' = [pending_lds EXCEPT ![Unit(mf)] = <<>>]
    BY <1>9 DEF EndsBi, BiDone
  <2>2. ASSUME NEW u \in Units PROVE Counted(u)'
    <3>1. CASE u = Unit(mf)
      <4>1. BiOf(mf, u)
        BY <2>1, <3>1 DEF BiOf
      <4>2. InQueue(latency, u) # {} /\ InQueue(latency', u) = {}
        BY <1>7, <4>1
      <4>3. InSet(at_host, u) = {} /\ InSet(travelling, u) = {} /\ InQueue(from_crossbar, u) = {}
        BY <4>2 DEF BiInv, Counted, OnePlace
      <4> QED
        BY <1>2, <2>1, <3>1, <4>2, <4>3, ZenonT(40) DEF Counted, OnePlace, Single
    <3>2. CASE u # Unit(mf)
      BY <1>8, <2>1, <3>2 DEF BiOf
    <3> QED
      BY <3>1, <3>2
  <2>3. Unit(mf) \notin l1_answered
    BY <1>5, <1>7, <2>1 DEF BiInv, Counted, BiOf
  <2>4. DOMAIN pending_lds' = Units
    BY <1>5, <2>1 DEF BiInv
  <2>5. ASSUME NEW u \in Units, pending_lds'[u] # <<>> \/ u \in l1_answered'
        PROVE  u \in inprogress'
    <3>1. u # Unit(mf)
      BY <1>2, <1>5, <2>1, <2>3, <2>5 DEF BiInv
    <3>2. pending_lds[u] # <<>> \/ u \in l1_answered
      BY <1>2, <2>1, <2>5, <3>1 DEF BiInv
    <3> QED
      BY <2>1, <3>1, <3>2 DEF BiInv
  <2> QED
    BY <1>6, <2>2, <2>4, <2>5 DEF BiInv
<1>10. ASSUME ~EndsBi(mf), NEW u \in Units PROVE ~BiOf(mf, u)
  <2> SUFFICES ASSUME BiOf(mf, u) PROVE FALSE
    OBVIOUS
  <2>1. InQueue(latency, u) # {}
    BY <1>7
  <2>2. Unit(mf) \in inprogress /\ mf.bi
    BY <2>1 DEF BiInv, Counted, BiOf
  <2>3. mf.op = "write"
    BY <1>4, <2>2 DEF Moving
  <2> QED
    BY <1>10, <2>2, <2>3 DEF EndsBi
<1>11. CASE MustPark(mf) /\ Park(b, mf)
  <2>1. /\ inprogress' = inprogress /\ Unit(mf) \in inprogress /\ ~EndsBi(mf)
        /\ pending_lds' = [pending_lds EXCEPT ![Unit(mf)] = Append(@, [mf |-> mf, bank |-> b])]
    BY <1>11 DEF MustPark, Park, EndsBi
  <2>2. ASSUME NEW u \in Units PROVE Counted(u)'
    BY <1>8, <1>10, <2>1
  <2>3. /\ DOMAIN pending_lds' = Units
        /\ \A u \in Units : u # Unit(mf) => pending_lds'[u] = pending_lds[u]
    BY <1>5, <2>1 DEF BiInv
  <2>4. \A u \in Units : pending_lds'[u] # <<>> \/ u \in l1_answered' => u \in inprogress'
    BY <1>2, <2>1, <2>3 DEF BiInv
  <2> QED
    BY <1>6, <2>2, <2>3, <2>4 DEF BiInv
<1>12. CASE ~EndsBi(mf) /\ ~MustPark(mf) /\ UNCHANGED biVars
  <2>1. inprogress' = inprogress /\ pending_lds' = pending_lds
    BY <1>12 DEF biVars
  <2>2. ASSUME NEW u \in Units PROVE Counted(u)'
    BY <1>8, <1>10, <1>12, <2>1
  <2> QED
    BY <1>2, <1>6, <2>1, <2>2 DEF BiInv
<1> QED
  BY <1>3, <1>9, <1>11, <1>12

\* Every step of the channel keeps the invariant.
LEMMA ChannelInvStep == ChannelInv /\ [ChannelNext]_channelVars => ChannelInv'
<1> SUFFICES ASSUME ChannelInv, [ChannelNext]_channelVars PROVE ChannelInv'
  OBVIOUS
<1>1. TableInv(Waiting) /\ WayInv /\ BiInv
  BY DEF ChannelInv
<1>2. ASSUME UNCHANGED cache_vars, WayInv' /\ BiInv' PROVE ChannelInv'
  <2>1. UNCHANGED <<mshrs, current_response, extra_mf_fields>>
    BY <1>2 DEF cache_vars
  <2> QED
    BY <1>1, <1>2, <2>1, TableUnchanged DEF ChannelInv
<1>3. ASSUME UNCHANGED <<policy, next_id, issued, at_host, travelling, from_crossbar,
                         latency, pending_lds, inprogress, l1_answered>>,
             TableInv(Waiting)'
      PROVE  ChannelInv'
  BY <1>1, <1>3, WayUnchanged DEF ChannelInv
<1>4. ASSUME UNCHANGED cache_vars,
             UNCHANGED <<issued, at_host, travelling, from_crossbar, latency, pending_lds,
                         inprogress, l1_answered>>
      PROVE  ChannelInv'
  <2>1. UNCHANGED <<policy, next_id>>
    BY <1>4 DEF cache_vars
  <2> QED
    BY <1>1, <1>2, <1>4, <2>1, WayUnchanged
<1>5. ASSUME NEW b \in Blocks, NEW bi \in BOOLEAN, NewLoad(b, bi) PROVE ChannelInv'
  <2>1. UNCHANGED cache_vars
    BY <1>5 DEF NewLoad
  <2> QED
    BY <1>1, <1>2, <1>5, <2>1, WayNewLoad
<1>6. ASSUME NEW b \in Blocks, NEW bi \in BOOLEAN, NewStore(b, bi) PROVE ChannelInv'
  <2>1. UNCHANGED cache_vars
    BY <1>6 DEF NewStore
  <2> QED
    BY <1>1, <1>2, <1>6, <2>1, WayNewStore
<1>7. CASE HostAnswersBi
  <2>1. UNCHANGED cache_vars
    BY <1>7 DEF HostAnswersBi
  <2> QED
    BY <1>1, <1>2, <1>7, <2>1, WayHost
<1>8. CASE Arrive
  <2>1. UNCHANGED cache_vars
    BY <1>8 DEF Arrive
  <2> QED
    BY <1>1, <1>2, <1>8, <2>1, WayArrive
<1>9. ASSUME NEW b \in Banks, Leave(b) \/ BiToCrossbar(b) PROVE ChannelInv'
  BY <1>4, <1>9 DEF Leave, BiToCrossbar, biVars, outerVars
<1>10. ASSUME NEW b \in Banks, AccessCache(b) PROVE ChannelInv'
  BY <1>10, WayAccess
<1>11. ASSUME NEW b \in Banks, TakeReady(b) PROVE ChannelInv'
  BY <1>11, WayTakeReady
<1>12. ASSUME NEW b \in Banks, LatencyHead(b) PROVE ChannelInv'
  <2>1. UNCHANGED cache_vars
    BY <1>12, ZenonT(40) DEF LatencyHead
  <2> QED
    BY <1>1, <1>2, <1>12, <2>1, WayLatencyHead
<1>13. CASE CacheCycle
  <2>1. UNCHANGED <<mshrs, current_response, extra_mf_fields>>
    BY <1>13 DEF CacheCycle
  <2>2. UNCHANGED <<policy, next_id, issued, at_host, travelling, from_crossbar, latency,
                    pending_lds, inprogress, l1_answered>>
    BY <1>13 DEF CacheCycle, biVars, outerVars
  <2> QED
    BY <1>1, <1>3, <2>1, <2>2, TableUnchanged
<1>14. CASE ToMemory \/ DramAnswers
  BY <1>4, <1>14 DEF ToMemory, DramAnswers, biVars, outerVars
<1>15. CASE FromMemory
  <2>1. PICK mf : mf = Head(return_queue)
    OBVIOUS
  <2>2. UNCHANGED <<issued, at_host, travelling, from_crossbar, latency, pending_lds,
                    inprogress, l1_answered>>
    BY <1>15 DEF FromMemory, biVars, outerVars
  <2>3. fill(mf) \/ UNCHANGED cache_vars
    BY <1>15, <2>1 DEF FromMemory
  <2>4. CASE fill(mf)
    <3>1. mf \in Waiting
      BY <1>1, <2>4, ZenonT(40) DEF fill, TableInv
    <3>2. Addr(mf) \in Blocks \X Sectors
      BY <3>1 DEF Waiting, Moving, Request, Addr
    <3>3. TableInv(Waiting)'
      BY <1>1, <2>4, <3>2, TableFill
    <3>4. UNCHANGED <<policy, next_id>>
      BY <2>4 DEF fill
    <3> QED
      BY <1>3, <2>2, <3>3, <3>4
  <2>5. CASE UNCHANGED cache_vars
    BY <1>4, <2>2, <2>5
  <2> QED
    BY <2>3, <2>4, <2>5
<1>16. CASE UNCHANGED channelVars
  BY <1>4, <1>16 DEF channelVars, queueVars, biVars, outerVars
<1>17. ASSUME NEW b \in Blocks, NEW bi \in BOOLEAN, LoadHitsL1(b, bi) PROVE ChannelInv'
  <2>1. UNCHANGED cache_vars
    BY <1>17 DEF LoadHitsL1
  <2> QED
    BY <1>1, <1>2, <1>17, <2>1, WayHitsL1
<1> QED
  BY <1>5, <1>6, <1>7, <1>8, <1>9, <1>10, <1>11, <1>12, <1>13, <1>14, <1>15, <1>16,
     <1>17 DEF ChannelNext, ChannelStep

\* One place of the unit is one request of the unit under way.
LEMMA OneUnderWay == ChannelInv => ParkedHaveInvalidation
<1> SUFFICES ASSUME ChannelInv, NEW u \in Units
             PROVE  /\ Cardinality(BiUnderWay(u)) =
                          IF u \in inprogress \ l1_answered THEN 1 ELSE 0
                    /\ pending_lds[u] # <<>> \/ u \in l1_answered => u \in inprogress
  BY DEF ParkedHaveInvalidation
<1> DEFINE H == InSet(at_host, u)
           T == InSet(travelling, u)
           F == InQueue(from_crossbar, u)
           L == InQueue(latency, u)
           Of(q, p) == q[p[1]][p[2]]
           W == BiUnderWay(u)
<1>1. /\ WayInv /\ BiInv /\ Counted(u)
      /\ pending_lds[u] # <<>> \/ u \in l1_answered => u \in inprogress
  BY DEF ChannelInv, BiInv
<1>2. /\ OnePlace(H, T, F, L)
      /\ u \in inprogress \ l1_answered <=> H # {} \/ T # {} \/ F # {} \/ L # {}
  BY <1>1 DEF Counted
<1>3. from_crossbar \in [Banks -> Seq(Moving)] /\ latency \in [Banks -> Seq(Moving)]
  BY <1>1 DEF WayInv
<1>4. ASSUME NEW q \in [Banks -> Seq(Moving)], NEW x
      PROVE  (\E b \in Banks : x \in Range(q[b]) /\ BiOf(x, u))
               <=> \E p \in InQueue(q, u) : x = Of(q, p)
  <2>1. ASSUME NEW b \in Banks, x \in Range(q[b]), BiOf(x, u)
        PROVE  \E p \in InQueue(q, u) : x = Of(q, p)
    <3>1. q[b] \in Seq(Moving)
      OBVIOUS
    <3>2. PICK i \in 1..Len(q[b]) : x = q[b][i]
      BY <2>1, <3>1 DEF Range
    <3>3. <<b, i>> \in InQueue(q, u)
      BY <2>1, <3>1, <3>2 DEF InQueue
    <3> QED
      BY <3>2, <3>3, Zenon
  <2>2. ASSUME NEW p \in InQueue(q, u), x = Of(q, p)
        PROVE  \E b \in Banks : x \in Range(q[b]) /\ BiOf(x, u)
    <3>1. p[1] \in Banks /\ p[2] \in 1..Len(q[p[1]]) /\ BiOf(x, u)
      BY <2>2 DEF InQueue
    <3>2. q[p[1]] \in Seq(Moving)
      BY <3>1
    <3>3. x \in Range(q[p[1]])
      BY <2>2, <3>1, <3>2 DEF Range
    <3> QED
      BY <3>1, <3>3
  <2> QED
    BY <2>1, <2>2
<1>5. ASSUME NEW x
      PROVE  x \in W <=> \/ x \in H \/ x \in T
                         \/ \E b \in Banks : x \in Range(from_crossbar[b]) /\ BiOf(x, u)
                         \/ \E b \in Banks : x \in Range(latency[b]) /\ BiOf(x, u)
  BY DEF BiUnderWay, InSet, BiOf
<1>6. ASSUME NEW x
      PROVE  x \in W <=> \/ x \in H \/ x \in T
                         \/ \E p \in F : x = Of(from_crossbar, p)
                         \/ \E p \in L : x = Of(latency, p)
  <2>1. (\E b \in Banks : x \in Range(from_crossbar[b]) /\ BiOf(x, u))
          <=> \E p \in F : x = Of(from_crossbar, p)
    BY <1>3, <1>4
  <2>2. (\E b \in Banks : x \in Range(latency[b]) /\ BiOf(x, u))
          <=> \E p \in L : x = Of(latency, p)
    BY <1>3, <1>4, Zenon
  <2>3. x \in W <=> \/ x \in H \/ x \in T
                    \/ \E b \in Banks : x \in Range(from_crossbar[b]) /\ BiOf(x, u)
                    \/ \E b \in Banks : x \in Range(latency[b]) /\ BiOf(x, u)
    BY <1>5
  <2> HIDE DEF H, T, F, L, Of, W
  <2> QED
    BY <2>1, <2>2, <2>3
<1> HIDE DEF H, T, F, L, Of, W
<1>7. CASE u \in inprogress \ l1_answered
  <2>1. \E x : W = {x}
    <3>1. CASE H # {}
      BY <1>2, <1>6, <3>1 DEF OnePlace, Single
    <3>2. CASE T # {}
      BY <1>2, <1>6, <3>2 DEF OnePlace, Single
    <3>3. CASE F # {}
      <4>1. PICK p \in F : \A r \in F : r = p
        BY <1>2, <3>3 DEF OnePlace, Single
      <4>2. H = {} /\ T = {} /\ L = {}
        BY <1>2, <3>3 DEF OnePlace
      <4>3. ASSUME NEW x PROVE x \in W <=> x = Of(from_crossbar, p)
        BY <1>6, <4>1, <4>2
      <4>4. W = {Of(from_crossbar, p)}
        BY <4>3
      <4> QED
        BY <4>4
    <3>4. CASE L # {}
      <4>1. PICK p \in L : \A r \in L : r = p
        BY <1>2, <3>4 DEF OnePlace, Single
      <4>2. H = {} /\ T = {} /\ F = {}
        BY <1>2, <3>4 DEF OnePlace
      <4>3. ASSUME NEW x PROVE x \in W <=> x = Of(latency, p)
        BY <1>6, <4>1, <4>2
      <4>4. W = {Of(latency, p)}
        BY <4>3
      <4> QED
        BY <4>4
    <3> QED
      BY <1>2, <1>7, <3>1, <3>2, <3>3, <3>4
  <2>2. Cardinality(W) = 1
    BY <2>1, FS_Singleton
  <2> QED
    BY <1>1, <1>7, <2>2 DEF W
<1>8. CASE u \notin inprogress \ l1_answered
  <2>1. W = {}
    BY <1>2, <1>6, <1>8
  <2>2. Cardinality(W) = 0
    BY <2>1, FS_EmptySet
  <2> QED
    BY <1>1, <1>8, <2>2 DEF W
<1> QED
  BY <1>7, <1>8, ZenonT(40)

\* A parked load has exactly one back-invalidation of its unit behind it, unless
\* an L1 has answered that one and the unit is in progress for good
\* (NdpRamulator::cache_cycle, LDSTUnit), whatever the numbers and the sizes.
THEOREM ParkedAlwaysHaveInvalidation == ChannelSpec => []ParkedHaveInvalidation
<1>1. ChannelSpec => []ChannelInv
  BY ChannelInvInit, ChannelInvStep, PTL DEF ChannelSpec
<1> QED
  BY <1>1, OneUnderWay, PTL

============================================================================

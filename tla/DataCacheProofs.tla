-------------------------- MODULE DataCacheProofs --------------------------
(***************************************************************************)
(* Proofs about DataCache, for every number of blocks, sectors, ways, MSHR *)
(* entries and requests.  The inductive invariant CacheInv has three       *)
(* parts: the MSHR table (TableInv), the lines (LinesInv), and the miss    *)
(* queue with the fetches outstanding (TrafficInv).  PlaceInv adds where   *)
(* requests wait.                                                          *)
(*                                                                         *)
(* The set S of the requests that may wait in the table is a parameter of  *)
(* the first lemmas, because the memory channel, whose proofs use them     *)
(* too, has requests of its own form.                                      *)
(***************************************************************************)
EXTENDS DataCache, FiniteSetTheorems, TLAPS

-----------------------------------------------------------------------------
(* The MSHR table.                                                         *)

Fetched == {Addr(f) : f \in DOMAIN extra_mf_fields}

TableInv(S) ==
    /\ IsFiniteSet(DOMAIN mshrs) /\ Cardinality(DOMAIN mshrs) <= MshrEntries
    /\ \A a \in DOMAIN mshrs : mshrs[a] \in Seq(S) /\ Len(mshrs[a]) \in 1..MshrMaxMerge
    /\ current_response \in Seq(Blocks \X Sectors)
    /\ \A i, j \in 1..Len(current_response) :
          current_response[i] = current_response[j] => i = j
    /\ \A i \in 1..Len(current_response) :
          current_response[i] \in DOMAIN mshrs \ Fetched
    /\ \A a \in DOMAIN mshrs \ Fetched :
          \E i \in 1..Len(current_response) : current_response[i] = a
    /\ \A f \in DOMAIN extra_mf_fields :
          f \in S /\ Addr(f) \in DOMAIN mshrs /\ f = mshrs[Addr(f)][1]

\* The table starts empty.
LEMMA TableInit ==
    ASSUME NEW S, CacheInit
    PROVE  TableInv(S)
  BY FS_EmptySet, CacheSizesAssumption DEF CacheInit, TableInv, Fetched

\* A step that leaves the table alone.
LEMMA TableUnchanged ==
    ASSUME NEW S, TableInv(S), UNCHANGED <<mshrs, current_response, extra_mf_fields>>
    PROVE  TableInv(S)'
  BY DEF TableInv, Fetched

\* send_read_request: the request joins the entry of its sector, or makes one
\* and is fetched.
LEMMA TableMiss ==
    ASSUME NEW S, TableInv(S), NEW mf \in S, Addr(mf) \in Blocks \X Sectors,
           rd_miss_base(mf), UNCHANGED current_response
    PROVE  TableInv(S)'
<1> DEFINE a == Addr(mf)
<1>1. PICK l : /\ mshrs' = MshrAdd(a, mf)
               /\ IF MshrProbe(a) THEN UNCHANGED extra_mf_fields
                  ELSE extra_mf_fields' = [f \in DOMAIN extra_mf_fields \cup {mf} |->
                                             IF f = mf THEN l ELSE extra_mf_fields[f]]
  BY Zenon DEF rd_miss_base
<1>2. DOMAIN mshrs' = DOMAIN mshrs \cup {a}
  BY <1>1 DEF MshrAdd
<1>3. \A b \in DOMAIN mshrs : b # a => mshrs'[b] = mshrs[b]
  BY <1>1 DEF MshrAdd
<1>4. ~MshrFull(a)
  BY DEF rd_miss_base
<1>5. CASE a \in DOMAIN mshrs
  <2>1. mshrs[a] \in Seq(S) /\ Len(mshrs[a]) \in 1..MshrMaxMerge /\ Len(mshrs[a]) < MshrMaxMerge
    BY <1>4, <1>5, CacheSizesAssumption DEF TableInv, MshrFull, MshrProbe
  <2>2. mshrs'[a] = Append(mshrs[a], mf)
    BY <1>1, <1>5 DEF MshrAdd, MshrProbe
  <2>3. /\ mshrs'[a] \in Seq(S) /\ Len(mshrs'[a]) \in 1..MshrMaxMerge
        /\ mshrs'[a][1] = mshrs[a][1]
    BY <2>1, <2>2, CacheSizesAssumption
  <2>4. DOMAIN mshrs' = DOMAIN mshrs /\ UNCHANGED extra_mf_fields
    BY <1>1, <1>2, <1>5 DEF MshrProbe
  <2> QED
    BY <1>3, <2>3, <2>4, ZenonT(40) DEF TableInv, Fetched
<1>6. CASE a \notin DOMAIN mshrs
  <2>1. mshrs'[a] = <<mf>>
    BY <1>1, <1>6 DEF MshrAdd, MshrProbe
  <2>2. mshrs'[a] \in Seq(S) /\ Len(mshrs'[a]) \in 1..MshrMaxMerge /\ mshrs'[a][1] = mf
    BY <2>1, CacheSizesAssumption
  <2>3. IsFiniteSet(DOMAIN mshrs') /\ Cardinality(DOMAIN mshrs') <= MshrEntries
    <3>1. IsFiniteSet(DOMAIN mshrs) /\ Cardinality(DOMAIN mshrs) \in Nat
      BY FS_CardinalityType DEF TableInv
    <3>2. ~(Cardinality(DOMAIN mshrs) >= MshrEntries)
      BY <1>4, <1>6 DEF MshrFull, MshrProbe
    <3>3. /\ IsFiniteSet(DOMAIN mshrs \cup {a})
          /\ Cardinality(DOMAIN mshrs \cup {a}) = Cardinality(DOMAIN mshrs) + 1
      BY <1>6, <3>1, FS_AddElement
    <3> QED
      BY <1>2, <3>1, <3>2, <3>3, CacheSizesAssumption
  <2>4. DOMAIN extra_mf_fields' = DOMAIN extra_mf_fields \cup {mf}
    BY <1>1, <1>6 DEF MshrProbe
  <2>5. Fetched' = Fetched \cup {a}
    BY <2>4 DEF Fetched, Addr
  <2>6. \A f \in DOMAIN extra_mf_fields : Addr(f) # a
    BY <1>6 DEF TableInv
  <2>7. \A f \in DOMAIN extra_mf_fields' :
          f \in S /\ Addr(f) \in DOMAIN mshrs' /\ f = mshrs'[Addr(f)][1]
    BY <1>2, <1>3, <2>2, <2>4, <2>6 DEF TableInv
  <2>8. \A i \in 1..Len(current_response) : current_response[i] \in DOMAIN mshrs' \ Fetched'
    BY <1>2, <1>6, <2>5 DEF TableInv
  <2>9. \A b \in DOMAIN mshrs' \ Fetched' : b \in DOMAIN mshrs \ Fetched
    BY <1>2, <2>5
  <2>10. \A b \in DOMAIN mshrs' : mshrs'[b] \in Seq(S) /\ Len(mshrs'[b]) \in 1..MshrMaxMerge
    BY <1>2, <1>3, <2>2 DEF TableInv
  <2> QED
    BY <2>3, <2>7, <2>8, <2>9, <2>10 DEF TableInv
<1> QED
  BY <1>5, <1>6

\* An access keeps the table, if the reads and atomics are requests of S.
LEMMA TableAccess ==
    ASSUME NEW S, TableInv(S), NEW mf, access(mf), Addr(mf) \in Blocks \X Sectors,
           mf.op \in {"read", "atomic"} => mf \in S
    PROVE  TableInv(S)'
<1>1. UNCHANGED current_response
  BY DEF access
<1>2. CASE mf.op \in {"read", "atomic"} /\ rd_miss_base(mf)
  BY <1>1, <1>2, TableMiss
<1>3. CASE rd_hit_base(mf) \/ wr_hit(mf) \/ wr_miss_no_wa(mf)
             \/ wr_miss_wa_lazy_fetch_on_read(mf)
  <2>1. UNCHANGED <<mshrs, extra_mf_fields>>
    BY <1>3, Zenon DEF rd_hit_base, wr_hit, wr_miss_no_wa, wr_miss_wa_lazy_fetch_on_read
  <2> QED
    BY <1>1, <2>1, TableUnchanged
<1> QED
  BY <1>2, <1>3 DEF access

\* A fill: the sector's entry is ready, and no other fetch was for it.
LEMMA TableFill ==
    ASSUME NEW S, TableInv(S), NEW mf, fill(mf), Addr(mf) \in Blocks \X Sectors
    PROVE  TableInv(S)'
<1> DEFINE a == Addr(mf)
           n == Len(current_response)
<1>1. /\ mf \in DOMAIN extra_mf_fields
      /\ current_response' = Append(current_response, a)
      /\ DOMAIN extra_mf_fields' = DOMAIN extra_mf_fields \ {mf}
      /\ mshrs' = mshrs
  BY DEF fill, StillWaiting
<1>2. \A f \in DOMAIN extra_mf_fields : Addr(f) = a => f = mf
  BY <1>1 DEF TableInv
<1>3. Fetched' = Fetched \ {a}
  BY <1>1, <1>2 DEF Fetched, Addr
<1>4. a \in DOMAIN mshrs /\ a \in Fetched
  BY <1>1 DEF TableInv, Fetched
<1>5. n \in Nat /\ current_response \in Seq(Blocks \X Sectors)
  BY DEF TableInv
<1>6. /\ current_response' \in Seq(Blocks \X Sectors)
      /\ Len(current_response') = n + 1
      /\ current_response'[n + 1] = a
      /\ \A i \in 1..n : current_response'[i] = current_response[i]
  BY <1>1, <1>5
<1>7. \A i \in 1..n : current_response[i] # a /\ current_response[i] \in DOMAIN mshrs \ Fetched
  BY <1>4 DEF TableInv
<1>8. \A i, j \in 1..Len(current_response') :
        current_response'[i] = current_response'[j] => i = j
  <2> SUFFICES ASSUME NEW i \in 1..(n + 1), NEW j \in 1..(n + 1),
                      current_response'[i] = current_response'[j]
               PROVE  i = j
    BY <1>6
  <2>1. CASE i \in 1..n /\ j \in 1..n
    BY <1>6, <2>1 DEF TableInv
  <2>2. CASE i = n + 1 \/ j = n + 1
    BY <1>5, <1>6, <1>7, <2>2
  <2> QED
    BY <1>5, <2>1, <2>2
<1>9. \A i \in 1..Len(current_response') : current_response'[i] \in DOMAIN mshrs' \ Fetched'
  <2> SUFFICES ASSUME NEW i \in 1..(n + 1)
               PROVE  current_response'[i] \in DOMAIN mshrs \ (Fetched \ {a})
    BY <1>1, <1>3, <1>6
  <2>1. i \in 1..n \/ i = n + 1
    BY <1>5
  <2> QED
    BY <1>4, <1>6, <1>7, <2>1
<1>10. \A b \in DOMAIN mshrs' \ Fetched' :
         \E i \in 1..Len(current_response') : current_response'[i] = b
  <2> SUFFICES ASSUME NEW b \in DOMAIN mshrs, b \notin Fetched \ {a}
               PROVE  \E i \in 1..(n + 1) : current_response'[i] = b
    BY <1>1, <1>3, <1>6
  <2>1. CASE b = a
    BY <1>5, <1>6, <2>1
  <2>2. CASE b # a
    <3>1. PICK i \in 1..n : current_response[i] = b
      BY <2>2 DEF TableInv
    <3> QED
      BY <1>5, <1>6, <3>1
  <2> QED
    BY <2>1, <2>2
<1> QED
  BY <1>1, <1>6, <1>8, <1>9, <1>10 DEF TableInv

\* pop_next_access: the front of the first ready entry leaves it, and with the
\* last one the entry goes.
LEMMA TablePop ==
    ASSUME NEW S, TableInv(S), pop_next_access
    PROVE  /\ TableInv(S)'
           /\ Head(mshrs[Head(current_response)]) \in S
<1> DEFINE a == Head(current_response)
           n == Len(current_response)
<1>1. /\ current_response # <<>>
      /\ mshrs' = [b \in {c \in DOMAIN mshrs : c = a => ~LastOfEntry(a)} |->
                      IF b = a THEN Tail(mshrs[a]) ELSE mshrs[b]]
      /\ current_response' = IF LastOfEntry(a) THEN Tail(current_response)
                             ELSE current_response
      /\ extra_mf_fields' = extra_mf_fields
  BY DEF pop_next_access
<1>2. /\ n \in Nat \ {0} /\ current_response \in Seq(Blocks \X Sectors)
      /\ a = current_response[1]
  BY <1>1 DEF TableInv
<1>3. a \in DOMAIN mshrs /\ a \notin Fetched
  BY <1>2 DEF TableInv
<1>4. mshrs[a] \in Seq(S) /\ Len(mshrs[a]) \in 1..MshrMaxMerge /\ mshrs[a] # <<>>
  BY <1>3 DEF TableInv
<1>5. Head(mshrs[a]) \in S
  BY <1>4
<1>6. Fetched' = Fetched
  BY <1>1 DEF Fetched
<1>7. \A b \in DOMAIN mshrs' \ {a} : b \in DOMAIN mshrs /\ mshrs'[b] = mshrs[b]
  BY <1>1
<1>8. \A f \in DOMAIN extra_mf_fields :
        f \in S /\ Addr(f) \in DOMAIN mshrs' /\ f = mshrs'[Addr(f)][1]
  <2> SUFFICES ASSUME NEW f \in DOMAIN extra_mf_fields
               PROVE  f \in S /\ Addr(f) \in DOMAIN mshrs' /\ f = mshrs'[Addr(f)][1]
    OBVIOUS
  <2>1. Addr(f) # a /\ Addr(f) \in DOMAIN mshrs /\ f \in S /\ f = mshrs[Addr(f)][1]
    BY <1>3 DEF TableInv, Fetched
  <2>2. Addr(f) \in DOMAIN mshrs'
    BY <1>1, <2>1
  <2> QED
    BY <1>7, <2>1, <2>2
<1>9. CASE LastOfEntry(a)
  <2>1. DOMAIN mshrs' = DOMAIN mshrs \ {a}
    BY <1>1, <1>9
  <2>2. IsFiniteSet(DOMAIN mshrs') /\ Cardinality(DOMAIN mshrs') <= MshrEntries
    <3>1. IsFiniteSet(DOMAIN mshrs) /\ Cardinality(DOMAIN mshrs) \in Nat
      BY FS_CardinalityType DEF TableInv
    <3>2. /\ IsFiniteSet(DOMAIN mshrs \ {a})
          /\ Cardinality(DOMAIN mshrs \ {a}) = Cardinality(DOMAIN mshrs) - 1
      BY <1>3, <3>1, FS_RemoveElement
    <3> QED
      BY <2>1, <3>1, <3>2, CacheSizesAssumption DEF TableInv
  <2>3. /\ current_response' \in Seq(Blocks \X Sectors)
        /\ Len(current_response') = n - 1
        /\ \A i \in 1..(n - 1) : current_response'[i] = current_response[i + 1]
    BY <1>1, <1>2, <1>9
  <2>4. \A i \in 1..(n - 1) : i + 1 \in 1..n /\ current_response[i + 1] # a
    <3> SUFFICES ASSUME NEW i \in 1..(n - 1)
                 PROVE  i + 1 \in 1..n /\ current_response[i + 1] # a
      OBVIOUS
    <3>1. i + 1 \in 1..n /\ 1 \in 1..n /\ i + 1 # 1
      BY <1>2
    <3> QED
      BY <1>2, <3>1 DEF TableInv
  <2>5. \A i, j \in 1..Len(current_response') :
          current_response'[i] = current_response'[j] => i = j
    <3> SUFFICES ASSUME NEW i \in 1..(n - 1), NEW j \in 1..(n - 1),
                        current_response[i + 1] = current_response[j + 1]
                 PROVE  i = j
      BY <2>3
    <3>1. i + 1 = j + 1
      BY <2>4 DEF TableInv
    <3> QED
      BY <1>2, <3>1
  <2>6. \A i \in 1..Len(current_response') : current_response'[i] \in DOMAIN mshrs' \ Fetched'
    BY <1>6, <2>1, <2>3, <2>4 DEF TableInv
  <2>7. \A b \in DOMAIN mshrs' \ Fetched' :
          \E i \in 1..Len(current_response') : current_response'[i] = b
    <3> SUFFICES ASSUME NEW b \in DOMAIN mshrs, b # a, b \notin Fetched
                 PROVE  \E i \in 1..(n - 1) : current_response'[i] = b
      BY <1>6, <2>1, <2>3
    <3>1. PICK i \in 1..n : current_response[i] = b
      BY DEF TableInv
    <3>2. i # 1 /\ i - 1 \in 1..(n - 1) /\ (i - 1) + 1 = i
      BY <1>2, <3>1
    <3> QED
      BY <2>3, <3>1, <3>2
  <2>8. \A b \in DOMAIN mshrs' : mshrs'[b] \in Seq(S) /\ Len(mshrs'[b]) \in 1..MshrMaxMerge
    BY <1>7, <2>1 DEF TableInv
  <2> QED
    BY <1>1, <1>5, <1>8, <2>2, <2>3, <2>5, <2>6, <2>7, <2>8, Zenon DEF TableInv
<1>10. CASE ~LastOfEntry(a)
  <2>1. DOMAIN mshrs' = DOMAIN mshrs /\ current_response' = current_response
    BY <1>1, <1>10, Zenon
  <2>2. mshrs'[a] = Tail(mshrs[a])
    BY <1>1, <1>3, <1>10
  <2>3. mshrs'[a] \in Seq(S) /\ Len(mshrs'[a]) \in 1..MshrMaxMerge
    <3>1. Len(mshrs[a]) # 1
      BY <1>10 DEF LastOfEntry
    <3>2. Tail(mshrs[a]) \in Seq(S) /\ Len(Tail(mshrs[a])) = Len(mshrs[a]) - 1
      BY <1>4
    <3>3. MshrMaxMerge \in Nat
      BY CacheSizesAssumption
    <3>4. \A k \in 1..MshrMaxMerge : k # 1 => k - 1 \in 1..MshrMaxMerge
      BY <3>3
    <3>5. Len(mshrs[a]) - 1 \in 1..MshrMaxMerge
      BY <1>4, <3>1, <3>4, Zenon
    <3> QED
      BY <2>2, <3>2, <3>5
  <2>4. \A b \in DOMAIN mshrs' : mshrs'[b] \in Seq(S) /\ Len(mshrs'[b]) \in 1..MshrMaxMerge
    BY <1>7, <2>1, <2>3 DEF TableInv
  <2>5. /\ IsFiniteSet(DOMAIN mshrs') /\ Cardinality(DOMAIN mshrs') <= MshrEntries
        /\ current_response' \in Seq(Blocks \X Sectors)
        /\ \A i, j \in 1..Len(current_response') :
              current_response'[i] = current_response'[j] => i = j
    BY <2>1 DEF TableInv
  <2>6. /\ \A i \in 1..Len(current_response') : current_response'[i] \in DOMAIN mshrs' \ Fetched'
        /\ \A b \in DOMAIN mshrs' \ Fetched' :
              \E i \in 1..Len(current_response') : current_response'[i] = b
    BY <1>6, <2>1 DEF TableInv
  <2> QED
    BY <1>1, <1>5, <1>8, <2>4, <2>5, <2>6, Zenon DEF TableInv
<1> QED
  BY <1>9, <1>10

-----------------------------------------------------------------------------
(* The lines: an access or a fill keeps every pending fetch in the line    *)
(* that is reserved for it, until a lazy write has hit a pending sector.   *)

ReadFetch == {mf \in MemFetch : mf.op \in {"read", "atomic"}}

LineStatus == {"INVALID", "RESERVED", "VALID", "MODIFIED"}

Line == [tag : Blocks \cup {NoBlock}, status : [Sectors -> LineStatus],
         modified_on_fill : SUBSET Sectors]

\* A block is in one line.
OneLine == \A b \in Blocks : \A l, m \in Match(b) : l = m

\* The line of a fetch is waiting for it.
OwnLine(f) ==
    /\ lines[extra_mf_fields[f]].tag = f.block
    /\ lines[extra_mf_fields[f]].status[f.sector] = "RESERVED"

LinesInv ==
    /\ lines \in [Lines -> Line]
    /\ \A f \in DOMAIN extra_mf_fields : f \in ReadFetch /\ extra_mf_fields[f] \in Lines
    /\ ~overwritten => OneLine /\ \A f \in DOMAIN extra_mf_fields : OwnLine(f)

\* Writing one line keeps a block in one line, if the line held the block
\* before or no line did.
LEMMA OneLineKept ==
    ASSUME lines \in [Lines -> Line], OneLine, NEW l \in Lines, NEW v \in Line,
           lines' = [lines EXCEPT ![l] = v],
           v.tag \in Blocks /\ l \in Ways(v.tag) => l \in Match(v.tag) \/ Match(v.tag) = {}
    PROVE  OneLine'
<1> SUFFICES ASSUME NEW b \in Blocks, NEW k \in Match(b)', NEW m \in Match(b)'
             PROVE  k = m
  BY DEF OneLine
<1>1. \A x \in Match(b)' : x \in Ways(b) /\ lines'[x].tag = b /\ ~InvalidLine(x)'
  BY DEF Match, Ways
<1>2. \A x \in Match(b)' : x # l => x \in Match(b)
  <2> SUFFICES ASSUME NEW x \in Match(b)', x # l
               PROVE  x \in Match(b)
    OBVIOUS
  <2>1. lines'[x] = lines[x] /\ x \in Ways(b)
    BY <1>1 DEF Ways
  <2> QED
    BY <1>1, <2>1 DEF Match, InvalidLine
<1>3. l \in Match(b)' => v.tag = b /\ l \in Ways(v.tag)
  BY <1>1
<1> QED
  BY <1>2, <1>3 DEF OneLine

\* A matching line is the only one, so the status Hit looks at is its own.
LEMMA HitStatus ==
    ASSUME OneLine, NEW mf, mf.block \in Blocks, Hit(mf), NEW l \in Match(mf.block)
    PROVE  lines[l].status[mf.sector] \in {"VALID", "MODIFIED"}
<1>1. PICK m \in Match(mf.block) : lines[m].status[mf.sector] \in {"VALID", "MODIFIED"}
  BY DEF Hit, SectorStatus
<1> QED
  BY <1>1 DEF OneLine

\* Setting the status of a sector.
LEMMA StatusSet ==
    ASSUME NEW r \in Line, NEW s \in Sectors, NEW st \in LineStatus
    PROVE  LET v == [r EXCEPT !.status[s] = st]
           IN  /\ v \in Line /\ v.tag = r.tag
               /\ v.status = [r.status EXCEPT ![s] = st]
  BY DEF Line

\* The line r with another status of sector s, and other sectors to be modified
\* on fill.
WithStatus(r, s, st, q) == [r EXCEPT !.status[s] = st, !.modified_on_fill = q]

\* It is a line, with the same tag.
LEMMA BothSet ==
    ASSUME NEW r \in Line, NEW s \in Sectors, NEW st \in LineStatus,
           NEW q \in SUBSET Sectors
    PROVE  LET v == WithStatus(r, s, st, q)
           IN  /\ v \in Line /\ v.tag = r.tag
               /\ v.status = [r.status EXCEPT ![s] = st]
  BY Zenon DEF Line, WithStatus

\* SetStatus writes one line, and of it only the status of the sector.
LEMMA SetStatusLine ==
    ASSUME lines \in [Lines -> Line], NEW l \in Lines, NEW mf, mf.sector \in Sectors,
           NEW st \in LineStatus
    PROVE  \E v \in Line :
              /\ SetStatus(l, mf, st) = [lines EXCEPT ![l] = v]
              /\ v.tag = lines[l].tag
              /\ v.status = [lines[l].status EXCEPT ![mf.sector] = st]
<1> DEFINE v == [lines[l] EXCEPT !.status[mf.sector] = st]
<1>1. SetStatus(l, mf, st) = [lines EXCEPT ![l] = v]
  BY DEF SetStatus
<1>2. lines[l] \in Line
  OBVIOUS
<1>3. /\ v \in Line /\ v.tag = lines[l].tag
      /\ v.status = [lines[l].status EXCEPT ![mf.sector] = st]
  BY <1>2, StatusSet
<1> HIDE DEF v
<1> QED
  BY <1>1, <1>3, Zenon

\* A hit that changes the status of its sector: a write, or an atomic.
LEMMA LinesHit ==
    ASSUME LinesInv, NEW mf \in MemFetch, Hit(mf), NEW l \in Match(mf.block),
           NEW st \in LineStatus, lines' = SetStatus(l, mf, st),
           UNCHANGED <<extra_mf_fields, overwritten>>
    PROVE  LinesInv'
<1>1. l \in Lines /\ l \in Ways(mf.block) /\ lines[l].tag = mf.block
  BY DEF Match, Ways
<1>2. mf.sector \in Sectors /\ mf.block \in Blocks
  BY DEF MemFetch
<1>3. PICK v \in Line : /\ lines' = [lines EXCEPT ![l] = v]
                        /\ v.tag = lines[l].tag
                        /\ v.status = [lines[l].status EXCEPT ![mf.sector] = st]
  BY <1>1, <1>2, SetStatusLine DEF LinesInv
<1>4. lines' \in [Lines -> Line]
  BY <1>1, <1>3 DEF LinesInv
<1>5. ASSUME ~overwritten PROVE OneLine'
  BY <1>1, <1>3, <1>5, OneLineKept, Zenon DEF LinesInv
<1>6. ASSUME ~overwritten, NEW f \in DOMAIN extra_mf_fields PROVE OwnLine(f)'
  <2>1. OwnLine(f) /\ f.sector \in Sectors /\ extra_mf_fields[f] \in Lines
    BY <1>6 DEF LinesInv, ReadFetch, MemFetch
  <2>2. CASE extra_mf_fields[f] # l
    BY <1>3, <2>1, <2>2 DEF OwnLine, LinesInv
  <2>3. CASE extra_mf_fields[f] = l
    <3>1. lines[l].status[mf.sector] \in {"VALID", "MODIFIED"}
      BY <1>2, <1>6, HitStatus DEF LinesInv
    <3>2. f.sector # mf.sector
      BY <2>1, <2>3, <3>1 DEF OwnLine
    <3>3. lines'[l] = v /\ lines[l].status \in [Sectors -> LineStatus]
      BY <1>1, <1>3 DEF LinesInv, Line
    <3>4. v.status[f.sector] = lines[l].status[f.sector]
      BY <1>3, <2>1, <3>2, <3>3
    <3> QED
      BY <1>3, <2>1, <2>3, <3>3, <3>4 DEF OwnLine
  <2> QED
    BY <2>2, <2>3
<1> QED
  BY <1>4, <1>5, <1>6 DEF LinesInv

\* TagArray::access: the line holds the block and keeps the status of the other
\* sectors, or it was a victim and had no reserved sector.
LEMMA AllocatedLine ==
    ASSUME lines \in [Lines -> Line], NEW mf \in MemFetch, NEW l \in Candidates(mf)
    PROVE  LET v == Allocated(l, mf)
           IN  /\ l \in Lines /\ v \in Line /\ v.tag = mf.block
               /\ v.status[mf.sector] = "RESERVED"
               /\ \/ /\ l \in Match(mf.block) /\ lines[l].tag = mf.block
                     /\ \A s \in Sectors \ {mf.sector} : v.status[s] = lines[l].status[s]
                  \/ Match(mf.block) = {} /\ \A s \in Sectors : lines[l].status[s] # "RESERVED"
<1> DEFINE v == Allocated(l, mf)
<1>1. l \in Ways(mf.block)
  BY DEF Candidates, Match, Victims
<1>2. l \in Lines /\ lines[l] \in Line /\ mf.sector \in Sectors /\ mf.block \in Blocks
  BY <1>1 DEF Ways, MemFetch
<1>3. CASE l \in Match(mf.block)
  <2>1. lines[l].tag = mf.block /\ ~InvalidLine(l)
    BY <1>3 DEF Match
  <2>2. CASE lines[l].status[mf.sector] = "RESERVED"
    <3>1. v = lines[l]
      BY <2>1, <2>2 DEF Allocated
    <3> QED
      BY <1>2, <1>3, <2>1, <2>2, <3>1
  <2>3. CASE lines[l].status[mf.sector] # "RESERVED"
    <3> DEFINE q == lines[l].modified_on_fill \ {mf.sector}
    <3>1. v = WithStatus(lines[l], mf.sector, "RESERVED", q)
      <4> DEFINE x == [lines[l] EXCEPT !.status[mf.sector] = "RESERVED"]
      <4>1. x.modified_on_fill = lines[l].modified_on_fill
        BY <1>2 DEF Line
      <4>2. v = [x EXCEPT !.modified_on_fill = @ \ {mf.sector}]
        BY <2>1, <2>3, Zenon DEF Allocated
      <4> HIDE DEF v, x
      <4>3. v = [x EXCEPT !.modified_on_fill = q]
        BY <4>1, <4>2
      <4> QED
        BY <4>3, Zenon DEF x, WithStatus
    <3>2. /\ v \in Line /\ v.tag = lines[l].tag
          /\ v.status = [lines[l].status EXCEPT ![mf.sector] = "RESERVED"]
      <4>1. q \in SUBSET Sectors /\ "RESERVED" \in LineStatus
        BY <1>2 DEF Line, LineStatus
      <4> HIDE DEF v, q
      <4> QED
        BY <1>2, <3>1, <4>1, BothSet
    <3>3. lines[l].status \in [Sectors -> LineStatus]
      BY <1>2 DEF Line
    <3> HIDE DEF v
    <3>4. v.status[mf.sector] = "RESERVED"
      BY <1>2, <3>2, <3>3
    <3>5. \A s \in Sectors \ {mf.sector} : v.status[s] = lines[l].status[s]
      BY <3>2, <3>3
    <3> QED
      BY <1>2, <1>3, <2>1, <3>2, <3>4, <3>5 DEF v
  <2> QED
    BY <2>2, <2>3
<1>4. CASE l \notin Match(mf.block)
  <2>1. Match(mf.block) = {} /\ l \in Victims(mf.block)
    BY <1>4 DEF Candidates
  <2>2. ~(lines[l].tag = mf.block /\ ~InvalidLine(l))
    BY <1>1, <1>4 DEF Match
  <2>3. v = [tag |-> mf.block,
             status |-> [s \in Sectors |-> IF s = mf.sector THEN "RESERVED" ELSE "INVALID"],
             modified_on_fill |-> {}]
    BY <2>2, Zenon DEF Allocated
  <2>4. v \in Line /\ v.tag = mf.block /\ v.status[mf.sector] = "RESERVED"
    BY <1>2, <2>3 DEF Line, LineStatus
  <2>5. \A s \in Sectors : lines[l].status[s] # "RESERVED"
    BY <2>1 DEF Victims, InvalidLine, ReservedLine
  <2> QED
    BY <1>2, <2>1, <2>4, <2>5
<1> QED
  BY <1>3, <1>4

\* The fetches whose line was just allocated, or written to by a lazy write that
\* hit no reserved sector, still wait in it.
LEMMA OthersKept ==
    ASSUME LinesInv, ~overwritten, NEW mf \in MemFetch, NEW l \in Candidates(mf),
           NEW v \in Line, v.tag = mf.block,
           \A s \in Sectors \ {mf.sector} : v.status[s] = Allocated(l, mf).status[s],
           lines' = [lines EXCEPT ![l] = v],
           NEW f \in DOMAIN extra_mf_fields, extra_mf_fields'[f] = extra_mf_fields[f],
           f.sector = mf.sector /\ extra_mf_fields[f] = l => v.status[mf.sector] = "RESERVED"
    PROVE  OwnLine(f)'
<1>1. OwnLine(f) /\ f.sector \in Sectors /\ extra_mf_fields[f] \in Lines
  BY DEF LinesInv, ReadFetch, MemFetch
<1>2. l \in Lines /\ (\/ /\ l \in Match(mf.block) /\ lines[l].tag = mf.block
                         /\ \A s \in Sectors \ {mf.sector} :
                               Allocated(l, mf).status[s] = lines[l].status[s]
                      \/ \A s \in Sectors : lines[l].status[s] # "RESERVED")
  BY AllocatedLine DEF LinesInv
<1>3. CASE extra_mf_fields[f] # l
  BY <1>1, <1>2, <1>3 DEF OwnLine, LinesInv
<1>4. CASE extra_mf_fields[f] = l
  <2>1. lines'[l] = v
    BY <1>2 DEF LinesInv
  <2>2. lines[l].tag = mf.block /\ \A s \in Sectors \ {mf.sector} :
                                      v.status[s] = lines[l].status[s]
    BY <1>1, <1>2, <1>4 DEF OwnLine
  <2> QED
    BY <1>1, <1>4, <2>1, <2>2 DEF OwnLine
<1> QED
  BY <1>3, <1>4

\* A read miss allocates a line; a new fetch will fill it.
LEMMA LinesMiss ==
    ASSUME LinesInv, NEW mf \in ReadFetch, rd_miss_base(mf)
    PROVE  LinesInv'
<1> DEFINE fetched == DOMAIN extra_mf_fields \cup {mf}
<1>1. PICK l \in Candidates(mf) :
        /\ lines' = [lines EXCEPT ![l] = Allocated(l, mf)]
        /\ \/ UNCHANGED extra_mf_fields
           \/ extra_mf_fields' = [f \in fetched |-> IF f = mf THEN l ELSE extra_mf_fields[f]]
  BY Zenon DEF rd_miss_base
<1>2. overwritten' = overwritten
  BY DEF rd_miss_base
<1>3. mf \in MemFetch
  BY DEF ReadFetch
<1> DEFINE v == Allocated(l, mf)
<1>4. /\ l \in Lines /\ v \in Line /\ v.tag = mf.block /\ v.status[mf.sector] = "RESERVED"
      /\ l \in Match(mf.block) \/ Match(mf.block) = {}
  BY <1>3, AllocatedLine DEF LinesInv
<1>5. lines' \in [Lines -> Line]
  BY <1>1, <1>4 DEF LinesInv
<1>6. \A f \in DOMAIN extra_mf_fields' : f \in ReadFetch /\ extra_mf_fields'[f] \in Lines
  BY <1>1, <1>4 DEF LinesInv
<1>7. ASSUME ~overwritten PROVE OneLine'
  <2> HIDE DEF v
  <2>1. lines' = [lines EXCEPT ![l] = v]
    BY <1>1 DEF v
  <2> QED
    BY <1>4, <1>7, <2>1, OneLineKept, Zenon DEF LinesInv
<1>8. ASSUME ~overwritten, NEW f \in DOMAIN extra_mf_fields' PROVE OwnLine(f)'
  <2>1. CASE f \in DOMAIN extra_mf_fields /\ extra_mf_fields'[f] = extra_mf_fields[f]
    <3> HIDE DEF v
    <3>1. \A s \in Sectors \ {mf.sector} : v.status[s] = Allocated(l, mf).status[s]
      BY DEF v
    <3>2. lines' = [lines EXCEPT ![l] = v]
      BY <1>1 DEF v
    <3> QED
      BY <1>3, <1>4, <1>8, <2>1, <3>1, <3>2, OthersKept, Zenon
  <2>2. CASE f = mf /\ extra_mf_fields'[f] = l
    <3>1. lines'[l] = v
      BY <1>1, <1>4 DEF LinesInv
    <3> QED
      BY <1>4, <2>2, <3>1 DEF OwnLine
  <2> QED
    BY <1>1, <2>1, <2>2
<1> QED
  BY <1>2, <1>5, <1>6, <1>7, <1>8 DEF LinesInv

\* The line after a lazy write.
LEMMA LazyLine ==
    ASSUME NEW x \in Line, NEW s \in Sectors, NEW p \in SUBSET Sectors
    PROVE  [x EXCEPT !.status[s] = "MODIFIED", !.modified_on_fill = @ \cup p]
             = WithStatus(x, s, "MODIFIED", x.modified_on_fill \cup p)
<1> DEFINE y == [x EXCEPT !.status[s] = "MODIFIED"]
<1>1. y.modified_on_fill = x.modified_on_fill
  BY DEF Line
<1> HIDE DEF y
<1>2. [y EXCEPT !.modified_on_fill = @ \cup p]
        = [y EXCEPT !.modified_on_fill = x.modified_on_fill \cup p]
  BY <1>1
<1> QED
  BY <1>2, Zenon DEF y, WithStatus

\* A lazy write makes its sector MODIFIED; from the first one that hits a
\* reserved sector on, LinesInv promises less.
LEMMA LinesLazyWrite ==
    ASSUME LinesInv, NEW mf \in MemFetch, wr_miss_wa_lazy_fetch_on_read(mf)
    PROVE  LinesInv'
<1> DEFINE p == IF "RESERVED" \in SectorStatus(mf) THEN {mf.sector} ELSE {}
<1>1. PICK l \in Candidates(mf) :
        lines' = [lines EXCEPT ![l] =
                    [Allocated(l, mf) EXCEPT !.status[mf.sector] = "MODIFIED",
                                             !.modified_on_fill = @ \cup p]]
  BY Zenon DEF wr_miss_wa_lazy_fetch_on_read
<1>2. /\ overwritten' = (overwritten \/ "RESERVED" \in SectorStatus(mf))
      /\ UNCHANGED extra_mf_fields
  BY Zenon DEF wr_miss_wa_lazy_fetch_on_read
<1> DEFINE x == Allocated(l, mf)
           v == WithStatus(x, mf.sector, "MODIFIED", x.modified_on_fill \cup p)
<1>3. /\ l \in Lines /\ x \in Line /\ x.tag = mf.block
      /\ \/ l \in Match(mf.block)
         \/ Match(mf.block) = {} /\ \A s \in Sectors : lines[l].status[s] # "RESERVED"
  BY AllocatedLine DEF LinesInv
<1>4. mf.sector \in Sectors /\ p \in SUBSET Sectors
  BY DEF MemFetch
<1> HIDE DEF p
<1>5. lines' = [lines EXCEPT ![l] = v]
  <2> HIDE DEF x
  <2> QED
    BY <1>1, <1>3, <1>4, LazyLine, Zenon DEF x
<1>6. x.modified_on_fill \in SUBSET Sectors /\ x.status \in [Sectors -> LineStatus]
  BY <1>3 DEF Line
<1>7. v \in Line /\ v.tag = x.tag /\ v.status = [x.status EXCEPT ![mf.sector] = "MODIFIED"]
  <2>1. x.modified_on_fill \cup p \in SUBSET Sectors /\ "MODIFIED" \in LineStatus
    BY <1>4, <1>6 DEF LineStatus
  <2> HIDE DEF x
  <2> QED
    BY <1>3, <1>4, <2>1, BothSet
<1> HIDE DEF v, x
<1>8. lines' \in [Lines -> Line]
  BY <1>3, <1>5, <1>7 DEF LinesInv
<1>9. ASSUME ~overwritten PROVE OneLine'
  BY <1>3, <1>5, <1>7, <1>9, OneLineKept, Zenon DEF LinesInv
<1>10. ASSUME ~overwritten', NEW f \in DOMAIN extra_mf_fields PROVE OwnLine(f)'
  <2>1. ~overwritten /\ "RESERVED" \notin SectorStatus(mf)
    BY <1>2, <1>10, Zenon
  <2>2. OwnLine(f) /\ f.sector \in Sectors
    BY <2>1 DEF LinesInv, ReadFetch, MemFetch
  <2>3. ~(f.sector = mf.sector /\ extra_mf_fields[f] = l)
    <3> SUFFICES ASSUME f.sector = mf.sector, extra_mf_fields[f] = l
                 PROVE  FALSE
      OBVIOUS
    <3>1. lines[l].status[mf.sector] = "RESERVED"
      BY <2>2 DEF OwnLine
    <3>2. l \in Match(mf.block)
      BY <1>3, <1>4, <3>1
    <3> QED
      BY <2>1, <3>1, <3>2 DEF SectorStatus
  <2>4. \A s \in Sectors \ {mf.sector} : v.status[s] = Allocated(l, mf).status[s]
    <3>1. \A s \in Sectors \ {mf.sector} : v.status[s] = x.status[s]
      BY <1>6, <1>7
    <3> QED
      BY <3>1 DEF x
  <2>5. extra_mf_fields'[f] = extra_mf_fields[f]
    BY <1>2
  <2>6. v \in Line /\ v.tag = mf.block
    BY <1>3, <1>7
  <2> QED
    BY <1>5, <2>1, <2>3, <2>4, <2>5, <2>6, OthersKept, Zenon
<1>11. ~overwritten' => ~overwritten
  BY <1>2, Zenon
<1> QED
  BY <1>2, <1>8, <1>9, <1>10, <1>11 DEF LinesInv

\* A fill sets the status of its sector in the line the fetch was sent for; no
\* other fetch waits for that sector.
LEMMA LinesFill ==
    ASSUME LinesInv, TableInv(ReadFetch), NEW mf, fill(mf)
    PROVE  LinesInv'
<1> DEFINE l == extra_mf_fields[mf]
<1>1. /\ mf \in DOMAIN extra_mf_fields
      /\ lines' = SetStatus(l, mf, FillStatus(l, mf))
      /\ extra_mf_fields' = [f \in DOMAIN extra_mf_fields \ {mf} |-> extra_mf_fields[f]]
      /\ overwritten' = overwritten
  BY DEF fill, StillWaiting
<1>2. l \in Lines /\ mf \in MemFetch /\ mf.sector \in Sectors
  BY <1>1 DEF LinesInv, ReadFetch, MemFetch
<1>3. FillStatus(l, mf) \in LineStatus
  BY DEF FillStatus, LineStatus
<1>4. PICK v \in Line : /\ lines' = [lines EXCEPT ![l] = v]
                        /\ v.tag = lines[l].tag
                        /\ v.status = [lines[l].status EXCEPT ![mf.sector] = FillStatus(l, mf)]
  BY <1>1, <1>2, <1>3, SetStatusLine DEF LinesInv
<1> HIDE DEF l
<1>5. lines' \in [Lines -> Line]
  BY <1>2, <1>4 DEF LinesInv
<1>6. \A f \in DOMAIN extra_mf_fields' : f \in ReadFetch /\ extra_mf_fields'[f] \in Lines
  BY <1>1 DEF LinesInv
<1>7. ASSUME ~overwritten PROVE OneLine'
  <2>1. lines[l].tag = mf.block /\ lines[l].status[mf.sector] = "RESERVED"
    BY <1>1, <1>7 DEF LinesInv, OwnLine, l
  <2>2. l \in Ways(mf.block) => l \in Match(mf.block)
    BY <1>2, <2>1 DEF Match, InvalidLine
  <2> QED
    BY <1>2, <1>4, <1>7, <2>1, <2>2, OneLineKept, Zenon DEF LinesInv
<1>8. ASSUME ~overwritten, NEW f \in DOMAIN extra_mf_fields' PROVE OwnLine(f)'
  <2>1. /\ f \in DOMAIN extra_mf_fields /\ f # mf
        /\ extra_mf_fields'[f] = extra_mf_fields[f]
    BY <1>1
  <2>2. OwnLine(f) /\ OwnLine(mf) /\ f.sector \in Sectors /\ extra_mf_fields[f] \in Lines
    BY <1>1, <1>8, <2>1 DEF LinesInv, ReadFetch, MemFetch
  <2>3. Addr(f) # Addr(mf)
    BY <1>1, <2>1 DEF TableInv
  <2>4. CASE extra_mf_fields[f] # l
    BY <1>4, <2>1, <2>2, <2>4 DEF OwnLine, LinesInv
  <2>5. CASE extra_mf_fields[f] = l
    <3>1. f.sector # mf.sector
      BY <2>2, <2>3, <2>5 DEF OwnLine, Addr, l
    <3>2. lines'[l] = v /\ lines[l].status \in [Sectors -> LineStatus]
      BY <1>2, <1>4 DEF LinesInv, Line
    <3>3. v.status[f.sector] = lines[l].status[f.sector]
      BY <1>4, <2>2, <3>1, <3>2
    <3> QED
      BY <1>4, <2>1, <2>2, <2>5, <3>2, <3>3 DEF OwnLine
  <2> QED
    BY <2>4, <2>5
<1> QED
  BY <1>1, <1>5, <1>6, <1>7, <1>8 DEF LinesInv

\* All handlers of an access together.
LEMMA LinesAccess ==
    ASSUME LinesInv, NEW mf \in MemFetch, access(mf)
    PROVE  LinesInv'
<1> USE DEF LineStatus
<1>1. CASE mf.op \in {"read", "atomic"} /\ rd_hit_base(mf)
  <2>1. PICK l \in Match(mf.block) :
          lines' = IF mf.op = "atomic" THEN SetStatus(l, mf, "MODIFIED") ELSE lines
    BY <1>1 DEF rd_hit_base
  <2>2. UNCHANGED <<extra_mf_fields, overwritten>> /\ Hit(mf)
    BY <1>1 DEF rd_hit_base
  <2>3. CASE lines' = SetStatus(l, mf, "MODIFIED")
    BY <2>2, <2>3, LinesHit
  <2>4. CASE lines' = lines
    BY <2>2, <2>4 DEF LinesInv, OneLine, OwnLine, Match, InvalidLine, Ways
  <2> QED
    BY <2>1, <2>3, <2>4
<1>2. CASE mf.op \in {"read", "atomic"} /\ rd_miss_base(mf)
  <2>1. mf \in ReadFetch
    BY <1>2 DEF ReadFetch
  <2> QED
    BY <1>2, <2>1, LinesMiss
<1>3. CASE wr_hit(mf)
  <2>1. PICK l \in Match(mf.block), st \in {"MODIFIED", "INVALID"} :
          lines' = SetStatus(l, mf, st)
    BY <1>3 DEF wr_hit, wr_hit_wb, wr_hit_wt, wr_hit_we
  <2>2. UNCHANGED <<extra_mf_fields, overwritten>> /\ Hit(mf)
    BY <1>3 DEF wr_hit
  <2> QED
    BY <2>1, <2>2, LinesHit
<1>4. CASE wr_miss_no_wa(mf)
  BY <1>4 DEF wr_miss_no_wa, LinesInv, OneLine, OwnLine, Match, InvalidLine, Ways
<1>5. CASE wr_miss_wa_lazy_fetch_on_read(mf)
  BY <1>5, LinesLazyWrite
<1> QED
  BY <1>1, <1>2, <1>3, <1>4, <1>5 DEF access

-----------------------------------------------------------------------------
(* The miss queue and the next level.                                      *)

AnyFetch == [id : Nat, op : {"read", "atomic", "write", "write_back"},
             block : Blocks \cup {NoBlock}, sector : Nat]

TrafficInv ==
    /\ miss_queue \in Seq(AnyFetch)
    /\ Len(miss_queue) <= MissQueueSize + NumSectors
    /\ \A f \in DOMAIN extra_mf_fields : f \in Outstanding

\* Requests are fetches of the wider type.
LEMMA RequestsAreFetches == MemFetch \subseteq AnyFetch
  BY CacheSizesAssumption DEF MemFetch, AnyFetch, Sectors

\* A line gives up at most as many packets as it has sectors.
LEMMA WriteBackLen ==
    ASSUME lines \in [Lines -> Line], NEW l \in Lines, NEW mf
    PROVE  /\ write_back(l, mf) \in Seq(AnyFetch)
           /\ Len(write_back(l, mf)) <= NumSectors
<1> DEFINE n == Cardinality(ModifiedSectors(l))
           wb == [i \in 1..n |-> [id |-> 0, op |-> "write_back",
                                  block |-> lines[l].tag, sector |-> i - 1]]
<1>1. NumSectors \in Nat
  BY CacheSizesAssumption
<1>2. IsFiniteSet(Sectors) /\ Cardinality(Sectors) <= NumSectors
  <2>1. NumSectors - 1 \in Int /\ 0 \in Int
    BY <1>1
  <2>2. /\ IsFiniteSet(0..(NumSectors - 1))
        /\ Cardinality(0..(NumSectors - 1)) = IF 0 > NumSectors - 1 THEN 0 ELSE NumSectors - 1 - 0 + 1
    BY <2>1, FS_Interval
  <2> QED
    BY <1>1, <2>2 DEF Sectors
<1>3. ModifiedSectors(l) \in SUBSET Sectors
  BY DEF ModifiedSectors
<1>4. IsFiniteSet(ModifiedSectors(l)) /\ n <= Cardinality(Sectors)
  BY <1>2, <1>3, FS_Subset
<1>5. n \in Nat /\ n <= NumSectors
  BY <1>1, <1>2, <1>4, FS_CardinalityType
<1>6. lines[l].tag \in Blocks \cup {NoBlock}
  BY DEF Line
<1> HIDE DEF n
<1>7. wb \in [1..n -> AnyFetch]
  BY <1>5, <1>6 DEF AnyFetch
<1>8. write_back(l, mf) = <<>> \/ write_back(l, mf) = wb
  BY Zenon DEF write_back, n
<1> HIDE DEF wb
<1>9. wb \in Seq(AnyFetch) /\ Len(wb) = n
  BY <1>5, <1>7
<1>10. Len(wb) <= NumSectors
  BY <1>5, <1>9
<1>11. <<>> \in Seq(AnyFetch) /\ Len(<<>>) <= NumSectors
  BY <1>1
<1> QED
  BY <1>8, <1>9, <1>10, <1>11, Zenon

\* An access adds what it sends, and the write-backs of one line, to the queue.
LEMMA TrafficAccess ==
    ASSUME LinesInv, TrafficInv, NEW mf \in MemFetch, access(mf)
    PROVE  TrafficInv'
<1>1. mf \in AnyFetch /\ MissQueueSize \in Nat \ {0} /\ NumSectors \in Nat \ {0}
  BY RequestsAreFetches, CacheSizesAssumption
<1>2. miss_queue \in Seq(AnyFetch) /\ Len(miss_queue) \in Nat /\ lines \in [Lines -> Line]
  BY DEF LinesInv, TrafficInv
<1>3. in_memory' = in_memory
  BY DEF access
<1>4. ASSUME NEW e \in {<<>>, <<mf>>}, NEW l \in Lines,
             NEW wb \in {<<>>, write_back(l, mf)},
             Len(miss_queue) + Len(e) <= MissQueueSize + 1,
             wb # <<>> => Len(miss_queue) + Len(e) <= MissQueueSize,
             miss_queue' = (miss_queue \o e) \o wb
      PROVE  /\ miss_queue' \in Seq(AnyFetch)
             /\ Len(miss_queue') <= MissQueueSize + NumSectors
             /\ Range(miss_queue) \subseteq Range(miss_queue')
             /\ e = <<mf>> => mf \in Range(miss_queue')
  <2>1. e \in Seq(AnyFetch) /\ Len(e) \in Nat /\ (e = <<mf>> => Len(e) = 1 /\ e[1] = mf)
    <3>1. <<>> \in Seq(AnyFetch) /\ Len(<<>>) = 0 /\ <<>> # <<mf>>
      OBVIOUS
    <3>2. <<mf>> \in Seq(AnyFetch) /\ Len(<<mf>>) = 1 /\ <<mf>>[1] = mf
      BY <1>1
    <3>3. e = <<>> \/ e = <<mf>>
      OBVIOUS
    <3> QED
      BY <3>1, <3>2, <3>3, Zenon
  <2>2. wb \in Seq(AnyFetch) /\ Len(wb) \in Nat /\ Len(wb) <= NumSectors
        /\ (wb = <<>> => Len(wb) = 0)
    <3>1. <<>> \in Seq(AnyFetch) /\ Len(<<>>) = 0
      OBVIOUS
    <3>2. write_back(l, mf) \in Seq(AnyFetch) /\ Len(write_back(l, mf)) <= NumSectors
      BY <1>2, WriteBackLen
    <3>3. wb = <<>> \/ wb = write_back(l, mf)
      OBVIOUS
    <3>4. Len(<<>>) <= NumSectors
      BY <1>1
    <3>5. wb \in Seq(AnyFetch) /\ Len(wb) <= NumSectors
      BY <3>1, <3>2, <3>3, <3>4, Zenon
    <3> QED
      BY <3>1, <3>5
  <2> DEFINE q == miss_queue \o e
  <2>3. /\ q \in Seq(AnyFetch) /\ Len(q) = Len(miss_queue) + Len(e)
        /\ \A i \in 1..Len(miss_queue) : q[i] = miss_queue[i]
        /\ e = <<mf>> => q[Len(miss_queue) + 1] = mf
    BY <1>2, <2>1
  <2> HIDE DEF q
  <2>4. /\ q \o wb \in Seq(AnyFetch) /\ Len(q \o wb) = Len(q) + Len(wb)
        /\ \A i \in 1..Len(q) : (q \o wb)[i] = q[i]
    BY <2>2, <2>3
  <2>5. miss_queue' = q \o wb
    BY <1>4 DEF q
  <2>6. Len(miss_queue') <= MissQueueSize + NumSectors
    BY <1>1, <1>2, <1>4, <2>1, <2>2, <2>3, <2>4, <2>5
  <2>7. \A i \in 1..Len(miss_queue) : i \in 1..Len(q) /\ i \in DOMAIN miss_queue'
                                      /\ miss_queue'[i] = miss_queue[i]
    BY <1>2, <2>1, <2>2, <2>3, <2>4, <2>5
  <2>8. ASSUME e = <<mf>> PROVE mf \in Range(miss_queue')
    <3> DEFINE k == Len(miss_queue) + 1
    <3>1. k \in 1..Len(q) /\ k \in 1..Len(miss_queue')
      BY <1>2, <2>1, <2>2, <2>3, <2>4, <2>5, <2>8
    <3>2. miss_queue'[k] = mf /\ k \in DOMAIN miss_queue'
      BY <2>3, <2>4, <2>5, <2>8, <3>1
    <3> QED
      BY <3>2 DEF Range
  <2>9. Range(miss_queue) \subseteq Range(miss_queue')
    BY <1>2, <2>7 DEF Range
  <2> QED
    BY <2>4, <2>5, <2>6, <2>8, <2>9
<1>5. UNCHANGED <<miss_queue, extra_mf_fields>> => TrafficInv'
  BY <1>3 DEF TrafficInv, Outstanding
<1>6. ASSUME miss_queue' = Append(miss_queue, mf), ~miss_queue_full(0),
             UNCHANGED extra_mf_fields
      PROVE  TrafficInv'
  <2>1. /\ miss_queue' \in Seq(AnyFetch) /\ Len(miss_queue') = Len(miss_queue) + 1
        /\ \A i \in 1..Len(miss_queue) : miss_queue'[i] = miss_queue[i]
    BY <1>1, <1>2, <1>6
  <2>2. Len(miss_queue) <= MissQueueSize
    BY <1>1, <1>2, <1>6 DEF miss_queue_full
  <2>3. Len(miss_queue') <= MissQueueSize + NumSectors
    BY <1>1, <1>2, <2>1, <2>2
  <2>4. Range(miss_queue) \subseteq Range(miss_queue')
    BY <1>2, <2>1 DEF Range
  <2> QED
    BY <1>3, <1>6, <2>1, <2>3, <2>4 DEF TrafficInv, Outstanding
<1>7. CASE rd_hit_base(mf)
  BY <1>5, <1>7 DEF rd_hit_base
<1>8. CASE rd_miss_base(mf)
  <2>1. PICK l \in Candidates(mf) :
          IF MshrProbe(Addr(mf))
          THEN /\ miss_queue' = miss_queue \o write_back(l, mf)
               /\ UNCHANGED extra_mf_fields
          ELSE /\ miss_queue' = Append(miss_queue, mf) \o write_back(l, mf)
               /\ extra_mf_fields' = [f \in DOMAIN extra_mf_fields \cup {mf} |->
                                         IF f = mf THEN l ELSE extra_mf_fields[f]]
    BY <1>8 DEF rd_miss_base
  <2>2. l \in Lines
    BY <1>2, AllocatedLine
  <2>3. Len(miss_queue) + 1 <= MissQueueSize
    BY <1>1, <1>2, <1>8 DEF rd_miss_base, miss_queue_full
  <2>4. PICK e \in {<<>>, <<mf>>} :
          /\ miss_queue' = (miss_queue \o e) \o write_back(l, mf)
          /\ \/ DOMAIN extra_mf_fields' = DOMAIN extra_mf_fields
             \/ /\ e = <<mf>>
                /\ DOMAIN extra_mf_fields' = DOMAIN extra_mf_fields \cup {mf}
    <3>1. miss_queue \o <<>> = miss_queue
      BY <1>2
    <3>2. miss_queue \o <<mf>> = Append(miss_queue, mf)
      BY <1>1, <1>2
    <3>3. CASE MshrProbe(Addr(mf))
      BY <2>1, <3>1, <3>3, Zenon
    <3>4. CASE ~MshrProbe(Addr(mf))
      BY <2>1, <3>2, <3>4, Zenon
    <3> QED
      BY <3>3, <3>4
  <2>5. Len(e) \in {0, 1}
    <3>1. Len(<<>>) = 0 /\ Len(<<mf>>) = 1
      OBVIOUS
    <3> QED
      BY <3>1, Zenon
  <2>6. \A n \in {0, 1} : /\ Len(miss_queue) + n <= MissQueueSize
                          /\ Len(miss_queue) + n <= MissQueueSize + 1
    BY <1>1, <1>2, <2>3
  <2>7. /\ Len(miss_queue) + Len(e) <= MissQueueSize
        /\ Len(miss_queue) + Len(e) <= MissQueueSize + 1
    BY <2>5, <2>6, Zenon
  <2>8. /\ miss_queue' \in Seq(AnyFetch)
        /\ Len(miss_queue') <= MissQueueSize + NumSectors
        /\ Range(miss_queue) \subseteq Range(miss_queue')
        /\ e = <<mf>> => mf \in Range(miss_queue')
    BY <1>4, <2>2, <2>4, <2>7, Zenon
  <2> QED
    BY <1>3, <2>4, <2>8 DEF TrafficInv, Outstanding
<1>9. CASE wr_hit(mf)
  BY <1>5, <1>6, <1>9 DEF wr_hit, wr_hit_wb, wr_hit_wt, wr_hit_we
<1>10. CASE wr_miss_no_wa(mf)
  BY <1>6, <1>10 DEF wr_miss_no_wa
<1>11. CASE wr_miss_wa_lazy_fetch_on_read(mf)
  <2>1. PICK l \in Candidates(mf) :
          miss_queue' = IF policy.write = "WRITE_THROUGH" THEN Append(miss_queue, mf)
                        ELSE miss_queue \o write_back(l, mf)
    BY <1>11, Zenon DEF wr_miss_wa_lazy_fetch_on_read
  <2>2. ~miss_queue_full(0) /\ UNCHANGED extra_mf_fields
    BY <1>11, Zenon DEF wr_miss_wa_lazy_fetch_on_read
  <2>3. l \in Lines
    BY <1>2, AllocatedLine
  <2>4. CASE miss_queue' = Append(miss_queue, mf)
    BY <1>6, <2>2, <2>4
  <2>5. CASE miss_queue' = miss_queue \o write_back(l, mf)
    <3>1. miss_queue \o <<>> = miss_queue
      BY <1>2
    <3>2. Len(miss_queue) + Len(<<>>) <= MissQueueSize
      BY <1>1, <1>2, <2>2 DEF miss_queue_full
    <3>3. Len(miss_queue) + Len(<<>>) <= MissQueueSize + 1
      BY <1>1, <1>2, <3>2
    <3>4. miss_queue' = (miss_queue \o <<>>) \o write_back(l, mf)
      BY <2>5, <3>1, Zenon
    <3>5. /\ miss_queue' \in Seq(AnyFetch)
          /\ Len(miss_queue') <= MissQueueSize + NumSectors
          /\ Range(miss_queue) \subseteq Range(miss_queue')
      BY <1>4, <2>3, <3>2, <3>3, <3>4, Zenon
    <3> QED
      BY <1>3, <2>2, <3>5 DEF TrafficInv, Outstanding
  <2> QED
    BY <2>1, <2>4, <2>5, Zenon
<1> QED
  BY <1>7, <1>8, <1>9, <1>10, <1>11 DEF access

\* The front of the miss queue goes to the next level; a fetch is not lost.
LEMMA TrafficCycle ==
    ASSUME LinesInv, TrafficInv, cycle
    PROVE  TrafficInv'
<1>1. /\ miss_queue # <<>>
      /\ miss_queue' = Tail(miss_queue)
      /\ in_memory' = in_memory
                      \cup ({Head(miss_queue)} \ {mf \in MemFetch : mf.op = "write_back"})
      /\ extra_mf_fields' = extra_mf_fields
  BY DEF cycle
<1>2. miss_queue \in Seq(AnyFetch)
  BY DEF TrafficInv
<1>3. /\ Tail(miss_queue) \in Seq(AnyFetch)
      /\ Len(Tail(miss_queue)) = Len(miss_queue) - 1
      /\ \A i \in 1..(Len(miss_queue) - 1) : Tail(miss_queue)[i] = miss_queue[i + 1]
      /\ Head(miss_queue) = miss_queue[1]
      /\ Len(miss_queue) \in Nat \ {0}
  BY <1>1, <1>2
<1>4. Len(miss_queue') <= MissQueueSize + NumSectors
  BY <1>1, <1>3, CacheSizesAssumption DEF TrafficInv
<1>5. ASSUME NEW f \in DOMAIN extra_mf_fields
      PROVE  f \in Outstanding'
  <2>1. f \in ReadFetch /\ f \in Outstanding
    BY DEF LinesInv, TrafficInv
  <2>2. f.op # "write_back"
    BY <2>1 DEF ReadFetch
  <2>3. CASE f \in in_memory
    BY <1>1, <2>3 DEF Outstanding
  <2>4. CASE f \in Range(miss_queue)
    <3>1. PICK i \in 1..Len(miss_queue) : f = miss_queue[i]
      BY <1>2, <2>4 DEF Range
    <3>2. CASE i = 1
      BY <1>1, <1>3, <2>2, <3>1, <3>2 DEF Outstanding
    <3>3. CASE i # 1
      <4>1. i - 1 \in 1..(Len(miss_queue) - 1) /\ f = Tail(miss_queue)[i - 1]
        BY <1>3, <3>1, <3>3
      <4>2. i - 1 \in DOMAIN miss_queue' /\ f = miss_queue'[i - 1]
        BY <1>1, <1>3, <4>1
      <4> QED
        BY <4>2 DEF Range, Outstanding
    <3> QED
      BY <3>2, <3>3
  <2> QED
    BY <2>1, <2>3, <2>4 DEF Outstanding
<1> QED
  BY <1>1, <1>3, <1>4, <1>5 DEF TrafficInv

\* An answer takes only what it answers from the next level.
LEMMA TrafficAnswer ==
    ASSUME LinesInv, TrafficInv, NEW mf, fill(mf) \/ write_ack(mf)
    PROVE  TrafficInv'
<1>1. miss_queue' = miss_queue /\ in_memory' = in_memory \ {mf}
  BY DEF fill, write_ack
<1>2. DOMAIN extra_mf_fields' \subseteq DOMAIN extra_mf_fields \ {mf}
  <2>1. CASE fill(mf)
    BY <2>1 DEF fill, StillWaiting
  <2>2. CASE write_ack(mf)
    <3>1. mf.op = "write" /\ extra_mf_fields' = extra_mf_fields
      BY <2>2 DEF write_ack
    <3>2. mf \notin DOMAIN extra_mf_fields
      BY <3>1 DEF LinesInv, ReadFetch
    <3> QED
      BY <3>1, <3>2
  <2> QED
    BY <2>1, <2>2
<1> QED
  BY <1>1, <1>2 DEF TrafficInv, Outstanding

-----------------------------------------------------------------------------
(* The theorems.                                                           *)

CacheInv == TableInv(ReadFetch) /\ LinesInv /\ TrafficInv

\* An empty cache satisfies the invariant.
LEMMA CacheInvInit == CacheInit => CacheInv
<1> SUFFICES ASSUME CacheInit PROVE CacheInv
  OBVIOUS
<1>1. TableInv(ReadFetch)
  BY TableInit
<1>2. lines = [l \in Lines |-> EmptyLine] /\ DOMAIN extra_mf_fields = {}
  BY DEF CacheInit
<1>3. EmptyLine \in Line
  BY DEF EmptyLine, Line, LineStatus
<1>4. lines \in [Lines -> Line]
  BY <1>2, <1>3
<1>5. OneLine
  <2>1. \A l \in Lines : lines[l].tag = NoBlock
    BY <1>2 DEF EmptyLine
  <2>2. NoBlock \notin Blocks
    BY CacheSizesAssumption DEF NoBlock
  <2> QED
    BY <2>1, <2>2 DEF OneLine, Match, Ways
<1>6. LinesInv
  BY <1>2, <1>4, <1>5 DEF LinesInv
<1>7. TrafficInv
  <2>1. miss_queue = <<>>
    BY DEF CacheInit
  <2>2. <<>> \in Seq(AnyFetch) /\ Len(<<>>) <= MissQueueSize + NumSectors
    BY CacheSizesAssumption
  <2> QED
    BY <1>2, <2>1, <2>2 DEF TrafficInv
<1> QED
  BY <1>1, <1>6, <1>7 DEF CacheInv

\* Every step of the cache keeps the invariant.
LEMMA CacheInvStep == CacheInv /\ [CacheNext]_cache_vars => CacheInv'
<1> SUFFICES ASSUME CacheInv, [CacheNext]_cache_vars PROVE CacheInv'
  OBVIOUS
<1> USE DEF CacheInv
<1>1. ASSUME NEW mf \in MemFetch, access(mf)
      PROVE  CacheInv'
  <2>1. Addr(mf) \in Blocks \X Sectors /\ (mf.op \in {"read", "atomic"} => mf \in ReadFetch)
    BY DEF Addr, MemFetch, ReadFetch
  <2>2. TableInv(ReadFetch)'
    BY <1>1, <2>1, TableAccess
  <2> QED
    BY <1>1, <2>2, LinesAccess, TrafficAccess
<1>2. ASSUME UNCHANGED <<lines, extra_mf_fields, overwritten>>
      PROVE  LinesInv'
  BY <1>2 DEF LinesInv, OneLine, OwnLine, Match, InvalidLine, Ways
<1>3. CASE cycle
  <2>1. UNCHANGED <<mshrs, current_response, extra_mf_fields, lines, overwritten>>
    BY <1>3 DEF cycle
  <2> QED
    BY <1>2, <1>3, <2>1, TableUnchanged, TrafficCycle
<1>4. ASSUME NEW mf \in in_memory, fill(mf)
      PROVE  CacheInv'
  <2>1. mf \in ReadFetch
    BY <1>4 DEF fill, LinesInv
  <2>2. Addr(mf) \in Blocks \X Sectors
    BY <2>1 DEF Addr, ReadFetch, MemFetch
  <2> QED
    BY <1>4, <2>2, TableFill, LinesFill, TrafficAnswer
<1>5. ASSUME NEW mf \in in_memory, write_ack(mf)
      PROVE  CacheInv'
  <2>1. UNCHANGED <<mshrs, current_response, extra_mf_fields, lines, overwritten>>
    BY <1>5 DEF write_ack
  <2> QED
    BY <1>2, <1>5, <2>1, TableUnchanged, TrafficAnswer
<1>6. CASE pop_next_access
  <2>1. UNCHANGED <<lines, extra_mf_fields, overwritten, miss_queue, in_memory>>
    BY <1>6 DEF pop_next_access
  <2>2. TrafficInv'
    BY <2>1 DEF TrafficInv, Outstanding
  <2> QED
    BY <1>2, <1>6, <2>1, <2>2, TablePop
<1>7. CASE UNCHANGED cache_vars
  <2>1. UNCHANGED <<mshrs, current_response, extra_mf_fields, lines, overwritten,
                    miss_queue, in_memory>>
    BY <1>7 DEF cache_vars
  <2>2. TrafficInv'
    BY <2>1 DEF TrafficInv, Outstanding
  <2> QED
    BY <1>2, <2>1, <2>2, TableUnchanged
<1> QED
  BY <1>1, <1>3, <1>4, <1>5, <1>6, <1>7 DEF CacheNext, CacheStep

\* The inductive invariant holds throughout.
LEMMA CacheAlways == CacheSpec => []CacheInv
  BY CacheInvInit, CacheInvStep, PTL DEF CacheSpec

\* The MSHR table and the traffic below it agree (cache.cc, MSHR and
\* send_read_request), whatever the sizes of the cache.
THEOREM MshrsAlwaysMatch == CacheSpec => []MshrsMatchFetches
<1>1. CacheInv => MshrsMatchFetches
  <2> SUFFICES ASSUME CacheInv PROVE MshrsMatchFetches
    OBVIOUS
  <2> DEFINE ready == Range(current_response)
  <2>1. TableInv(ReadFetch) /\ TrafficInv
    BY DEF CacheInv
  <2>2. current_response \in Seq(Blocks \X Sectors)
    BY <2>1 DEF TableInv
  <2>3. DOMAIN current_response = 1..Len(current_response)
    BY <2>2
  <2>4. ready = {current_response[i] : i \in 1..Len(current_response)}
    BY <2>2, <2>3 DEF Range
  <2>5. DOMAIN mshrs = Fetched \cup ready /\ Fetched \cap ready = {}
    <3>1. Fetched \subseteq DOMAIN mshrs
      BY <2>1 DEF TableInv, Fetched
    <3>2. ready \subseteq DOMAIN mshrs \ Fetched
      BY <2>1, <2>4 DEF TableInv
    <3>3. DOMAIN mshrs \ Fetched \subseteq ready
      BY <2>1, <2>4 DEF TableInv
    <3> HIDE DEF ready
    <3> QED
      BY <3>1, <3>2, <3>3, Zenon
  <2>6. IsInjective(current_response)
    BY <2>1, <2>3 DEF TableInv, IsInjective
  <2>7. \A f, g \in DOMAIN extra_mf_fields : Addr(f) = Addr(g) => f = g
    BY <2>1 DEF TableInv
  <2>8. \A f \in DOMAIN extra_mf_fields : f \in Outstanding /\ f = mshrs[Addr(f)][1]
    BY <2>1 DEF TableInv, TrafficInv
  <2>9. /\ Cardinality(DOMAIN mshrs) <= MshrEntries
        /\ \A a \in DOMAIN mshrs : Len(mshrs[a]) \in 1..MshrMaxMerge
    BY <2>1 DEF TableInv
  <2> QED
    BY <2>5, <2>6, <2>7, <2>8, <2>9 DEF MshrsMatchFetches, Fetched
<1> QED
  BY <1>1, CacheAlways, PTL

\* Until a lazy write overtakes a fetch, every fetch fills the line that was
\* allocated for it, whatever is evicted meanwhile (TagArray::fill).
THEOREM FillsAlwaysOwnLine == CacheSpec => []FillsOwnLine
<1>1. CacheInv => FillsOwnLine
  BY DEF CacheInv, LinesInv, OwnLine, FillsOwnLine
<1> QED
  BY <1>1, CacheAlways, PTL

\* The miss queue outgrows its size by at most the sectors of a line.
THEOREM MissQueueAlwaysBounded == CacheSpec => []MissQueueBounded
<1>1. CacheInv => MissQueueBounded
  BY DEF CacheInv, TrafficInv, MissQueueBounded
<1> QED
  BY <1>1, CacheAlways, PTL


-----------------------------------------------------------------------------
(* Where the requests are.                                                 *)

\* The ids of the requests that wait in the MSHR table m, each at one position.
WaitingIds(m) == UNION {{m[a][k].id : k \in 1..Len(m[a])} : a \in DOMAIN m}

WaitOnce(m) ==
    \A a, b \in DOMAIN m : \A k \in 1..Len(m[a]), j \in 1..Len(m[b]) :
        m[a][k].id = m[b][j].id => a = b /\ k = j

\* The ids of the writes in a miss queue q and in a next level M, each of them
\* at one position of the queue or once in the next level.
IsWrite(mf) == mf.op = "write"

QueuedWrites(q) == {k \in 1..Len(q) : IsWrite(q[k])}
MemoryWrites(M) == {f \in M : IsWrite(f)}

SentIds(q, M) == {q[k].id : k \in QueuedWrites(q)} \cup {f.id : f \in MemoryWrites(M)}

SentOnce(q, M) ==
    /\ \A k, j \in QueuedWrites(q) : q[k].id = q[j].id => k = j
    /\ \A f, g \in MemoryWrites(M) : f.id = g.id => f = g
    /\ \A k \in QueuedWrites(q), f \in MemoryWrites(M) : q[k].id # f.id

\* What is not answered waits or has been sent on, and not both.
PlacesOf(waiting, sent, n, done) ==
    /\ n \in Nat /\ done \subseteq 1..n
    /\ waiting \cap sent = {} /\ waiting \cup sent = (1..n) \ done

PlaceInv ==
    /\ WaitOnce(mshrs) /\ SentOnce(miss_queue, in_memory)
    /\ PlacesOf(WaitingIds(mshrs), SentIds(miss_queue, in_memory), next_id, answered)

\* The arithmetic of the three ways to accept a request, and of answering one.
LEMMA PlacesStep ==
    ASSUME NEW W, NEW S, NEW n, NEW done, PlacesOf(W, S, n, done)
    PROVE  /\ PlacesOf(W, S, n + 1, done \cup {n + 1})
           /\ PlacesOf(W \cup {n + 1}, S, n + 1, done)
           /\ PlacesOf(W, S \cup {n + 1}, n + 1, done)
           /\ \A i \in W : PlacesOf(W \ {i}, S, n, done \cup {i})
           /\ \A i \in S : PlacesOf(W, S \ {i}, n, done \cup {i})
           /\ n + 1 \notin W /\ n + 1 \notin S
<1>1. PICK N : N = 1..n
  OBVIOUS
<1>2. n \in Nat /\ done \subseteq N /\ W \cap S = {} /\ W \cup S = N \ done
  BY <1>1 DEF PlacesOf
<1>3. n + 1 \in Nat /\ 1..(n + 1) = N \cup {n + 1} /\ n + 1 \notin N
  BY <1>1, <1>2
<1>4. PlacesOf(W, S, n + 1, done \cup {n + 1})
  BY <1>2, <1>3 DEF PlacesOf
<1>5. PlacesOf(W \cup {n + 1}, S, n + 1, done)
  BY <1>2, <1>3 DEF PlacesOf
<1>6. PlacesOf(W, S \cup {n + 1}, n + 1, done)
  BY <1>2, <1>3 DEF PlacesOf
<1>7. \A i \in W : PlacesOf(W \ {i}, S, n, done \cup {i})
  BY <1>1, <1>2, Zenon DEF PlacesOf
<1>8. \A i \in S : PlacesOf(W, S \ {i}, n, done \cup {i})
  BY <1>1, <1>2, Zenon DEF PlacesOf
<1> QED
  BY <1>2, <1>3, <1>4, <1>5, <1>6, <1>7, <1>8

\* send_read_request puts a request behind the others of its sector.
LEMMA WaitingAdd ==
    ASSUME TableInv(ReadFetch), WaitOnce(mshrs), NEW a, NEW mf \in ReadFetch,
           mf.id \notin WaitingIds(mshrs), mshrs' = MshrAdd(a, mf)
    PROVE  WaitOnce(mshrs') /\ WaitingIds(mshrs') = WaitingIds(mshrs) \cup {mf.id}
<1> DEFINE n == IF a \in DOMAIN mshrs THEN Len(mshrs[a]) + 1 ELSE 1
<1>1. \A b \in DOMAIN mshrs : mshrs[b] \in Seq(ReadFetch)
  BY DEF TableInv
<1>2. /\ DOMAIN mshrs' = DOMAIN mshrs \cup {a}
      /\ \A b \in DOMAIN mshrs : b # a => mshrs'[b] = mshrs[b]
  BY DEF MshrAdd
<1>3. /\ Len(mshrs'[a]) = n /\ n \in Nat \ {0} /\ mshrs'[a][n] = mf
      /\ \A k \in 1..(n - 1) : a \in DOMAIN mshrs /\ k \in 1..Len(mshrs[a]) /\ mshrs'[a][k] = mshrs[a][k]
      /\ a \in DOMAIN mshrs => \A k \in 1..Len(mshrs[a]) : k \in 1..n /\ mshrs'[a][k] = mshrs[a][k]
  <2>1. CASE a \in DOMAIN mshrs
    <3>1. mshrs'[a] = Append(mshrs[a], mf) /\ n = Len(mshrs[a]) + 1
      BY <2>1 DEF MshrAdd, MshrProbe
    <3> QED
      BY <1>1, <2>1, <3>1
  <2>2. CASE a \notin DOMAIN mshrs
    <3>1. mshrs'[a] = <<mf>> /\ n = 1
      BY <2>2 DEF MshrAdd, MshrProbe
    <3> QED
      BY <2>2, <3>1
  <2> QED
    BY <2>1, <2>2
<1> HIDE DEF n
<1>4. ASSUME NEW b \in DOMAIN mshrs', NEW k \in 1..Len(mshrs'[b])
      PROVE  \/ b = a /\ k = n /\ mshrs'[b][k] = mf
             \/ b \in DOMAIN mshrs /\ k \in 1..Len(mshrs[b]) /\ mshrs'[b][k] = mshrs[b][k]
  <2>1. CASE b = a /\ k = n
    BY <1>3, <2>1
  <2>2. CASE b = a /\ k # n
    <3>1. k \in 1..(n - 1)
      BY <1>3, <2>2
    <3> QED
      BY <1>3, <2>2, <3>1
  <2>3. CASE b # a
    BY <1>2, <2>3
  <2> QED
    BY <2>1, <2>2, <2>3
<1>5. \A b \in DOMAIN mshrs : \A k \in 1..Len(mshrs[b]) : mshrs[b][k].id # mf.id
  BY DEF WaitingIds
<1>6. WaitOnce(mshrs')
  BY <1>4, <1>5 DEF WaitOnce
<1>7. \A b \in DOMAIN mshrs : \A k \in 1..Len(mshrs[b]) :
         b \in DOMAIN mshrs' /\ k \in 1..Len(mshrs'[b]) /\ mshrs'[b][k] = mshrs[b][k]
  BY <1>2, <1>3
<1>8. a \in DOMAIN mshrs' /\ n \in 1..Len(mshrs'[a])
  BY <1>2, <1>3
<1>9. WaitingIds(mshrs') \subseteq WaitingIds(mshrs) \cup {mf.id}
  BY <1>4 DEF WaitingIds
<1>10. WaitingIds(mshrs) \subseteq WaitingIds(mshrs') /\ mf.id \in WaitingIds(mshrs')
  BY <1>3, <1>7, <1>8 DEF WaitingIds
<1> QED
  BY <1>6, <1>9, <1>10

\* pop_next_access takes the front of an entry.
LEMMA WaitingPop ==
    ASSUME TableInv(ReadFetch), WaitOnce(mshrs), pop_next_access
    PROVE  \E i \in WaitingIds(mshrs) :
              /\ answered' = answered \cup {i}
              /\ WaitOnce(mshrs') /\ WaitingIds(mshrs') = WaitingIds(mshrs) \ {i}
<1>1. PICK a : a = Head(current_response)
  OBVIOUS
<1>2. /\ current_response # <<>>
      /\ answered' = answered \cup {Head(mshrs[a]).id}
      /\ mshrs' = [b \in {c \in DOMAIN mshrs : c = a => ~LastOfEntry(a)} |->
                      IF b = a THEN Tail(mshrs[a]) ELSE mshrs[b]]
  BY <1>1 DEF pop_next_access
<1>3. a \in DOMAIN mshrs
  <2>1. current_response \in Seq(Blocks \X Sectors)
        /\ \A i \in 1..Len(current_response) : current_response[i] \in DOMAIN mshrs
    BY DEF TableInv
  <2>2. Head(current_response) = current_response[1] /\ Len(current_response) >= 1
        /\ Len(current_response) \in Nat
    BY <1>2, <2>1
  <2> QED
    BY <1>1, <2>1, <2>2
<1>4. PICK s : s = mshrs[a]
  OBVIOUS
<1>5. s \in Seq(ReadFetch) /\ Len(s) \in Nat \ {0}
  BY <1>3, <1>4, CacheSizesAssumption DEF TableInv
<1>6. /\ Head(s) = s[1] /\ Tail(s) \in Seq(ReadFetch) /\ Len(Tail(s)) = Len(s) - 1
      /\ \A k \in 1..(Len(s) - 1) : Tail(s)[k] = s[k + 1]
  BY <1>5
<1>7. PICK i : i = s[1].id
  OBVIOUS
<1>8. i \in WaitingIds(mshrs) /\ answered' = answered \cup {i}
  <2>1. 1 \in 1..Len(s)
    BY <1>5
  <2> QED
    BY <1>2, <1>3, <1>4, <1>6, <1>7, <2>1 DEF WaitingIds
<1>9. ASSUME NEW b \in DOMAIN mshrs', NEW k \in 1..Len(mshrs'[b])
      PROVE  /\ b \in DOMAIN mshrs
             /\ b # a => mshrs'[b] = mshrs[b]
             /\ b = a => /\ k + 1 \in 1..Len(mshrs[b]) /\ mshrs'[b][k] = mshrs[b][k + 1]
                          /\ k + 1 # 1
  <2>1. b \in DOMAIN mshrs /\ mshrs'[b] = IF b = a THEN Tail(s) ELSE mshrs[b]
    BY <1>2, <1>4
  <2>2. CASE b = a
    BY <1>4, <1>5, <1>6, <2>1, <2>2
  <2>3. CASE b # a
    BY <2>1, <2>3
  <2> QED
    BY <2>1, <2>2, <2>3
<1>10. ASSUME NEW b \in DOMAIN mshrs, NEW k \in 1..Len(mshrs[b]), b # a \/ k # 1
       PROVE  \E j \in 1..Len(mshrs'[b]) : b \in DOMAIN mshrs' /\ mshrs'[b][j] = mshrs[b][k]
  <2>1. CASE b # a
    <3>1. b \in DOMAIN mshrs' /\ mshrs'[b] = mshrs[b]
      BY <1>2, <2>1
    <3> QED
      BY <3>1
  <2>2. CASE b = a
    <3>1. k \in Nat /\ k - 1 \in 1..(Len(s) - 1) /\ Len(s) # 1
      <4>1. PICK n : n = Len(s)
        BY Zenon
      <4>2. n \in Nat \ {0} /\ k \in 1..n /\ k # 1
        BY <1>4, <1>5, <1>10, <2>2, <4>1
      <4>3. k \in Nat /\ k - 1 \in 1..(n - 1) /\ n # 1
        BY <4>2
      <4> QED
        BY <4>1, <4>3
    <3>2. a \in DOMAIN mshrs' /\ mshrs'[a] = Tail(s)
      BY <1>2, <1>3, <1>4, <3>1 DEF LastOfEntry
    <3>3. Tail(s)[k - 1] = s[k]
      BY <1>6, <3>1
    <3> QED
      BY <1>4, <1>6, <2>2, <3>1, <3>2, <3>3
  <2> QED
    BY <2>1, <2>2
<1>11. WaitOnce(mshrs')
  <2> SUFFICES ASSUME NEW b \in DOMAIN mshrs', NEW c \in DOMAIN mshrs',
                      NEW k \in 1..Len(mshrs'[b]), NEW j \in 1..Len(mshrs'[c]),
                      mshrs'[b][k].id = mshrs'[c][j].id
               PROVE  b = c /\ k = j
    BY DEF WaitOnce
  <2>1. b \in DOMAIN mshrs /\ c \in DOMAIN mshrs
    BY <1>9
  <2>2. CASE b = a /\ c = a
    <3>1. /\ k + 1 \in 1..Len(mshrs[b]) /\ mshrs'[b][k] = mshrs[b][k + 1]
          /\ j + 1 \in 1..Len(mshrs[c]) /\ mshrs'[c][j] = mshrs[c][j + 1]
      BY <1>9, <2>2
    <3>2. k + 1 = j + 1
      BY <2>1, <3>1 DEF WaitOnce
    <3> QED
      BY <2>2, <3>2
  <2>3. CASE b = a /\ c # a
    BY <1>9, <2>1, <2>3 DEF WaitOnce
  <2>4. CASE b # a /\ c = a
    BY <1>9, <2>1, <2>4 DEF WaitOnce
  <2>5. CASE b # a /\ c # a
    BY <1>9, <2>1, <2>5 DEF WaitOnce
  <2> QED
    BY <2>2, <2>3, <2>4, <2>5
<1>12. WaitingIds(mshrs') \subseteq WaitingIds(mshrs)
  BY <1>9 DEF WaitingIds
<1>13. i \notin WaitingIds(mshrs')
  <2> SUFFICES ASSUME NEW b \in DOMAIN mshrs', NEW k \in 1..Len(mshrs'[b]),
                      mshrs'[b][k].id = i
               PROVE  FALSE
    BY DEF WaitingIds
  <2>1. 1 \in 1..Len(mshrs[a]) /\ mshrs[a][1].id = i
    BY <1>4, <1>5, <1>7
  <2> QED
    BY <1>3, <1>9, <2>1 DEF WaitOnce
<1>14. WaitingIds(mshrs) \ {i} \subseteq WaitingIds(mshrs')
  <2> SUFFICES ASSUME NEW b \in DOMAIN mshrs, NEW k \in 1..Len(mshrs[b]), mshrs[b][k].id # i
               PROVE  mshrs[b][k].id \in WaitingIds(mshrs')
    BY DEF WaitingIds
  <2>1. b # a \/ k # 1
    BY <1>4, <1>7
  <2>2. PICK j \in 1..Len(mshrs'[b]) : b \in DOMAIN mshrs' /\ mshrs'[b][j] = mshrs[b][k]
    BY <1>10, <2>1
  <2> QED
    BY <2>2 DEF WaitingIds
<1> QED
  BY <1>8, <1>11, <1>12, <1>13, <1>14

\* What is put behind the miss queue, and is no write, sends no request on.
LEMMA SentAppend ==
    ASSUME NEW q \in Seq(AnyFetch), NEW M, SentOnce(q, M),
           NEW e \in Seq(AnyFetch), \A k \in 1..Len(e) : ~IsWrite(e[k])
    PROVE  SentOnce(q \o e, M) /\ SentIds(q \o e, M) = SentIds(q, M)
<1>1. /\ Len(q \o e) = Len(q) + Len(e) /\ Len(q) \in Nat /\ Len(e) \in Nat
      /\ \A k \in 1..Len(q) : (q \o e)[k] = q[k]
      /\ \A k \in 1..(Len(q) + Len(e)) : k > Len(q) => (q \o e)[k] = e[k - Len(q)]
  OBVIOUS
<1>2. PICK p : p = q \o e
  BY Zenon
<1>3. QueuedWrites(p) = QueuedWrites(q) /\ \A k \in QueuedWrites(q) : p[k] = q[k]
  <2>1. ASSUME NEW k \in 1..Len(p), k > Len(q) PROVE ~IsWrite(p[k])
    <3>1. k - Len(q) \in 1..Len(e) /\ p[k] = e[k - Len(q)]
      BY <1>1, <1>2, <2>1
    <3> QED
      BY <3>1
  <2>2. ASSUME NEW k \in 1..Len(q) PROVE k \in 1..Len(p) /\ p[k] = q[k]
    BY <1>1, <1>2
  <2>3. \A k \in 1..Len(p) : k > Len(q) \/ k \in 1..Len(q)
    BY <1>1
  <2> QED
    BY <2>1, <2>2, <2>3 DEF QueuedWrites
<1>4. SentOnce(p, M) /\ SentIds(p, M) = SentIds(q, M)
  BY <1>3 DEF SentOnce, SentIds
<1> QED
  BY <1>2, <1>4

\* A write put behind the miss queue is sent on.
LEMMA SentWrite ==
    ASSUME NEW q \in Seq(AnyFetch), NEW M, SentOnce(q, M),
           NEW mf \in AnyFetch, IsWrite(mf), mf.id \notin SentIds(q, M)
    PROVE  /\ SentOnce(Append(q, mf), M)
           /\ SentIds(Append(q, mf), M) = SentIds(q, M) \cup {mf.id}
<1>1. PICK p, n : p = Append(q, mf) /\ n = Len(q) + 1
  BY Zenon
<1>2. /\ Len(p) = n /\ n \in Nat \ {0} /\ p[n] = mf
      /\ \A k \in 1..Len(q) : p[k] = q[k] /\ k # n
      /\ 1..n = 1..Len(q) \cup {n}
  BY <1>1
<1>3. QueuedWrites(p) = QueuedWrites(q) \cup {n} /\ \A k \in QueuedWrites(q) : p[k] = q[k]
  BY <1>2 DEF QueuedWrites
<1>4. /\ \A k \in QueuedWrites(q) : q[k].id # mf.id
      /\ \A f \in MemoryWrites(M) : f.id # mf.id
  BY DEF SentIds
<1>5. SentOnce(p, M)
  BY <1>2, <1>3, <1>4 DEF SentOnce
<1>6. SentIds(p, M) = SentIds(q, M) \cup {mf.id}
  BY <1>2, <1>3 DEF SentIds
<1> QED
  BY <1>1, <1>5, <1>6

\* The front of the miss queue goes to the next level.
LEMMA SentOn ==
    ASSUME NEW q \in Seq(AnyFetch), q # <<>>, NEW M, NEW M2, SentOnce(q, M),
           MemoryWrites(M2) = MemoryWrites(M \cup {Head(q)})
    PROVE  SentOnce(Tail(q), M2) /\ SentIds(Tail(q), M2) = SentIds(q, M)
<1>1. PICK p, h : p = Tail(q) /\ h = Head(q)
  BY Zenon
<1>2. /\ Len(q) \in Nat \ {0} /\ h = q[1] /\ Len(p) = Len(q) - 1
      /\ \A k \in 1..(Len(q) - 1) : p[k] = q[k + 1]
  BY <1>1
<1>3. \A k \in QueuedWrites(p) : k \in Nat /\ k + 1 \in QueuedWrites(q) /\ p[k] = q[k + 1] /\ k + 1 # 1
  BY <1>2 DEF QueuedWrites
<1>4. \A k \in QueuedWrites(q) : k # 1 => k - 1 \in QueuedWrites(p) /\ p[k - 1] = q[k]
  BY <1>2 DEF QueuedWrites
<1>5. MemoryWrites(M2) = IF IsWrite(h) THEN MemoryWrites(M) \cup {h} ELSE MemoryWrites(M)
  BY <1>1 DEF MemoryWrites
<1>6. IsWrite(h) <=> 1 \in QueuedWrites(q)
  BY <1>2 DEF QueuedWrites
<1>7. SentOnce(p, M2)
  <2>1. ASSUME NEW k \in QueuedWrites(p), NEW j \in QueuedWrites(p), p[k].id = p[j].id PROVE k = j
    <3>1. k + 1 = j + 1
      BY <1>3, <2>1 DEF SentOnce
    <3> QED
      BY <1>3, <3>1
  <2>2. \A f \in MemoryWrites(M2) :
           f \in MemoryWrites(M) \/ (f = q[1] /\ 1 \in QueuedWrites(q))
    BY <1>2, <1>5, <1>6, Zenon
  <2>3. \A f, g \in MemoryWrites(M2) : f.id = g.id => f = g
    BY <2>2, Zenon DEF SentOnce
  <2>4. ASSUME NEW k \in QueuedWrites(p), NEW f \in MemoryWrites(M2) PROVE p[k].id # f.id
    <3>1. PICK j \in QueuedWrites(q) : p[k] = q[j] /\ j # 1
      BY <1>3
    <3> QED
      BY <2>2, <3>1, Zenon DEF SentOnce
  <2> QED
    BY <2>1, <2>3, <2>4, Zenon DEF SentOnce
<1>8. SentIds(p, M2) \subseteq SentIds(q, M)
  <2>1. \A k \in QueuedWrites(p) : \E j \in QueuedWrites(q) : p[k] = q[j]
    BY <1>3
  <2>2. \A f \in MemoryWrites(M2) : f \in MemoryWrites(M) \/ \E j \in QueuedWrites(q) : f = q[j]
    BY <1>2, <1>5, <1>6, Zenon
  <2>3. \A j \in QueuedWrites(q) : q[j].id \in SentIds(q, M)
    BY DEF SentIds
  <2>4. \A f \in MemoryWrites(M) : f.id \in SentIds(q, M)
    BY DEF SentIds
  <2>5. \A k \in QueuedWrites(p) : p[k].id \in SentIds(q, M)
    BY <2>1, <2>3, Zenon
  <2>6. \A f \in MemoryWrites(M2) : f.id \in SentIds(q, M)
    BY <2>2, <2>3, <2>4, Zenon
  <2>7. PICK S : S = SentIds(q, M)
    BY Zenon
  <2> QED
    BY <2>5, <2>6, <2>7 DEF SentIds
<1>9. SentIds(q, M) \subseteq SentIds(p, M2)
  <2>1. ASSUME NEW k \in QueuedWrites(q) PROVE q[k].id \in SentIds(p, M2)
    <3>1. CASE k = 1
      BY <1>2, <1>5, <1>6, <3>1, Zenon DEF SentIds
    <3>2. CASE k # 1
      BY <1>4, <3>2 DEF SentIds
    <3> QED
      BY <3>1, <3>2
  <2>2. ASSUME NEW f \in MemoryWrites(M) PROVE f.id \in SentIds(p, M2)
    BY <1>5, Zenon DEF SentIds
  <2>3. PICK S : S = SentIds(p, M2)
    BY Zenon
  <2>4. /\ \A k \in QueuedWrites(q) : q[k].id \in S
        /\ \A f \in MemoryWrites(M) : f.id \in S
    BY <2>1, <2>2, <2>3, Zenon
  <2>5. SentIds(q, M) \subseteq S
    BY <2>4 DEF SentIds
  <2> QED
    BY <2>3, <2>5, Zenon
<1> QED
  BY <1>1, <1>7, <1>8, <1>9, Zenon

\* The acknowledgement of a write takes it from the next level.
LEMMA SentAcknowledged ==
    ASSUME NEW q, NEW M, NEW M2, NEW mf, SentOnce(q, M), mf \in M, IsWrite(mf), M2 = M \ {mf}
    PROVE  /\ SentOnce(q, M2) /\ mf.id \in SentIds(q, M)
           /\ SentIds(q, M2) = SentIds(q, M) \ {mf.id}
<1>1. MemoryWrites(M2) = MemoryWrites(M) \ {mf} /\ mf \in MemoryWrites(M)
  BY DEF MemoryWrites
<1>2. /\ \A k \in QueuedWrites(q) : q[k].id # mf.id
      /\ \A f \in MemoryWrites(M) : f.id = mf.id => f = mf
  BY <1>1 DEF SentOnce
<1>3. SentOnce(q, M2)
  BY <1>1, Zenon DEF SentOnce
<1>4. mf.id \in SentIds(q, M)
  BY <1>1 DEF SentIds
<1>5. SentIds(q, M2) = SentIds(q, M) \ {mf.id}
  BY <1>1, <1>2, Zenon DEF SentIds
<1> QED
  BY <1>3, <1>4, <1>5

\* The write-backs of a line are nobody's request.
LEMMA WriteBacksOnly ==
    ASSUME LinesInv, NEW l \in Lines, NEW mf
    PROVE  /\ write_back(l, mf) \in Seq(AnyFetch)
           /\ \A k \in 1..Len(write_back(l, mf)) : ~IsWrite(write_back(l, mf)[k])
<1>1. write_back(l, mf) \in Seq(AnyFetch)
  BY WriteBackLen DEF LinesInv
<1>2. PICK n : n = Cardinality(ModifiedSectors(l))
  OBVIOUS
<1>3. PICK wb : wb = [i \in 1..n |-> [id |-> 0, op |-> "write_back",
                                       block |-> lines[l].tag, sector |-> i - 1]]
  BY Zenon
<1>4. write_back(l, mf) = <<>> \/ write_back(l, mf) = wb
  BY <1>2, <1>3, Zenon DEF write_back
<1>5. ASSUME write_back(l, mf) = wb, NEW k \in 1..Len(wb)
      PROVE  ~IsWrite(wb[k])
  <2>1. k \in DOMAIN wb
    BY <1>1, <1>5
  <2>2. wb[k].op = "write_back"
    BY <1>3, <2>1
  <2> QED
    BY <2>2 DEF IsWrite
<1>6. Len(<<>>) = 0
  OBVIOUS
<1> QED
  BY <1>1, <1>4, <1>5, <1>6

\* The three ways to accept a request: it is answered, it waits, it is sent on.
LEMMA PlacesAccess ==
    ASSUME CacheInv, PlaceInv, NEW mf \in MemFetch, access(mf)
    PROVE  PlaceInv'
<1> DEFINE W == WaitingIds(mshrs)
           S == SentIds(miss_queue, in_memory)
<1> HIDE DEF W, S
<1>1. /\ mf.id = next_id + 1 /\ next_id' = next_id + 1 /\ in_memory' = in_memory
      /\ mf \in AnyFetch /\ miss_queue \in Seq(AnyFetch) /\ LinesInv /\ TableInv(ReadFetch)
  BY RequestsAreFetches DEF access, CacheInv, TrafficInv
<1>2. WaitOnce(mshrs) /\ SentOnce(miss_queue, in_memory) /\ PlacesOf(W, S, next_id, answered)
  BY DEF PlaceInv, W, S
<1>3. /\ PlacesOf(W, S, next_id + 1, answered \cup {next_id + 1})
      /\ PlacesOf(W \cup {next_id + 1}, S, next_id + 1, answered)
      /\ PlacesOf(W, S \cup {next_id + 1}, next_id + 1, answered)
      /\ next_id + 1 \notin W /\ next_id + 1 \notin S
  BY <1>2, PlacesStep, Zenon
<1>4. ASSUME NEW e \in Seq(AnyFetch), miss_queue' = miss_queue \o e,
             \A k \in 1..Len(e) : ~IsWrite(e[k])
      PROVE  SentOnce(miss_queue', in_memory') /\ SentIds(miss_queue', in_memory') = S
  BY <1>1, <1>2, <1>4, SentAppend DEF S
<1>5. ASSUME mshrs' = mshrs, answered' = answered \cup {mf.id},
             SentOnce(miss_queue', in_memory'), SentIds(miss_queue', in_memory') = S
      PROVE  PlaceInv'
  BY <1>1, <1>2, <1>3, <1>5 DEF PlaceInv, W
<1>6. ASSUME mf.op = "write", mshrs' = mshrs, answered' = answered,
             miss_queue' = Append(miss_queue, mf)
      PROVE  PlaceInv'
  <2>1. /\ SentOnce(miss_queue', in_memory')
        /\ SentIds(miss_queue', in_memory') = S \cup {next_id + 1}
    BY <1>1, <1>2, <1>3, <1>6, SentWrite DEF S, IsWrite
  <2> QED
    BY <1>1, <1>2, <1>3, <1>6, <2>1 DEF PlaceInv, W
<1>7. ASSUME miss_queue' = miss_queue
      PROVE  SentOnce(miss_queue', in_memory') /\ SentIds(miss_queue', in_memory') = S
  BY <1>1, <1>2, <1>7 DEF S
<1>8. CASE rd_hit_base(mf)
  BY <1>5, <1>7, <1>8 DEF rd_hit_base
<1>9. CASE mf.op \in {"read", "atomic"} /\ rd_miss_base(mf)
  <2>1. PICK l \in Candidates(mf) :
          /\ mshrs' = MshrAdd(Addr(mf), mf)
          /\ \/ miss_queue' = miss_queue \o write_back(l, mf)
             \/ miss_queue' = Append(miss_queue, mf) \o write_back(l, mf)
    BY <1>9 DEF rd_miss_base
  <2>2. answered' = answered
    BY <1>9 DEF rd_miss_base
  <2>3. l \in Lines
    BY <1>1, AllocatedLine DEF LinesInv
  <2>4. PICK wb : wb = write_back(l, mf)
    OBVIOUS
  <2>5. wb \in Seq(AnyFetch) /\ \A k \in 1..Len(wb) : ~IsWrite(wb[k])
    BY <1>1, <2>3, <2>4, WriteBacksOnly
  <2>6. SentOnce(miss_queue', in_memory') /\ SentIds(miss_queue', in_memory') = S
    <3>1. CASE miss_queue' = miss_queue \o wb
      BY <1>4, <2>5, <3>1
    <3>2. CASE miss_queue' = Append(miss_queue, mf) \o wb
      <4>1. PICK q : q = miss_queue \o <<mf>>
        BY Zenon
      <4>2. q \in Seq(AnyFetch) /\ Append(miss_queue, mf) = q
        BY <1>1, <4>1
      <4>3. <<mf>> \in Seq(AnyFetch) /\ \A k \in 1..Len(<<mf>>) : ~IsWrite(<<mf>>[k])
        BY <1>1, <1>9 DEF IsWrite
      <4>4. SentOnce(q, in_memory) /\ SentIds(q, in_memory) = S
        BY <1>1, <1>2, <4>1, <4>3, SentAppend, Zenon DEF S
      <4>5. SentOnce(q \o wb, in_memory) /\ SentIds(q \o wb, in_memory) = S
        BY <2>5, <4>2, <4>4, SentAppend
      <4> QED
        BY <1>1, <3>2, <4>2, <4>5
    <3> QED
      BY <2>1, <2>4, <3>1, <3>2
  <2>7. mf \in ReadFetch
    BY <1>9 DEF ReadFetch
  <2>8. WaitOnce(mshrs') /\ WaitingIds(mshrs') = W \cup {next_id + 1}
    BY <1>1, <1>2, <1>3, <2>1, <2>7, WaitingAdd DEF W
  <2> QED
    BY <1>1, <1>3, <2>2, <2>6, <2>8 DEF PlaceInv
<1>10. CASE mf.op = "write" /\ wr_hit(mf)
  BY <1>5, <1>6, <1>7, <1>10 DEF wr_hit, wr_hit_wb, wr_hit_wt, wr_hit_we
<1>11. CASE mf.op = "write" /\ wr_miss_no_wa(mf)
  BY <1>6, <1>11 DEF wr_miss_no_wa
<1>12. CASE mf.op = "write" /\ wr_miss_wa_lazy_fetch_on_read(mf)
  <2>1. PICK l \in Candidates(mf) :
          miss_queue' = IF policy.write = "WRITE_THROUGH" THEN Append(miss_queue, mf)
                        ELSE miss_queue \o write_back(l, mf)
    BY <1>12, Zenon DEF wr_miss_wa_lazy_fetch_on_read
  <2>2. /\ mshrs' = mshrs
        /\ answered' = IF policy.write = "WRITE_THROUGH" THEN answered
                       ELSE answered \cup {mf.id}
    BY <1>12, Zenon DEF wr_miss_wa_lazy_fetch_on_read
  <2>3. CASE policy.write = "WRITE_THROUGH"
    BY <1>6, <1>12, <2>1, <2>2, <2>3
  <2>4. CASE policy.write # "WRITE_THROUGH"
    <3>1. l \in Lines
      BY <1>1, AllocatedLine DEF LinesInv
    <3>2. PICK wb : wb = write_back(l, mf)
      OBVIOUS
    <3>3. wb \in Seq(AnyFetch) /\ \A k \in 1..Len(wb) : ~IsWrite(wb[k])
      BY <1>1, <3>1, <3>2, WriteBacksOnly
    <3>4. SentOnce(miss_queue', in_memory') /\ SentIds(miss_queue', in_memory') = S
      BY <1>4, <2>1, <2>4, <3>2, <3>3, Zenon
    <3> QED
      BY <1>5, <2>2, <2>4, <3>4
  <2> QED
    BY <2>3, <2>4
<1> QED
  BY <1>8, <1>9, <1>10, <1>11, <1>12 DEF access

\* Every step keeps each request in its place, or moves it to the next one.
LEMMA PlaceInvStep == CacheInv /\ PlaceInv /\ [CacheNext]_cache_vars => PlaceInv'
<1> SUFFICES ASSUME CacheInv, PlaceInv, [CacheNext]_cache_vars PROVE PlaceInv'
  OBVIOUS
<1> DEFINE W == WaitingIds(mshrs)
           S == SentIds(miss_queue, in_memory)
<1> HIDE DEF W, S
<1>1. WaitOnce(mshrs) /\ SentOnce(miss_queue, in_memory) /\ PlacesOf(W, S, next_id, answered)
  BY DEF PlaceInv, W, S
<1>2. miss_queue \in Seq(AnyFetch) /\ LinesInv /\ TableInv(ReadFetch)
  BY DEF CacheInv, TrafficInv
<1>3. CASE \E mf \in MemFetch : access(mf)
  BY <1>3, PlacesAccess
<1>4. CASE cycle
  <2>1. /\ miss_queue # <<>> /\ miss_queue' = Tail(miss_queue)
        /\ in_memory' = in_memory
             \cup ({Head(miss_queue)} \ {mf \in MemFetch : mf.op = "write_back"})
        /\ UNCHANGED <<mshrs, next_id, answered>>
    BY <1>4 DEF cycle
  <2>2. MemoryWrites(in_memory') = MemoryWrites(in_memory \cup {Head(miss_queue)})
    BY <2>1 DEF MemoryWrites, IsWrite
  <2>3. SentOnce(miss_queue', in_memory') /\ SentIds(miss_queue', in_memory') = S
    BY <1>1, <1>2, <2>1, <2>2, SentOn DEF S
  <2> QED
    BY <1>1, <2>1, <2>3 DEF PlaceInv, W
<1>5. ASSUME NEW mf \in in_memory, fill(mf) PROVE PlaceInv'
  <2>1. /\ mf \in DOMAIN extra_mf_fields /\ in_memory' = in_memory \ {mf}
        /\ UNCHANGED <<mshrs, miss_queue, next_id, answered>>
    BY <1>5 DEF fill
  <2>2. ~IsWrite(mf)
    BY <1>2, <2>1 DEF LinesInv, ReadFetch, IsWrite
  <2>3. MemoryWrites(in_memory') = MemoryWrites(in_memory)
    BY <2>1, <2>2 DEF MemoryWrites
  <2>4. SentOnce(miss_queue', in_memory') /\ SentIds(miss_queue', in_memory') = S
    BY <1>1, <2>1, <2>3, Zenon DEF S, SentOnce, SentIds
  <2> QED
    BY <1>1, <2>1, <2>4 DEF PlaceInv, W
<1>6. ASSUME NEW mf \in in_memory, write_ack(mf) PROVE PlaceInv'
  <2>1. /\ IsWrite(mf) /\ in_memory' = in_memory \ {mf} /\ answered' = answered \cup {mf.id}
        /\ UNCHANGED <<mshrs, miss_queue, next_id>>
    BY <1>6 DEF write_ack, IsWrite
  <2>2. /\ SentOnce(miss_queue', in_memory') /\ mf.id \in S
        /\ SentIds(miss_queue', in_memory') = S \ {mf.id}
    <3>1. PICK q, M, M2 : q = miss_queue /\ M = in_memory /\ M2 = in_memory'
      OBVIOUS
    <3>2. SentOnce(q, M) /\ mf \in M /\ IsWrite(mf) /\ M2 = M \ {mf}
      BY <1>1, <2>1, <3>1
    <3>3. SentOnce(q, M2) /\ mf.id \in SentIds(q, M) /\ SentIds(q, M2) = SentIds(q, M) \ {mf.id}
      BY <3>2, SentAcknowledged, Zenon
    <3> QED
      BY <2>1, <3>1, <3>3, Zenon DEF S
  <2>3. PlacesOf(W, S \ {mf.id}, next_id, answered \cup {mf.id})
    BY <1>1, <2>2, PlacesStep, Zenon
  <2> QED
    BY <1>1, <2>1, <2>2, <2>3, Zenon DEF PlaceInv, W
<1>7. CASE pop_next_access
  <2>1. UNCHANGED <<miss_queue, in_memory, next_id>>
    BY <1>7 DEF pop_next_access
  <2>2. PICK i \in W : /\ answered' = answered \cup {i}
                       /\ WaitOnce(mshrs') /\ WaitingIds(mshrs') = W \ {i}
    BY <1>1, <1>2, <1>7, WaitingPop DEF W
  <2>3. PlacesOf(W \ {i}, S, next_id, answered \cup {i})
    BY <1>1, PlacesStep, Zenon
  <2> QED
    BY <1>1, <2>1, <2>2, <2>3 DEF PlaceInv, S
<1>8. CASE UNCHANGED cache_vars
  BY <1>1, <1>8 DEF cache_vars, PlaceInv, W, S
<1> QED
  BY <1>3, <1>4, <1>5, <1>6, <1>7, <1>8 DEF CacheNext, CacheStep

\* A request that has no reply yet waits in exactly one MSHR entry or is a
\* write on its way to the next level; one with a reply is in neither
\* (cache.cc, and LDSTUnit, which deletes a request with its reply).
THEOREM RequestsAlwaysInOnePlace == CacheSpec => []RequestsInOnePlace
<1>1. CacheInit => PlaceInv
  <2> SUFFICES ASSUME CacheInit PROVE PlaceInv
    OBVIOUS
  <2>1. DOMAIN mshrs = {} /\ miss_queue = <<>> /\ in_memory = {} /\ next_id = 0 /\ answered = {}
    BY DEF CacheInit
  <2>2. WaitOnce(mshrs) /\ WaitingIds(mshrs) = {}
    BY <2>1 DEF WaitOnce, WaitingIds
  <2>3. QueuedWrites(miss_queue) = {} /\ MemoryWrites(in_memory) = {}
    BY <2>1 DEF QueuedWrites, MemoryWrites
  <2>4. SentOnce(miss_queue, in_memory) /\ SentIds(miss_queue, in_memory) = {}
    BY <2>3 DEF SentOnce, SentIds
  <2> QED
    BY <2>1, <2>2, <2>4 DEF PlaceInv, PlacesOf
<1>2. CacheInv /\ PlaceInv => RequestsInOnePlace
  <2> SUFFICES ASSUME CacheInv, PlaceInv, NEW i \in 1..next_id
               PROVE  LET waiting == {p \in (DOMAIN mshrs) \X (1..MshrMaxMerge) :
                                        p[2] <= Len(mshrs[p[1]]) /\ mshrs[p[1]][p[2]].id = i}
                          sent == {mf \in Outstanding : mf.id = i /\ mf.op = "write"}
                      IN  Cardinality(waiting) + Cardinality(sent)
                            = IF i \in answered THEN 0 ELSE 1
    BY DEF RequestsInOnePlace
  <2>1. PICK waiting, sent :
           /\ waiting = {p \in (DOMAIN mshrs) \X (1..MshrMaxMerge) :
                           p[2] <= Len(mshrs[p[1]]) /\ mshrs[p[1]][p[2]].id = i}
           /\ sent = {mf \in Outstanding : mf.id = i /\ mf.op = "write"}
    BY ZenonT(40)
  <2>2. /\ WaitOnce(mshrs) /\ SentOnce(miss_queue, in_memory)
        /\ PlacesOf(WaitingIds(mshrs), SentIds(miss_queue, in_memory), next_id, answered)
        /\ miss_queue \in Seq(AnyFetch)
        /\ \A a \in DOMAIN mshrs : Len(mshrs[a]) \in 1..MshrMaxMerge
        /\ MshrMaxMerge \in Nat
    BY CacheSizesAssumption DEF PlaceInv, CacheInv, TrafficInv, TableInv
  <2>3. \A p \in waiting : /\ p = <<p[1], p[2]>> /\ p[1] \in DOMAIN mshrs
                           /\ p[2] \in 1..Len(mshrs[p[1]]) /\ mshrs[p[1]][p[2]].id = i
    <3> SUFFICES ASSUME NEW p \in waiting
                 PROVE  /\ p = <<p[1], p[2]>> /\ p[1] \in DOMAIN mshrs
                        /\ p[2] \in 1..Len(mshrs[p[1]]) /\ mshrs[p[1]][p[2]].id = i
      OBVIOUS
    <3>1. /\ p \in (DOMAIN mshrs) \X (1..MshrMaxMerge)
          /\ p[2] <= Len(mshrs[p[1]]) /\ mshrs[p[1]][p[2]].id = i
      BY <2>1, Zenon
    <3>2. p = <<p[1], p[2]>> /\ p[1] \in DOMAIN mshrs /\ p[2] \in 1..MshrMaxMerge
      BY <3>1
    <3>3. Len(mshrs[p[1]]) \in 1..MshrMaxMerge
      BY <2>2, <3>2, Zenon
    <3>4. p[2] \in 1..Len(mshrs[p[1]])
      <4>1. PICK m, n : m = p[2] /\ n = Len(mshrs[p[1]])
        BY Zenon
      <4>2. m \in 1..MshrMaxMerge /\ n \in 1..MshrMaxMerge /\ m <= n /\ MshrMaxMerge \in Nat
        BY <2>2, <3>1, <3>2, <3>3, <4>1, Zenon
      <4>3. m \in 1..n
        BY ONLY <4>2
      <4> QED
        BY <4>1, <4>3, Zenon
    <3> QED
      BY <3>1, <3>2, <3>4, Zenon
  <2>4. \A a \in DOMAIN mshrs : \A k \in 1..Len(mshrs[a]) :
           mshrs[a][k].id = i => <<a, k>> \in waiting
    <3> SUFFICES ASSUME NEW a \in DOMAIN mshrs, NEW k \in 1..Len(mshrs[a]), mshrs[a][k].id = i
                 PROVE  <<a, k>> \in waiting
      BY Zenon
    <3>1. PICK n : n = Len(mshrs[a])
      BY Zenon
    <3>2. n \in 1..MshrMaxMerge /\ k \in 1..n /\ MshrMaxMerge \in Nat
      BY <2>2, <3>1, Zenon
    <3>3. k \in 1..MshrMaxMerge /\ k <= n
      BY ONLY <3>2
    <3>4. PICK p : p = <<a, k>>
      BY Zenon
    <3>5. p \in (DOMAIN mshrs) \X (1..MshrMaxMerge) /\ p[1] = a /\ p[2] = k
      BY ONLY <3>3, <3>4, a \in DOMAIN mshrs
    <3>6. p \in waiting
      BY <2>1, <3>1, <3>3, <3>5, Zenon
    <3> QED
      BY <3>4, <3>6, Zenon
  <2>5. i \in WaitingIds(mshrs) => \E x : waiting = {x}
    <3> SUFFICES ASSUME i \in WaitingIds(mshrs) PROVE \E x : waiting = {x}
      OBVIOUS
    <3>1. PICK a \in DOMAIN mshrs : \E k \in 1..Len(mshrs[a]) : mshrs[a][k].id = i
      BY DEF WaitingIds
    <3>2. PICK k \in 1..Len(mshrs[a]) : mshrs[a][k].id = i
      BY <3>1
    <3>3. waiting = {<<a, k>>}
      BY <2>2, <2>3, <2>4, <3>2 DEF WaitOnce
    <3> QED
      BY <3>3, Zenon
  <2>6. i \notin WaitingIds(mshrs) => waiting = {}
    BY <2>3 DEF WaitingIds
  <2>7. \A f \in sent : /\ f.id = i /\ f.op = "write"
                        /\ \/ \E k \in QueuedWrites(miss_queue) : f = miss_queue[k]
                           \/ f \in MemoryWrites(in_memory)
    BY <2>1, <2>2 DEF Outstanding, Range, QueuedWrites, MemoryWrites, IsWrite
  <2>8. /\ \A k \in QueuedWrites(miss_queue) : miss_queue[k].id = i => miss_queue[k] \in sent
        /\ \A f \in MemoryWrites(in_memory) : f.id = i => f \in sent
    BY <2>1, <2>2 DEF Outstanding, Range, QueuedWrites, MemoryWrites, IsWrite
  <2>9. i \in SentIds(miss_queue, in_memory) => \E x : sent = {x}
    <3>1. \A f, g \in sent : f = g
      BY <2>2, <2>7 DEF SentOnce
    <3>2. i \in SentIds(miss_queue, in_memory) => sent # {}
      BY <2>8 DEF SentIds
    <3> QED
      BY <3>1, <3>2
  <2>10. i \notin SentIds(miss_queue, in_memory) => sent = {}
    BY <2>7 DEF SentIds
  <2>11. /\ i \in WaitingIds(mshrs) => i \notin SentIds(miss_queue, in_memory)
         /\ i \in answered <=> (i \notin WaitingIds(mshrs) /\ i \notin SentIds(miss_queue, in_memory))
    BY <2>2 DEF PlacesOf
  <2>12. Cardinality(waiting) = IF i \in WaitingIds(mshrs) THEN 1 ELSE 0
    BY <2>5, <2>6, FS_EmptySet, FS_Singleton, Zenon
  <2>13. Cardinality(sent) = IF i \in SentIds(miss_queue, in_memory) THEN 1 ELSE 0
    BY <2>9, <2>10, FS_EmptySet, FS_Singleton, Zenon
  <2>14. Cardinality(waiting) + Cardinality(sent) = IF i \in answered THEN 0 ELSE 1
    BY <2>11, <2>12, <2>13
  <2> QED
    BY <2>1, <2>14
<1> QED
  BY <1>1, <1>2, PlaceInvStep, CacheAlways, PTL DEF CacheSpec
=============================================================================

----------------------------- MODULE MshrCache -----------------------------
(***************************************************************************)
(* What the owners of a cache rely on: its MSHR table, its miss queue and  *)
(* the answers it gives, as operations on a record.  The tag array is left *)
(* to the sets of blocks that may be in it: a block that is held may be    *)
(* found or may have been evicted meanwhile, one that is not held is never *)
(* found.  DataCache has the tag array in full; RequestsInOnePlace and     *)
(* MshrsMatchFetches are the facts about it that this module builds on.    *)
(*                                                                         *)
(* A fetch is the request itself, at the front of its MSHR entry, so       *)
(* extra_mf_fields is the set of those fronts whose data has not come.     *)
(***************************************************************************)
EXTENDS Naturals, Sequences, FiniteSets, SequencesExt

\* The sizes of a cache.
CacheSizes == [mshr_entries : Nat, mshr_max_merge : Nat, miss_queue_size : Nat]

EmptyCache ==
    [mshrs |-> [a \in {} |-> <<>>], current_response |-> <<>>, miss_queue |-> <<>>,
     held |-> {}]

miss_queue_full(c, n, size) == Len(c.miss_queue) + n > size.miss_queue_size

mshr_full(c, a, size) ==
    IF a \in DOMAIN c.mshrs THEN Len(c.mshrs[a]) >= size.mshr_max_merge
    ELSE Cardinality(DOMAIN c.mshrs) >= size.mshr_entries

CanHit(c, a) == a \in c.held

\* A read-only cache asks for n = 0 free places, a data cache for one.
CanMiss(c, a, n, size) == ~miss_queue_full(c, n, size) /\ ~mshr_full(c, a, size)

\* A read that misses: it joins the entry of its block, or makes one and is
\* sent on as its fetch.
send_read_request(c, a, mf) ==
    IF a \in DOMAIN c.mshrs
    THEN [c EXCEPT !.mshrs[a] = Append(@, mf), !.held = @ \ {a}]
    ELSE [c EXCEPT !.mshrs = [b \in DOMAIN @ \cup {a} |-> IF b = a THEN <<mf>> ELSE @[b]],
                   !.miss_queue = Append(@, mf),
                   !.held = @ \ {a}]

\* A write of a write-through cache: the block is there afterwards and the
\* write is sent on.
send_write_request(c, a, mf) ==
    [c EXCEPT !.miss_queue = Append(@, mf), !.held = @ \cup {a}]

waiting_for_fill(c, a, mf) ==
    /\ a \in DOMAIN c.mshrs
    /\ a \notin ToSet(c.current_response)
    /\ c.mshrs[a][1] = mf

fill(c, a) == [c EXCEPT !.current_response = Append(@, a), !.held = @ \cup {a}]

access_ready(c) == c.current_response # <<>>

top_next_access(c) == c.mshrs[Head(c.current_response)][1]

\* Mutant: the entry goes with its first request.
PopWholeEntry(c) ==
    LET a == Head(c.current_response)
    IN  [c EXCEPT !.mshrs = [b \in DOMAIN @ \ {a} |-> @[b]],
                  !.current_response = Tail(@)]

\* The answered request leaves its entry; the last one takes the entry along.
pop_next_access(c) ==
    LET a == Head(c.current_response)
        last == Len(c.mshrs[a]) = 1
    IN  [c EXCEPT !.mshrs = [b \in {d \in DOMAIN @ : d = a => ~last} |->
                                IF b = a THEN Tail(@[a]) ELSE @[b]],
                  !.current_response = IF last THEN Tail(@) ELSE @]
=============================================================================

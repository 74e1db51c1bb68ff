---------------------------- MODULE MCLoadStore ----------------------------
(***************************************************************************)
(* Instances of LoadStore for TLC.  Two banks, two addresses of one page   *)
(* and one of another, so that loads merge in the L1 and in the TLB, walks *)
(* and requests share a bank, and queues of one place fill.                *)
(***************************************************************************)
EXTENDS LoadStore

MCAddrs == {0, 1, 2}

Kind(op, addrs, spad, last_inst) ==
    [op |-> op, addrs |-> addrs, spad |-> spad, last_inst |-> last_inst]

MCInstKinds ==
    { Kind("load", {0, 1}, FALSE, TRUE),
      Kind("load", {0, 2}, FALSE, FALSE),
      Kind("store", {0}, FALSE, TRUE),
      Kind("atomic", {0}, FALSE, FALSE),
      Kind("load", {0}, TRUE, FALSE) }

MCL1Size == [mshr_entries |-> 2, mshr_max_merge |-> 2, miss_queue_size |-> 1]
MCTlbSize == [mshr_entries |-> 1, mshr_max_merge |-> 2, miss_queue_size |-> 0]

MCModes ==
    { [ops |-> {"load", "store"}, request_queue_size |-> 1, dram_tlb_miss_handling |-> TRUE],
      [ops |-> {"load", "atomic"}, request_queue_size |-> 4, dram_tlb_miss_handling |-> FALSE] }
\* An atomic and a load with queues of one place.
MCSmallModes ==
    { [ops |-> {"load", "atomic"}, request_queue_size |-> 1, dram_tlb_miss_handling |-> FALSE] }
=============================================================================

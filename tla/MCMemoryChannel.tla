-------------------------- MODULE MCMemoryChannel --------------------------
(***************************************************************************)
(* A channel of two banks, with a cache of one line.  The two blocks are   *)
(* in different banks and share a unit of addresses: they evict each       *)
(* other, modified or not, and a back-invalidation of one parks loads of   *)
(* both banks.                                                             *)
(***************************************************************************)
EXTENDS MemoryChannel

CONSTANTS b1, b2

MCBlocks == {b1, b2}
MCSetIndex == [b \in MCBlocks |-> 0]
MCBanks == 0..1
MCBankOf == [b \in MCBlocks |-> IF b = b1 THEN 0 ELSE 1]
MCBiUnitOf == [b \in MCBlocks |-> 0]
MCPolicies == {[write |-> "WRITE_BACK", alloc |-> "LAZY_FETCH_ON_READ"]}
=============================================================================

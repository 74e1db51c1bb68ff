---------------------------- MODULE MCDataCache ----------------------------
(* Instances of DataCache for TLC: one set of two ways, and three blocks. *)
EXTENDS DataCache, TLC

CONSTANTS b1, b2, b3

MCBlocks == {b1, b2, b3}
MCSetIndex == [b \in MCBlocks |-> 0]
BlockSymmetry == Permutations(MCBlocks)

\* The L1 and the L2 of the configurations, and a policy that sends writes on
\* and invalidates.
MCPolicies ==
    [write : {"WRITE_BACK", "WRITE_THROUGH"}, alloc : {"LAZY_FETCH_ON_READ"}]
    \cup [write : {"LOCAL_WB_GLOBAL_WT"}, alloc : {"NO_WRITE_ALLOCATE"}]
=============================================================================

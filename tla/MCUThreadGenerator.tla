------------------------- MODULE MCUThreadGenerator -------------------------
(* Small instances of UThreadGenerator for TLC. *)
EXTENDS UThreadGenerator

\* One kernel with two kernel bodies and one with a single body.
MCKernelIds == {"two_bodies", "one_body"}
MCNumKernelBodies == [k \in MCKernelIds |-> IF k = "two_bodies" THEN 2 ELSE 1]
=============================================================================

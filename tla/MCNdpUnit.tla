----------------------------- MODULE MCNdpUnit -----------------------------
(* Instances of NdpUnit for TLC.                                           *)
EXTENDS NdpUnit

\* One kernel, of two bodies or of one.
MCKernelIds == {"k"}
MCNumKernelBodies == [k \in MCKernelIds |-> 2]
MCOneBody == [k \in MCKernelIds |-> 1]

Keys == MCKernelIds \X {"INITIALIZER", "KERNEL_BODY", "FINALIZER"} \X {0, 1}

\* The ways in which what is counted and what is taken differ.  The initializer
\* writes x1, x2 and x5.  The first body writes x5 and only reads x1 and x2,
\* like most kernels of the examples.  The second writes x6 with vmv.x.s.  The
\* finalizer ends with an instruction whose destination field, 0, is no register
\* it writes.
MCColumns ==
    [c \in Keys |->
       CASE c[2] = "INITIALIZER" -> [empty |-> FALSE, counted |-> {1, 2, 5}, dests |-> {1, 2, 5}]
         [] c[2] = "FINALIZER" -> [empty |-> FALSE, counted |-> {0, 1, 2}, dests |-> {1, 2}]
         [] c[3] = 0 -> [empty |-> FALSE, counted |-> {5}, dests |-> {5}]
         [] OTHER -> [empty |-> FALSE, counted |-> {1, 2}, dests |-> {1, 2, 6}]]

\* Empty initializer and finalizer, as in kernels without those sections.
MCEmptyEnds ==
    [c \in Keys |->
       LET regs == IF c[2] = "KERNEL_BODY" THEN {1, 2} ELSE {}
       IN  [empty |-> c[2] # "KERNEL_BODY", counted |-> regs, dests |-> regs]]
=============================================================================

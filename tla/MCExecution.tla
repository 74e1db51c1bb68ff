---------------------------- MODULE MCExecution ----------------------------
(***************************************************************************)
(* Small instances of Execution.                                           *)
(***************************************************************************)
EXTENDS Execution

Inst(op, src, dest) == [op |-> op, src |-> src, dest |-> dest, target |-> 0]
Branch(src, target) == [op |-> "branch", src |-> src, dest |-> 0, target |-> target]

\* A load, a loop around what is done with it, and a store at the end; and a
\* scratchpad load and a floating point operation, with an exit behind a branch.
MCPrograms ==
    << << Inst("load", <<1>>, 3), Inst("alu", <<2, 3>>, 4), Branch(<<4>>, 2),
          Inst("store", <<1, 4>>, 0) >>,
       << Inst("spad_load", <<2>>, 3), Inst("fpu", <<1, 3>>, 4), Branch(<<4>>, 2),
          Inst("exit", <<>>, 0) >> >>

MCCacheSize == [mshr_entries |-> 2, mshr_max_merge |-> 2, miss_queue_size |-> 1]
=============================================================================

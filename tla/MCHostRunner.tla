---------------------------- MODULE MCHostRunner ----------------------------
(***************************************************************************)
(* Workloads for the host runners: for the trace runner two commands of    *)
(* up to two launches, synchronous or not, with and without uthread        *)
(* requests; for the key-value runner gets and others, up to four, twice   *)
(* as many as it lets be under way.  Three have a back-invalidation, and   *)
(* two a store.                                                            *)
(***************************************************************************)
EXTENDS HostRunner

Launch(sync, uthreads, get) == [sync |-> sync, uthreads |-> uthreads, get |-> get]

Async == Launch(FALSE, 0, FALSE)
Sync == Launch(TRUE, 0, FALSE)
Spread == Launch(FALSE, 2, FALSE)
SyncOne == Launch(TRUE, 1, FALSE)
Get == Launch(TRUE, 0, TRUE)

Scenario(r, s, bi, st, c) ==
    [runner |-> r, serial |-> s, max_bi |-> bi, max_stores |-> st, commands |-> c]

MCScenarios ==
    {Scenario("simulation", FALSE, 1, 0, <<<<Async, Sync>>, <<Async>>>>),
     Scenario("simulation", TRUE, 0, 1, <<<<Async, Sync>>, <<Async>>>>),
     Scenario("simulation", TRUE, 1, 0, <<<<Spread>>, <<SyncOne>>>>),
     Scenario("kv", FALSE, 1, 1, <<<<Get>>, <<Async>>>>),
     Scenario("kv", TRUE, 0, 0, <<<<Get>>, <<Sync>>, <<Get>>, <<Async>>>>)}

\* Two launches of one command in the serial mode, and a back-invalidation.
MCSerialBi == {Scenario("simulation", TRUE, 1, 0, <<<<Async, Sync>>>>)}

MCUnits == 1..2
=============================================================================

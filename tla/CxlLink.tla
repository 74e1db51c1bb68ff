------------------------------ MODULE CxlLink ------------------------------
(***************************************************************************)
(* The CXL link between the host and one memory device (src/cxl_link.cc):  *)
(* a buffer at each end of each direction, and the interconnect between    *)
(* them.  Every shipped configuration has one host, one memory buffer and  *)
(* one link, so each array of buffers has one element here and the round   *)
(* robins have one choice.                                                 *)
(*                                                                         *)
(* A mem_fetch is a record: its kind, what it is of (a launch, as command  *)
(* and place in it, or a back-invalidation, as 0 and its number), whether  *)
(* it is a request, and a number that tells the uthread requests of a      *)
(* launch apart.  The kinds are                                            *)
(*   launch     the write to KERNEL_LAUNCH_ADDR                            *)
(*   uthread    a request to start one uthread (the sc_work mode)          *)
(*   get        the read with which the key-value runner fetches a result  *)
(*   bi         a load of an NDP unit that needs a back-invalidation       *)
(*   writeback  the same load, turned into a write by the host             *)
(***************************************************************************)
EXTENDS Naturals, Sequences, FiniteSets, SequencesExt

CONSTANT CxlLinkBufferSize   \* cxl_link_buffer_size

VARIABLES
    from_host,    \* m_from_host_buffers[0][0]
    to_host,      \* m_to_host_buffers[0]
    from_m2ndp,   \* m_from_m2ndp_buffers[0][0], the slot of the host
    to_m2ndp,     \* m_to_m2ndp_buffers[0]
    net           \* the packets inside the interconnect, with their output

linkVars == <<from_host, to_host, from_m2ndp, to_m2ndp, net>>

MemFetch(kind, of, request, n) ==
    [kind |-> kind, of |-> of, request |-> request, n |-> n]

set_reply(mf) == [mf EXCEPT !.request = FALSE]

LinkInit ==
    /\ from_host = <<>>
    /\ to_host = <<>>
    /\ from_m2ndp = <<>>
    /\ to_m2ndp = <<>>
    /\ net = {}

has_buffer_from_host(buffer) == Len(buffer) < CxlLinkBufferSize

\* For a packet of an NDP unit the room is asked for in the slot of the device
\* that owns the address, which is always empty with one device; a
\* back-invalidation is pushed to the slot of the host all the same.
has_buffer_from_memory_buffer(mf) ==
    mf.kind = "bi" \/ Len(from_m2ndp) < CxlLinkBufferSize

push_from_memory_buffer(mf) == from_m2ndp' = Append(from_m2ndp, mf)

pop_from_memory_buffer == to_m2ndp' = Tail(to_m2ndp)

\* HasBuffer of the interconnect may refuse; the packet then waits its turn.
handle_from_host ==
    /\ from_host # <<>>
    /\ net' = net \cup {[mf |-> Head(from_host), to |-> "m2ndp"]}
    /\ from_host' = Tail(from_host)
    /\ UNCHANGED <<to_host, from_m2ndp, to_m2ndp>>

\* Packets leave the interconnect in any order.
handle_to_host ==
    /\ Len(to_host) < CxlLinkBufferSize
    /\ \E p \in net :
          /\ p.to = "host"
          /\ to_host' = Append(to_host, p.mf)
          /\ net' = net \ {p}
    /\ UNCHANGED <<from_host, from_m2ndp, to_m2ndp>>

handle_from_m2ndp ==
    /\ from_m2ndp # <<>>
    /\ net' = net \cup {[mf |-> Head(from_m2ndp), to |-> "host"]}
    /\ from_m2ndp' = Tail(from_m2ndp)
    /\ UNCHANGED <<from_host, to_host, to_m2ndp>>

handle_to_m2ndp ==
    /\ Len(to_m2ndp) < CxlLinkBufferSize
    /\ \E p \in net :
          /\ p.to = "m2ndp"
          /\ to_m2ndp' = Append(to_m2ndp, p.mf)
          /\ net' = net \ {p}
    /\ UNCHANGED <<from_host, to_host, from_m2ndp>>

\* The packets on the link, its buffers included.
OnLink ==
    ToSet(from_host) \cup ToSet(to_host) \cup ToSet(from_m2ndp) \cup ToSet(to_m2ndp)
        \cup {p.mf : p \in net}
=============================================================================

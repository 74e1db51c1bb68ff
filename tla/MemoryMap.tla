----------------------------- MODULE MemoryMap -----------------------------
(***************************************************************************)
(* The functional memory (memory_map.{h,cc}): a hash map from packet       *)
(* addresses to the vector that was stored there, one for the device       *)
(* memory and one, bounded to the launch's scratchpad, per unit.  A packet *)
(* keeps the element type it was stored with, and a load hands back that   *)
(* very vector.                                                            *)
(***************************************************************************)
EXTENDS RegisterFile

CONSTANTS
    SCRATCHPAD_BASE, SCRATCHPAD_MAX_SIZE,
    MemorySize       \* stands for UINT64_MAX, the size of the device memory

ASSUME ScratchpadOK == /\ SCRATCHPAD_BASE % PACKET_SIZE = 0
                       /\ SCRATCHPAD_BASE + SCRATCHPAD_MAX_SIZE <= MemorySize

CheckScratchpad(addr) ==
    addr >= SCRATCHPAD_BASE /\ addr < SCRATCHPAD_BASE + SCRATCHPAD_MAX_SIZE
FormatAddr(addr) == addr - (addr % PACKET_SIZE)

\* A map: its bounds and the packets stored in it.  The synthetic range, made-up
\* contents that an option can put in place of a file, is left out.
NewMap(base, size) == [m_base |-> base, m_size |-> size, m_data_map |-> EmptyBinding]

CheckAddr(m, addr) == addr \in DOMAIN m.m_data_map
InRange(m, addr) == addr >= m.m_base /\ addr < m.m_base + m.m_size

\* Load: a packet that was never stored, or was stored from two registers, throws.
MapLoad(m, addr) ==
    CASE ~InRange(m, addr) -> Fault("assert")
      [] ~CheckAddr(m, addr) -> Fault("throw")
      [] m.m_data_map[addr].m_double_reg -> Fault("throw")
      [] OTHER -> m.m_data_map[addr]

\* Store: a two-register vector is accepted, and rejected by the next access.
StoreFault(m, addr, v) ==
    CASE Faulty(v) -> v.fault
      [] ~InRange(m, addr) -> "assert"
      [] CheckAddr(m, addr) /\ m.m_data_map[addr].m_double_reg -> "throw"
      [] OTHER -> "none"
MapStore(m, addr, v) == [m EXCEPT !.m_data_map = Bind(@, addr, v)]

-----------------------------------------------------------------------------
\* A memory file is a sequence of lines [addr, type, values]; type is the one
\* of the META header above the line.  An int16 line makes a packet of zeroes
\* without a type: its values are never read.
LineElements(type) == PACKET_SIZE \div SizeOf(type)
LineVector(g, line) ==
    LET t == line.type
        fresh == SewVector(g, 8 * SizeOf(t), M1)
    IN IF t = "INT16" THEN fresh
       ELSE Fill(fresh, t, 0 .. LineElements(t) - 1, LAMBDA i : line.values[i], {})
FileAccepted(file) ==
    /\ \A k \in DOMAIN file : file[k].addr # 0 /\ file[k].addr % PACKET_SIZE = 0
    /\ \A j, k \in DOMAIN file : file[j].addr = file[k].addr => j = k
ReadMap(g, file) ==
    FoldLeft(LAMBDA m, line : MapStore(m, line.addr, LineVector(g, line)),
             NewMap(0, MemorySize), file)

\* A float is accepted within one percent of the target.
Close(val, other) ==
    LET d == IF other < val THEN val - other ELSE other - val IN
    d = 0 \/ (val > 0 /\ 100 * d <= val) \/ (val < 0 /\ 100 * d < -val)

\* Mutant: the packets are compared for half their length.
MatchPacketHalf(val, other) ==
    LET t == val.m_type IN
    t = other.m_type /\ \A i \in 0 .. (LineElements(t) \div 2) - 1 :
                            GetData(other, t, i) = GetData(val, t, i)

\* What Match asks of one packet of the target: the same type, then the same
\* elements.  A long of -1 matches anything, INT16 and CHAR8 packets are not
\* compared at all, and a mask never matches.
MatchPacket(val, other) ==
    LET t == val.m_type
        same(i) ==
            LET a == GetData(val, t, i)
                b == GetData(other, t, i)
            IN CASE t \in Floats -> Close(a, b)
                 [] t = "INT64" -> a = -1 \/ a = b
                 [] OTHER -> a = b
    IN CASE t \in {"FLOAT16", "FLOAT32", "INT32", "INT64", "UINT8", "BOOL"} ->
                t = other.m_type /\ \A i \in 0 .. LineElements(t) - 1 : same(i)
         [] t = "VMASK" -> FALSE
         [] OTHER -> TRUE

\* Match, called on the target: every packet of the target is in the other map
\* and matches.
Match(target, other) ==
    \A a \in DOMAIN target.m_data_map :
        CheckAddr(other, a) /\ MatchPacket(target.m_data_map[a], other.m_data_map[a])

-----------------------------------------------------------------------------
\* How instructions reach the maps: the scratchpad by its address range, the
\* packet by its aligned address.
GetMemoryMap(c, addr) == IF CheckScratchpad(addr) THEN c.scratchpad_map ELSE c.memory_map
MemoryMapLoad(c, addr) == MapLoad(GetMemoryMap(c, FormatAddr(addr)), FormatAddr(addr))
CheckMemoryMap(c, addr) == CheckAddr(GetMemoryMap(c, FormatAddr(addr)), FormatAddr(addr))
MemoryMapStore(c, addr, v) ==
    LET a == FormatAddr(addr)
        fault == StoreFault(GetMemoryMap(c, a), a, v)
    IN CASE fault # "none" -> WithFault(c, fault)
         [] CheckScratchpad(a) -> [c EXCEPT !.scratchpad_map = MapStore(@, a, v)]
         [] OTHER -> [c EXCEPT !.memory_map = MapStore(@, a, v)]
=============================================================================

---------------------------- MODULE RegisterFile ----------------------------
(***************************************************************************)
(* The register unit of a sub-core (register_unit.cc): three files of      *)
(* physical registers with their free lists, one binding of logical to     *)
(* physical registers per uthread, and m_double_vreg, which pairs the two  *)
(* physical registers of a vector group.  Convert renames a whole section  *)
(* when a uthread starts; FreeRegs returns what the uthread held.          *)
(*                                                                         *)
(* A register unit is a record R.  What throws in the code sets R.fault.   *)
(***************************************************************************)
EXTENDS VectorData, NdpOpcode, SequencesExt

CONSTANTS NumXregs, NumFregs, NumVregs

ASSUME RegsOK == NumXregs \in Nat /\ NumFregs \in Nat /\ NumVregs \in Nat

PXs == REG_PX_BASE .. REG_PX_BASE + NumXregs - 1
PFs == REG_PF_BASE .. REG_PF_BASE + NumFregs - 1
PVs == REG_PV_BASE .. REG_PV_BASE + NumVregs - 1
EmptyBinding == [r \in {} |-> 0]

\* The constructor.
InitRegisters(keys) ==
    [m_free_xregs |-> [i \in 1 .. NumXregs |-> REG_PX_BASE + i - 1],
     m_free_fregs |-> [i \in 1 .. NumFregs |-> REG_PF_BASE + i - 1],
     m_free_vregs |-> [i \in 1 .. NumVregs |-> REG_PV_BASE + i - 1],
     m_xreg_table |-> [p \in PXs |-> 0],
     m_freg_table |-> [p \in PFs |-> 0],
     m_vreg_table |-> [p \in PVs |-> DefaultVector("MAX_DataType")],
     m_xreg_mapping |-> [k \in keys |-> EmptyBinding],
     m_freg_mapping |-> [k \in keys |-> EmptyBinding],
     m_vreg_mapping |-> [k \in keys |-> EmptyBinding],
     m_double_vreg |-> EmptyBinding,
     fault |-> "none"]

Bind(f, a, b) == [r \in DOMAIN f \cup {a} |-> IF r = a THEN b ELSE f[r]]
CheckSpecialReg(reg) == reg > SPCIAL_REG_START
CheckDoubleReg(R, reg) == reg >= REG_PV_BASE /\ reg \in DOMAIN R.m_double_vreg

\* LookUpX, LookUpF, LookUpV: the physical register bound to reg, or reg itself
\* when it is a special register.  NotFound is the throw.
NotFound == -2
LookUp(binding, reg) ==
    CASE reg \in DOMAIN binding -> binding[reg]
      [] CheckSpecialReg(reg) -> reg
      [] OTHER -> NotFound

\* DestRenameX, DestRenameF: the register dest is bound to, taking a free one
\* the first time.
DestRenameX(R, key, dest) ==
    IF dest \in DOMAIN R.m_xreg_mapping[key] THEN R
    ELSE IF R.m_free_xregs = <<>> THEN [R EXCEPT !.fault = "overrun"]
    ELSE [R EXCEPT !.m_xreg_mapping[key] = Bind(@, dest, Head(R.m_free_xregs)),
                   !.m_free_xregs = Tail(@)]
DestRenameF(R, key, dest) ==
    IF dest \in DOMAIN R.m_freg_mapping[key] THEN R
    ELSE IF R.m_free_fregs = <<>> THEN [R EXCEPT !.fault = "overrun"]
    ELSE [R EXCEPT !.m_freg_mapping[key] = Bind(@, dest, Head(R.m_free_fregs)),
                   !.m_free_fregs = Tail(@)]

\* DestRenameV: a second register is taken when the source is a group and the
\* operation does not narrow, when it widens a single register, or under m2.
\* src0 is the first source as the caller passes it, renamed or not.
TakesTwo(R, op, src0) ==
    \/ op \notin narrowing_ops /\ CheckDoubleReg(R, src0)
    \/ op \in widening_ops /\ ~CheckDoubleReg(R, src0)
\* Mutant: the partner is taken from the free list but not remembered.
DestRenameForgetPartner(R, key, dest, two) ==
    LET first == Head(R.m_free_vregs) IN
    IF dest \in DOMAIN R.m_vreg_mapping[key] THEN R
    ELSE IF Len(R.m_free_vregs) < (IF two THEN 2 ELSE 1) THEN [R EXCEPT !.fault = "overrun"]
    ELSE [R EXCEPT !.m_vreg_mapping[key] = Bind(@, dest, first),
                   !.m_free_vregs = SubSeq(@, IF two THEN 3 ELSE 2, Len(@))]

\* The binding of a vector register, and of its partner when there is one.
DestRenameVreg(R, key, dest, two) ==
    LET first == Head(R.m_free_vregs) IN
    IF dest \in DOMAIN R.m_vreg_mapping[key] THEN R
    ELSE IF Len(R.m_free_vregs) < (IF two THEN 2 ELSE 1) THEN [R EXCEPT !.fault = "overrun"]
    ELSE [R EXCEPT !.m_vreg_mapping[key] = Bind(@, dest, first),
                   !.m_double_vreg = IF two THEN Bind(@, first, R.m_free_vregs[2]) ELSE @,
                   !.m_free_vregs = SubSeq(@, IF two THEN 3 ELSE 2, Len(@))]
DestRenameV(R, key, op, dest, src0, vlmul) ==
    DestRenameVreg(R, key, dest, TakesTwo(R, op, src0) \/ vlmul = IMM_M2)
DestRenameSegV(R, key, op, dest, src0) ==
    DestRenameVreg(R, key, dest, TakesTwo(R, op, src0))

-----------------------------------------------------------------------------
\* How Convert treats an instruction's operands: the sources looked up in each
\* file, the vector source that may be left out, what happens to dest, whether
\* dest is renamed before the sources are looked up, whether DestRenameV sees
\* the renamed sources, and whether the source left out is known by being
\* unbound (bound) or by being -1.
Roles(x, f, v, opt, dest) ==
    [x |-> x, f |-> f, v |-> v, opt |-> opt, dest |-> dest, first |-> FALSE, seen |-> TRUE,
     bound |-> FALSE]

BranchRoles(inst) ==
    Roles(CASE inst.opcode = "J" -> {}
            [] inst.opcode \in {"BEQ", "BGT", "BLT", "BNE", "BLE", "BGE"} -> {0, 1}
            [] OTHER -> {0}, {}, {}, {}, "keep")

SegRoles(inst) ==
    IF inst.operand_type = "V" THEN Roles({0}, {}, {1}, {}, "newSeg")
    ELSE Roles({}, {}, {}, {}, "keep")

\* operand_type V: unit, indexed and segmented accesses, atomics, and the
\* operations on one vector.
VRoles(inst) ==
    LET op == inst.opcode IN
    CASE op = "VFSQRT" -> [Roles({}, {}, {0, 1}, {}, "newV") EXCEPT !.first = TRUE, !.seen = FALSE]
      [] op \in {"VID", "VFEXP"} -> [Roles({}, {}, {0}, {}, "newV") EXCEPT !.seen = FALSE]
      [] op \in UnitStores -> Roles({0}, {}, {}, {}, "lookV")
      [] op \in UnitLoads -> [Roles({0}, {}, {}, {}, "newV") EXCEPT !.seen = FALSE]
      [] op \in {"VLUXEI32", "VLUXEI64"} ->
            [Roles({0}, {}, {2}, {3}, "newV") EXCEPT !.seen = FALSE, !.first = TRUE]
      [] op \in {"VSUXEI32", "VSUXEI64"} -> Roles({0}, {}, {2, 3}, {}, "lookV")
      [] op \in amo_ops -> Roles({0}, {}, {1, 2}, {3}, "amo")
      [] OTHER -> Roles({0}, {}, {1, 2}, {}, "keep")

VectorRoles(inst) ==
    LET op == inst.opcode
        ty == inst.operand_type IN
    CASE (ty = "M" /\ op = "VMSET") -> [Roles({}, {}, {}, {}, "newV") EXCEPT !.seen = FALSE]
      [] (ty = "M" /\ op = "VFIRST") \/ ty = "X_S" ->
            [Roles({}, {}, {0}, {}, "newX") EXCEPT !.first = TRUE]
      [] ty = "V" -> VRoles(inst)
      [] ty \in {"WV", "VV", "VS", "VM", "MM"} ->
            [Roles({}, {}, {0, 1}, {2}, "newV") EXCEPT !.seen = FALSE, !.bound = TRUE]
      [] ty \in {"VI", "V_V", "XU_F_V", "X_F_V", "F_XU_V", "F_X_V", "F_F_V", "F_F_W"} ->
            Roles({}, {}, {0}, {}, "newV")
      [] ty = "V_I" -> Roles({}, {}, {}, {1}, "newV")
      [] ty \in {"V_X", "S_X"} -> Roles({0}, {}, {}, {1}, "newV")
      [] ty \in {"VX", "WX"} -> Roles({1}, {}, {0}, {}, "newV")
      [] ty = "VF" /\ op = "VFMSUB" -> Roles({}, {0}, {1}, {}, "newV")
      [] ty = "VF" /\ op # "VFMSUB" -> Roles({}, {1}, {0}, {}, "newV")
      [] ty \in {"S_F", "V_F"} -> Roles({}, {0}, {}, {}, "newV")
      [] ty = "F_S" -> Roles({}, {}, {0}, {}, "newF")
      [] OTHER -> Roles({}, {}, {}, {}, "keep")

ScalarRoles(inst) ==
    LET op == inst.opcode IN
    CASE op \in {"ADD", "SUB", "MUL", "DIV", "REM", "AND", "SLL", "SRL", "OR"} ->
            Roles({0, 1}, {}, {}, {}, "newX")
      [] op \in {"ADDI", "MULI", "ANDI", "SLLI", "SRLI", "ORI", "LBU", "LB", "LW", "LD"} ->
            Roles({0}, {}, {}, {}, "newX")
      [] op = "LI" -> Roles({}, {}, {}, {}, "newX")
      [] op \in {"SB", "SW", "SD"} -> Roles({0}, {}, {}, {}, "lookX")
      [] op \in {"AMOADD", "AMOMAX"} -> [Roles({1, 2}, {}, {}, {}, "newX") EXCEPT !.first = TRUE]
      [] op \in {"FAMOADD", "FAMOADDH", "FAMOMAX"} ->
            [Roles({2}, {1}, {}, {}, "newF") EXCEPT !.first = TRUE]
      [] op = "CSRW" -> Roles({0}, {}, {}, {}, "keep")
      [] op \in {"FADD", "FSUB", "FDIV", "FMUL"} -> Roles({}, {0, 1}, {}, {}, "newF")
      [] op = "FLW" \/ (op = "FMV" /\ inst.operand_type = "W_X") -> Roles({0}, {}, {}, {}, "newF")
      [] op = "FSW" -> Roles({0}, {}, {}, {}, "lookF")
      [] op = "FMV" /\ inst.operand_type = "X_W" -> Roles({}, {0}, {}, {}, "newX")
      [] op = "FEXP" -> Roles({}, {0}, {}, {}, "newF")
      [] OTHER -> Roles({}, {}, {}, {}, "keep")

RolesOf(inst) ==
    CASE inst.opcode \in branch_ops -> BranchRoles(inst)
      [] inst.opcode \in seg_ops -> SegRoles(inst)
      [] inst.opcode \in vector_ops -> VectorRoles(inst)
      [] OTHER -> ScalarRoles(inst)

\* The binding of dest.
ConvertDest(R, key, role, inst, src0, vlmul) ==
    CASE role.dest = "newX" -> DestRenameX(R, key, inst.dest)
      [] role.dest = "newF" -> DestRenameF(R, key, inst.dest)
      [] role.dest = "newV" -> DestRenameV(R, key, inst.opcode, inst.dest, src0, vlmul)
      [] role.dest = "newSeg" ->
            FoldLeft(LAMBDA r, d : DestRenameSegV(r, key, inst.opcode, d, src0),
                     DestRenameV(R, key, inst.opcode, inst.dest, src0, vlmul),
                     SubSeq(inst.segDest, 1, inst.segCnt))
      [] OTHER -> R

\* The sources of inst through the bindings of R.
ConvertSrc(R, key, role, inst) ==
    [i \in 0 .. 4 |->
        LET reg == inst.src[i]
            vbind == R.m_vreg_mapping[key]
            present == IF role.bound THEN reg \in DOMAIN vbind ELSE reg # -1 IN
        CASE i \in role.x -> LookUp(R.m_xreg_mapping[key], reg)
          [] i \in role.f -> LookUp(R.m_freg_mapping[key], reg)
          [] i \in role.v \/ (i \in role.opt /\ present) -> LookUp(vbind, reg)
          [] OTHER -> reg]

\* dest through the bindings of R.
RenamedDest(R, key, role, inst) ==
    CASE role.dest \in {"newX", "lookX"} -> LookUp(R.m_xreg_mapping[key], inst.dest)
      [] role.dest \in {"newF", "lookF"} -> LookUp(R.m_freg_mapping[key], inst.dest)
      [] role.dest \in {"newV", "newSeg", "lookV"} -> LookUp(R.m_vreg_mapping[key], inst.dest)
      [] role.dest = "amo" -> IF inst.dest >= REG_V_BASE /\ inst.dest < REG_PX_BASE
                              THEN LookUp(R.m_vreg_mapping[key], inst.dest) ELSE -1
      [] OTHER -> inst.dest

\* One instruction of Convert.  c carries the register unit, the instructions
\* renamed so far and cvt_vlmul_status.
ConvertInst(c, key, inst) ==
    LET role == RolesOf(inst)
        vlmul == IF inst.opcode = "VSETVLI" THEN inst.src[2] ELSE c.vlmul
        early == ConvertSrc(c.R, key, role, inst)
        src0 == IF role.seen THEN early[0] ELSE inst.src[0]
        R1 == ConvertDest(c.R, key, role, inst, src0, vlmul)
        src == IF role.first THEN ConvertSrc(R1, key, role, inst) ELSE early
        dest == RenamedDest(R1, key, role, inst)
        renamed == [inst EXCEPT !.src = src, !.dest = dest,
                                !.segDest = [i \in DOMAIN @ |->
                                    LookUp(R1.m_vreg_mapping[key], @[i])]]
        lost == NotFound = dest \/ \E i \in 0 .. 4 : src[i] = NotFound
    IN IF c.R.fault # "none" THEN c
       ELSE IF R1.fault = "none" /\ lost THEN [c EXCEPT !.R.fault = "throw"]
       ELSE [R |-> R1, insts |-> Append(c.insts, renamed), vlmul |-> vlmul]

\* Convert: x1 and x2 are given the request's address and offset, then every
\* instruction of the section is renamed.
Convert(R, key, insts, req) ==
    LET seeded == DestRenameX(DestRenameX(R, key, X(1)), key, X(2))
        m == seeded.m_xreg_mapping[key]
    IN IF seeded.fault # "none" THEN [R |-> seeded, insts |-> <<>>, vlmul |-> IMM_M1]
       ELSE FoldLeft(LAMBDA c, inst : ConvertInst(c, key, inst),
                     [R |-> [seeded EXCEPT !.m_xreg_table[m[X(1)]] = req.addr,
                                           !.m_xreg_table[m[X(2)]] = req.offset],
                      insts |-> <<>>, vlmul |-> IMM_M1], insts)

\* The physical registers of a binding.  The traversal order of the hash map is
\* taken to be that of the logical registers.
Sorted(S) == [i \in 1 .. Cardinality(S) |-> CHOOSE r \in S : Cardinality({q \in S : q < r}) = i - 1]
InOrder(mapping) == [i \in DOMAIN Sorted(DOMAIN mapping) |-> mapping[Sorted(DOMAIN mapping)[i]]]

\* Mutant: the partner of a double register is not returned.
FreeRegsKeepPartner(R, key) ==
    [R EXCEPT !.m_free_xregs = @ \o InOrder(R.m_xreg_mapping[key]),
              !.m_free_fregs = @ \o InOrder(R.m_freg_mapping[key]),
              !.m_free_vregs = @ \o InOrder(R.m_vreg_mapping[key]),
              !.m_double_vreg = Restrict(@, DOMAIN @ \ Range(R.m_vreg_mapping[key])),
              !.m_xreg_mapping[key] = EmptyBinding,
              !.m_freg_mapping[key] = EmptyBinding,
              !.m_vreg_mapping[key] = EmptyBinding]

\* FreeRegs: everything bound for key goes back, a group with its partner.
FreeRegs(R, key) ==
    LET vs == InOrder(R.m_vreg_mapping[key])
        group(p) == IF CheckDoubleReg(R, p) THEN <<p, R.m_double_vreg[p]>> ELSE <<p>>
    IN [R EXCEPT !.m_free_xregs = @ \o InOrder(R.m_xreg_mapping[key]),
                 !.m_free_fregs = @ \o InOrder(R.m_freg_mapping[key]),
                 !.m_free_vregs = @ \o FlattenSeq([i \in DOMAIN vs |-> group(vs[i])]),
                 !.m_double_vreg = Restrict(@, DOMAIN @ \ Range(vs)),
                 !.m_xreg_mapping[key] = EmptyBinding,
                 !.m_freg_mapping[key] = EmptyBinding,
                 !.m_vreg_mapping[key] = EmptyBinding]

-----------------------------------------------------------------------------
\* Execution context c: the register unit R, the request req, ndp_id, csr, the
\* memory maps, the value g of an uninitialised m_type, and the fault so far.

\* ReadXreg, ReadFreg.  Programs read no other special register.
ReadXreg(c, reg) == CASE reg = REG_NDP_ID -> c.ndp_id
                      [] reg = REG_ADDR -> c.req.addr
                      [] reg = REG_REQUEST_OFFSET -> c.req.offset
                      [] reg = REG_X0 -> 0
                      [] reg \in PXs -> c.R.m_xreg_table[reg]
ReadFreg(c, reg) == c.R.m_freg_table[reg]

\* ReadVreg: a group is read with its partner unless the first half already
\* has as many elements as vtype asks for.
ReadVreg(c, reg) ==
    LET v == c.R.m_vreg_table[reg] IN
    IF reg \notin PVs THEN DefaultVector(c.g)
    ELSE IF CheckDoubleReg(c.R, reg) /\ v.m_vlen * c.csr.vsew # PACKET_SIZE * c.csr.vlmul
    THEN AppendRegister(v, c.R.m_vreg_table[c.R.m_double_vreg[reg]])
    ELSE v

WithFault(c, kind) == IF c.fault = "none" THEN [c EXCEPT !.fault = kind] ELSE c
WriteXreg(c, reg, value) ==
    IF reg \in PXs THEN [c EXCEPT !.R.m_xreg_table[reg] = Signed(value, DOUBLE_SIZE)]
    ELSE WithFault(c, "throw")
WriteFreg(c, reg, value) ==
    IF reg \in PFs THEN [c EXCEPT !.R.m_freg_table[reg] = value] ELSE WithFault(c, "throw")

\* WriteVreg: the size check, then one register or, for a group, two.
GetPrecision(v) == IF v.m_type \in {"UINT8", "BOOL", "VMASK", "MAX_DataType"} THEN 1
                   ELSE SizeOf(v.m_type)
WriteVreg(c, reg, v) ==
    LET halves == Split(v) IN
    CASE Faulty(v) -> WithFault(c, v.fault)
      [] v.m_type # "VMASK" /\ (v.m_vlen * GetPrecision(v)) \div WORD_SIZE > Words(v)
            -> WithFault(c, "throw")
      [] reg \notin PVs -> WithFault(c, "throw")
      [] c.csr.vlmul # M2 /\ ~v.m_double_reg -> [c EXCEPT !.R.m_vreg_table[reg] = v]
      [] Faulty(halves[1]) -> WithFault(c, halves[1].fault)
      [] ~CheckDoubleReg(c.R, reg) -> WithFault(c, "throw")
      [] OTHER -> [c EXCEPT !.R.m_vreg_table =
                      [@ EXCEPT ![reg] = halves[1], ![c.R.m_double_vreg[reg]] = halves[2]]]
=============================================================================

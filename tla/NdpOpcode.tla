------------------------------ MODULE NdpOpcode ------------------------------
(***************************************************************************)
(* The instruction set: the opcode classes of ndp_instruction.cc, the      *)
(* operand types of ndp_instruction.h and the numbers that stand for       *)
(* registers (common_defs.h).  An instruction is                           *)
(*   [opcode, operand_type, src : 0..4, dest, segDest, segCnt]             *)
(* where src and dest hold register numbers or immediates, as the parser   *)
(* left them.                                                              *)
(***************************************************************************)
EXTENDS Integers

float_ops == {"FADD", "FSUB", "FDIV", "FMUL", "FMV", "FLW", "FSW", "VFADD", "VFSUB", "VFRSUB",
              "VFMUL", "VFWMUL", "VFDIV", "VFMACC", "VFWMACC", "VFNCVT", "VFCVT", "VFWCVT",
              "VFMV", "VFREDOMAX", "VFREDOSUM", "FEXP", "VFEXP", "VFWSUB", "VFMSUB", "VFSQRT"}
vector_amo_ops == {"VAMOADDEI8", "VAMOADDEI16", "VAMOADDEI32", "VAMOADDEI64", "VAMOANDEI16",
                   "VAMOANDEI32", "VAMOOREI16", "VAMOOREI32", "VAMOMAXEI16", "VAMOMAXEI32",
                   "VAMOMINEI16", "VAMOMINEI32"}
narrowing_ops == {"VFNCVT"}
widening_ops == {"VFWMACC", "VFWCVT", "VFWSUB", "VFWMUL", "VWREDOSUM", "VWREDOMAX"}
vmask_ops == {"VMSEQ", "VMSNE", "VMSLT", "VMSGT", "VMSLE", "VMSGE"}
amo_ops == vector_amo_ops \cup {"AMOADD", "AMOMAX", "FAMOADD", "FAMOMAX", "FAMOADDH"}
csr_ops == {"VSETVLI"}
seg_ops == {"VLSSEG"}
branch_ops == {"J", "BEQ", "BEQZ", "BGT", "BLEZ", "BGTZ", "BLT", "BLE", "BLTZ", "BGE", "BGEZ",
               "BNE", "BNEZ"}

\* Neither VSETVLI nor VSRA is a member.
vector_ops ==
    {"VADD", "VSUB", "VSRL", "VRSUB", "VMUL", "VDIV", "VMV", "VFADD", "VFSUB", "VFRSUB", "VFMUL",
     "VFWMUL", "VFDIV", "VFRDIV", "VFMACC", "VFWMACC", "VFNCVT", "VFCVT", "VFWCVT", "VFMV",
     "VFREDOMAX", "VFREDOSUM", "VWREDOSUM", "VWREDOMAX", "VMIN", "VMAX", "VLE8", "VSE8",
     "VSE16", "VLE16", "VLE32", "VSE32", "VLE64", "VSE64", "VAND", "VOR", "VFIRST", "TEST",
     "VSLIDE1DOWN", "VSLIDEDOWN", "VSLIDE1UP", "VSLIDEUP", "VREDSUM", "VREDMAX", "VREDMIN",
     "VREDAND", "VREDOR", "VLUXEI32", "VSUXEI32", "VLUXEI64", "VSUXEI64", "VLSSEG", "VMSET",
     "VMAND", "VMOR", "VCOMPRESS", "VNADD", "VSLL", "VID", "VFEXP", "VFSGNJ", "VFSGNJN",
     "VFSGNJX", "VFWSUB", "VFMSUB", "VFSQRT"} \cup vector_amo_ops \cup vmask_ops

UnitLoads == {"VLE8", "VLE16", "VLE32", "VLE64"}
UnitStores == {"VSE8", "VSE16", "VSE32", "VSE64"}

\* GetArithOp: what a vector atomic does with memory and operand.
GetArithOp(op) ==
    CASE op \in {"VAMOADDEI8", "VAMOADDEI16", "VAMOADDEI32", "VAMOADDEI64"} -> "ADD"
      [] op \in {"VAMOANDEI16", "VAMOANDEI32"} -> "AND"
      [] op \in {"VAMOOREI16", "VAMOOREI32"} -> "OR"
      [] op \in {"VAMOMAXEI16", "VAMOMAXEI32"} -> "MAX"
      [] op \in {"VAMOMINEI16", "VAMOMINEI32"} -> "MIN"

-----------------------------------------------------------------------------
\* Register numbers.
REG_X_BASE == 100000
REG_F_BASE == 150000
REG_V_BASE == 200000
REG_PX_BASE == 300000
REG_PF_BASE == 350000
REG_PV_BASE == 400000
SPCIAL_REG_START == 1500000
REG_NDP_ID == SPCIAL_REG_START + 1
REG_REQUEST_OFFSET == SPCIAL_REG_START + 2
REG_REQUEST_DATA == SPCIAL_REG_START + 3
REG_ADDR == SPCIAL_REG_START + 4
REG_VSTART == SPCIAL_REG_START + 5
REG_X0 == SPCIAL_REG_START + 6
SPECIAL_IMMEDIATE_START == 1600000
IMM_E(sew) == SPECIAL_IMMEDIATE_START + (CASE sew = 8 -> 1 [] sew = 16 -> 2
                                           [] sew = 32 -> 3 [] sew = 64 -> 4)
IMM_M(eighths) == SPECIAL_IMMEDIATE_START + (CASE eighths = 1 -> 5 [] eighths = 2 -> 6
                                               [] eighths = 4 -> 7 [] eighths = 8 -> 8
                                               [] eighths = 16 -> 9 [] eighths = 32 -> 10
                                               [] eighths = 64 -> 11)
IMM_M1 == IMM_M(8)
IMM_M2 == IMM_M(16)

X(n) == REG_X_BASE + n
F(n) == REG_F_BASE + n
V(n) == REG_V_BASE + n
=============================================================================

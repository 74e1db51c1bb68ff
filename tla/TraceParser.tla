---------------------------- MODULE TraceParser ----------------------------
(***************************************************************************)
(* The kernel traces (m2ndp_parser.cc).  A trace is a sequence of lines:   *)
(* the three section headers, labels and instructions.                     *)
(* An instruction line is an opcode, the suffix that gives its operand     *)
(* type, and the operands between the commas.  An operand is a tuple:      *)
(*   <<"x", n>>  <<"f", n>>  <<"v", n>>   a register                       *)
(*   <<"e", 8|16|32|64>>  <<"m", eighths>>  an element width, a group size *)
(*   <<"OFFSET">>  <<"ADDR">>  <<"NDPID">>  <<"vstart">>                   *)
(*   <<"imm", k>>   a number        <<"mem", k, operand>>   k(operand)     *)
(*   <<"LOOP", k>>  <<"SKIP", k>>   a label                                *)
(* The text is searched for commas and parentheses; what such a search     *)
(* finds when the character is missing is part of the model.               *)
(***************************************************************************)
EXTENDS NdpInstruction

Opcodes ==
    vector_ops \cup amo_ops \cup csr_ops \cup branch_ops \cup
    {"EXIT", "ADD", "ADDI", "SUB", "MUL", "MULI", "SLL", "SLLI", "SRL", "SRLI", "DIV", "REM",
     "AND", "ANDI", "OR", "ORI", "LI", "LW", "LD", "LB", "LBU", "SB", "SW", "SD", "CSRW",
     "CSRWI", "FADD", "FSUB", "FDIV", "FMUL", "FMV", "FLW", "FSW", "FEXP", "VSRA"}

\* A suffix the table lacks maps to NONE, the value of a missing entry; the
\* narrowing conversions from and to integers are among them.
OperandTypes == {"V", "WV", "VV", "VI", "VX", "VF", "VS", "V_V", "V_X", "V_I", "V_F", "F_S",
                 "S_F", "XU_F_V", "X_F_V", "F_XU_V", "F_X_V", "F_F_V", "F_F_W", "VM", "M", "MM",
                 "X_S", "S_X", "X_W", "W_X", "WX", "D", "W"}
OperandType(suffix) == IF suffix \in OperandTypes THEN suffix ELSE "NONE"

\* GetRegValue: what is not a register or a named constant is 0, with a warning.
GetRegValue(tok) ==
    CASE tok[1] = "x" -> IF tok[2] = 0 THEN REG_X0 ELSE X(tok[2])
      [] tok[1] = "f" -> F(tok[2])
      [] tok[1] = "v" -> V(tok[2])
      [] tok[1] = "e" -> IMM_E(tok[2])
      [] tok[1] = "m" -> IMM_M(tok[2])
      [] tok[1] = "OFFSET" -> REG_REQUEST_OFFSET
      [] tok[1] = "ADDR" -> REG_ADDR
      [] tok[1] = "NDPID" -> REG_NDP_ID
      [] tok[1] = "vstart" -> REG_VSTART
      [] OTHER -> 0

\* std::stoll; it throws on anything but a number.
Unparsed == 2000000
Number(tok) == IF tok[1] = "imm" THEN tok[2] ELSE Unparsed

\* k(base); without parentheses the whole operand is the base and the offset 0.
OffsetOf(tok) == IF tok[1] = "mem" THEN tok[2] ELSE 0
BaseOf(tok) == GetRegValue(IF tok[1] = "mem" THEN tok[3] ELSE tok)

\* The label number in loop_map; anything else throws.
SKIP_LABEL == 100
LabelOf(tok) == CASE tok[1] = "LOOP" -> tok[2]
                  [] tok[1] = "SKIP" -> tok[2] + SKIP_LABEL
                  [] OTHER -> Unparsed

\* The operands after the first comma, the whole list when there is none; the
\* k-th of them, and the last when there are fewer.
Sources(args) == IF Len(args) = 1 THEN args ELSE Tail(args)
Operand(args, k) == LET s == Sources(args) IN s[IF k <= Len(s) THEN k ELSE Len(s)]
Reg(args, k) == GetRegValue(Operand(args, k))
Count(args) == Len(Sources(args))

Missing == -1
SrcFields(list) == [i \in 0 .. 4 |-> IF i < Len(list) THEN list[i + 1] ELSE Missing]

-----------------------------------------------------------------------------
\* The operand formats.  VOR takes a third register, the other mask forms do
\* not: a mask after the second source is dropped.
LogicFields(op, ty, args) ==
    CASE op = "VAND" /\ ty = "VI" -> <<Reg(args, 1), Number(Operand(args, 2))>>
      [] op = "VOR" /\ ty = "VV" -> <<Reg(args, 1), Reg(args, 2), Reg(args, 3)>>
      [] (op = "VAND" /\ ty = "VV") \/ (op \in {"VMAND", "VMOR"} /\ ty = "MM") ->
            <<Reg(args, 1), Reg(args, 2)>>
      [] OTHER -> <<>>
CompareFields(ty, args) ==
    CASE ty = "VI" -> <<Reg(args, 1), Number(Operand(args, 2))>>
      [] ty \in {"VX", "VV", "VF"} -> <<Reg(args, 1), Reg(args, 2)>>
      [] OTHER -> <<>>

\* Indexed loads and stores; a store's index register is cut to two characters,
\* so that v12 is read as v1.
IndexRegister(tok) ==
    IF tok[1] \in {"x", "f", "v"} /\ tok[2] >= 10 THEN <<tok[1], tok[2] \div 10>> ELSE tok
GatherFields(args) ==
    <<BaseOf(Operand(args, 1)), OffsetOf(Operand(args, 1)), Reg(args, 2),
      IF Count(args) > 2 THEN Reg(args, 3) ELSE Missing>>
ScatterFields(args) ==
    <<BaseOf(Operand(args, 1)), OffsetOf(Operand(args, 1)),
      GetRegValue(IndexRegister(Operand(args, 2))), Reg(args, 3)>>

\* Atomics: a vector atomic takes a mask only when something follows it.
AmoFields(op, args) ==
    IF op \notin vector_amo_ops
    THEN <<GetRegValue(args[1]), Reg(args, 1), BaseOf(Operand(args, 2))>>
    ELSE <<BaseOf(Operand(args, 1)), Reg(args, 2), Reg(args, 3),
           IF Count(args) > 4 THEN Reg(args, 4) ELSE Missing>>

\* vsetvli: four operands repeat the third, five leave the group size at m1.
VsetvliFields(args) ==
    LET r(k) == Reg(args, k) IN
    CASE Count(args) = 2 -> <<r(1), r(2), IMM_M1, 0, 0>>
      [] Count(args) = 3 -> <<r(1), r(2), r(3), 0, 0>>
      [] Count(args) = 4 -> <<r(1), r(2), r(3), r(3), 0>>
      [] Count(args) = 5 -> <<r(1), r(2), IMM_M1, r(3), r(4)>>
      [] Count(args) = 6 -> <<r(1), r(2), r(3), r(4), r(5)>>
      [] OTHER -> <<>>

\* Branches: src[2] is the label.
BranchFields(op, args) ==
    CASE op = "J" -> <<Missing, Missing, LabelOf(args[1])>>
      [] op \in {"BEQ", "BGT", "BLT", "BNE", "BLE", "BGE"} ->
            <<GetRegValue(args[1]), Reg(args, 1), LabelOf(Operand(args, 2))>>
      [] OTHER -> <<GetRegValue(args[1]), Missing, LabelOf(Operand(args, 1))>>

\* The forms told apart by the operand type: a slide or a reduction with
\* another type than its own throws.
TypedFields(op, ty, args) ==
    CASE op \in {"ADDI", "MULI", "SLLI", "SRLI", "ANDI", "ORI"} \/ ty = "VI" ->
            <<Reg(args, 1), Number(Operand(args, 2))>>
      [] op \in {"VSLIDE1DOWN", "VSLIDE1UP", "VSLIDEDOWN", "VSLIDEUP"} ->
            IF ty = "VX" THEN <<Reg(args, 1), Reg(args, 2)>> ELSE <<Unparsed>>
      [] op \in {"VREDSUM", "VREDMAX", "VREDMIN", "VREDAND", "VREDOR"} ->
            IF ty # "VS" THEN <<Unparsed>>
            ELSE <<Reg(args, 1), Reg(args, 2)>>
                     \o (IF Count(args) > 2 THEN <<Reg(args, 3)>> ELSE <<>>)
      [] ty = "V" -> <<Reg(args, 1), Reg(args, 2)>>
      [] ty \in {"M", "X_S", "S_X"} -> <<Reg(args, 1)>>
      [] ty = "V_I" -> <<Number(Operand(args, 1))>>
                           \o (IF Count(args) > 1 THEN <<Reg(args, 2)>> ELSE <<>>)
      [] ty = "VF" -> <<Reg(args, 1), Reg(args, 2)>>
      [] op = "TEST" -> IF ty = "VV" THEN <<Reg(args, 1), Reg(args, 1)>> ELSE <<Reg(args, 1)>>
      [] op \in branch_ops -> BranchFields(op, args)
      [] op \in {"FEXP", "VFEXP"} -> <<Reg(args, 1)>>
      [] OTHER -> <<Reg(args, 1)>> \o (IF Count(args) > 1 THEN <<Reg(args, 2)>> ELSE <<>>)

Fields(op, ty, args) ==
    CASE op \in {"LI", "CSRWI"} -> <<Number(Operand(args, 1))>>
      [] op \in {"CSRW", "VID"} -> <<Reg(args, 1)>>
      [] op = "LBU" -> <<Reg(args, 1), Number(Operand(args, 2))>>
      [] op \in {"VAND", "VOR", "VMAND", "VMOR"} -> LogicFields(op, ty, args)
      [] op \in UnitLoads \cup UnitStores \cup {"LW", "SW", "FLW", "FSW", "SB", "SD", "LB", "LD"} ->
            <<BaseOf(Operand(args, 1)), OffsetOf(Operand(args, 1))>>
      [] op \in {"VLUXEI32", "VLUXEI64"} -> GatherFields(args)
      [] op \in {"VSUXEI32", "VSUXEI64"} -> ScatterFields(args)
      [] op = "VLSSEG" -> <<BaseOf(Operand(args, 1)), Reg(args, 2)>>
      [] op \in vmask_ops -> CompareFields(ty, args)
      [] op \in amo_ops -> AmoFields(op, args)
      [] op = "VSETVLI" -> VsetvliFields(args)
      [] OTHER -> TypedFields(op, ty, args)

\* ParseNdpInstruction.  line.seg is the digit of a vlsseg opcode; the
\* destinations of its segments are consecutive registers.
Parsed(line, fields) ==
    LET valid == line.op \in Opcodes /\ \A i \in 0 .. 4 : fields[i] # Unparsed
    IN [opcode |-> IF valid THEN line.op ELSE "INVALID_INST",
        operand_type |-> OperandType(line.ty), src |-> fields,
        dest |-> IF line.op = "EXIT" THEN Missing ELSE GetRegValue(line.args[1]),
        segDest |-> [i \in 1 .. line.seg |-> V(line.args[1][2] + i - 1)], segCnt |-> line.seg]
ParseNdpInstruction(line) ==
    Parsed(line, SrcFields(IF line.op = "EXIT" THEN <<>>
                           ELSE Fields(line.op, OperandType(line.ty), line.args)))

-----------------------------------------------------------------------------
\* An instruction goes to the section being read.
AddInst(k, inst) ==
    IF inst.opcode = "INVALID_INST" THEN [k EXCEPT !.fault = "throw"]
    ELSE [k EXCEPT !.arr_idx = @ + 1,
                   !.initializer = IF k.step = "INITIALIZER" THEN Append(@, inst) ELSE @,
                   !.finalizer = IF k.step = "FINALIZER" THEN Append(@, inst) ELSE @,
                   !.bodies = IF k.step = "KERNELBODY"
                              THEN [@ EXCEPT ![Len(@)] = Append(@, inst)] ELSE @]

\* One line of parse_ndp_kernel.  Every section counts its instructions from 0
\* and all sections share one loop_map: a label used twice keeps the last place.
ParseLine(k, line) ==
    CASE k.fault # "none" -> k
      [] line.k = "FINALIZER" /\ k.step # "KERNELBODY" -> [k EXCEPT !.fault = "assert"]
      [] line.k \in {"INITIALIZER", "KERNELBODY", "FINALIZER"} ->
            [k EXCEPT !.step = line.k, !.arr_idx = 0,
                      !.bodies = IF line.k = "KERNELBODY" THEN Append(@, <<>>) ELSE @]
      [] line.k \in {"LOOP", "SKIP"} ->
            [k EXCEPT !.loop_map = Bind(@, LabelOf(<<line.k, line.n>>), k.arr_idx)]
      [] OTHER -> AddInst(k, ParseNdpInstruction(line))
parse_ndp_kernel(lines) ==
    FoldLeft(ParseLine,
             [step |-> "INITIALIZER", arr_idx |-> 0, loop_map |-> EmptyBinding,
              initializer |-> <<>>, bodies |-> <<>>, finalizer |-> <<>>, fault |-> "none"],
             lines)

\* parse_kernel_launch on the tokens of a launch line: arg_size counts bytes,
\* and the arguments after the word FP32 are floats.  The word itself stands in
\* the place of an argument.
parse_kernel_launch(line) ==
    LET num == line.arg_size \div DOUBLE_SIZE
        ints == IF Len(line.args) < num THEN Len(line.args) ELSE num
    IN [base_addr |-> line.base_addr, size |-> line.size, smem_size |-> line.smem_size,
        arg_size |-> line.arg_size,
        args |-> [i \in 0 .. ints - 1 |-> line.args[i + 1]],
        num_float_args |-> IF line.fp32 THEN num - ints ELSE 0,
        float_args |-> line.float_args]
=============================================================================

--------------------------- MODULE NdpInstruction ---------------------------
(***************************************************************************)
(* What an instruction does (NdpInstruction::Execute and the functions it  *)
(* calls): a function from the context c and the renamed instruction to    *)
(* the context after it.  c holds the register unit R, the maps, csr, the  *)
(* request, ndp_id, doBranch, the value g an uninitialised m_type has      *)
(* during this instruction, and fault.  A fault ends the program.          *)
(*                                                                         *)
(* One operator per group of opcodes.  Per-type branches of the code that  *)
(* do the same in different types are one definition over the set of types *)
(* that have a branch.                                                     *)
(***************************************************************************)
EXTENDS MemoryMap

Vs(c, inst, i) == ReadVreg(c, inst.src[i])
Xs(c, inst, i) == ReadXreg(c, inst.src[i])
Fs(c, inst, i) == ReadFreg(c, inst.src[i])
XsInt(c, inst, i) == Signed(Xs(c, inst, i), WORD_SIZE)
ImmInt(inst, i) == Signed(inst.src[i], WORD_SIZE)
Present(inst, i) == inst.src[i] # -1

CheckFloatOp(inst) == inst.opcode \in float_ops
FloatType(c) == IF c.csr.vsew = 32 THEN "FLOAT32" ELSE "FLOAT16"
Vd(c) == CsrVector(c.g, c.csr)
DoubleReg(c) == c.csr.vlmul = M2

\* The elements from vstart on, and those among them a mask leaves.
Body(c, v) == c.csr.vstart .. v.m_vlen - 1
ReadsInside(v, t, S) == \A i \in S : Inside(v, t, i)
Selected(vm, S) == {i \in S : GetVmaskData(vm, i)}

\* (T)x for the element type T.
CastTo(t, x) == FromBits(t, ToBits(t, x))
IntTypeOf(sew, byte) == CASE sew = 8 -> byte [] sew = 16 -> "INT16"
                          [] sew = 32 -> "INT32" [] sew = 64 -> "INT64"

\* Bit operations in a width; C++ shifts of a signed value keep its sign.  A
\* shift by a negative amount or by the width is undefined: it gives 0 here,
\* and the programs that are checked do not do it.
BitAnd(a, b, bytes) == Signed(Unsigned(a, bytes) & Unsigned(b, bytes), bytes)
BitOr(a, b, bytes) == Signed(Unsigned(a, bytes) | Unsigned(b, bytes), bytes)
ShiftOk(s) == s >= 0 /\ s < ByteBits * DOUBLE_SIZE
Shl(a, s) == IF ShiftOk(s) THEN a * 2 ^ s ELSE 0
Shr(a, s) == IF ShiftOk(s) THEN a \div 2 ^ s ELSE 0

\* arith_op and its two specialisations.
ArithOp(t, op, a, b) ==
    CASE op \in {"ADD", "SUB", "MUL", "DIV"} -> Arith(t, op, a, b)
      [] op = "MIN" -> IF a < b THEN a ELSE b
      [] op = "MAX" -> IF a > b THEN a ELSE b
      [] op = "AND" /\ t = "FLOAT32" -> IF a # 0 /\ b # 0 THEN 1 ELSE 0
      [] op = "OR" /\ t = "FLOAT32" -> IF a # 0 \/ b # 0 THEN 1 ELSE 0
      [] op = "AND" -> BitAnd(a, b, SizeOf(t))
      [] op = "OR" -> BitOr(a, b, SizeOf(t))

\* A fresh destination with f in the elements from vstart on, written as the
\* type of v when the code has a branch for it and left alone otherwise.
PerType(c, v, types, f(_), srcs) ==
    IF Faulty(v) THEN v
    ELSE IF v.m_type \in types
    THEN Fill(Vd(c), v.m_type, Body(c, Vd(c)), f, srcs \cup {<<v, v.m_type>>})
    ELSE Vd(c)

-----------------------------------------------------------------------------
\* vsetvli: anything but an element width and a group size throws.
Vsetvli(c, inst) ==
    LET sews == {s \in {8, 16, 32, 64} : inst.src[1] = IMM_E(s)}
        lmuls == {m \in {1, 2, 4, 8, 16, 32, 64} : inst.src[2] = IMM_M(m)}
    IN IF sews = {} \/ lmuls = {} THEN WithFault(c, "throw")
       ELSE [c EXCEPT !.csr.vsew = CHOOSE s \in sews : TRUE,
                      !.csr.vlmul = CHOOSE m \in lmuls : TRUE]

Throw == Fault("throw")

\* VADD, VFADD.
Add(c, inst) ==
    LET v == Vs(c, inst, 0)
        ty == inst.operand_type
    IN CASE ty = "VV" -> PlusVV(v, Vs(c, inst, 1))
         [] ty = "VX" -> PlusL(v, Xs(c, inst, 1))
         [] ty = "VI" -> PlusI(v, ImmInt(inst, 1))
         [] ty = "VF" -> PlusF(v, Fs(c, inst, 1))
         [] OTHER -> Throw

\* VSUB, VFSUB: the float form retags its operands first.
Subtract(c, inst) ==
    LET tag(v) == IF CheckFloatOp(inst) THEN SetType(v, FloatType(c)) ELSE v
        v == tag(Vs(c, inst, 0))
        ty == inst.operand_type
    IN CASE ty = "VV" -> MinusVV(v, tag(Vs(c, inst, 1)))
         [] ty = "VI" -> MinusI(v, ImmInt(inst, 1))
         [] ty = "VX" -> MinusI(v, XsInt(c, inst, 1))
         [] ty = "VF" -> MinusF(IF c.csr.vsew = 16 THEN SetType(v, "FLOAT16") ELSE v,
                                Fs(c, inst, 1))
         [] OTHER -> Throw

\* VFWSUB: halves become floats in a two-register temporary.
WidenSub(c, inst) ==
    LET v == Vs(c, inst, 0)
        temp == Fill(SetType(SetVectorDoubleReg(Vd(c)), "FLOAT32"), "FLOAT32", Body(c, v),
                     LAMBDA i : GetData(v, "FLOAT16", i), {<<v, "FLOAT16">>})
    IN CASE Faulty(v) -> v
         [] v.m_type # "FLOAT16" -> Fault("assert")
         [] inst.operand_type = "VF" -> MinusF(temp, Fs(c, inst, 1))
         [] OTHER -> Throw

\* VRSUB, VFRSUB take the vector from src[1] and the scalar from src[0], the
\* places the parser gives to the scalar and to the vector.
ReverseSub(c, inst) ==
    LET v == SetType(Vs(c, inst, 1), IF CheckFloatOp(inst) THEN FloatType(c) ELSE "INT32")
        ty == inst.operand_type
    IN CASE ty = "VI" -> IMinus(ImmInt(inst, 0), v)
         [] ty = "VF" /\ inst.src[0] \in PFs -> FMinus(Fs(c, inst, 0), v)
         [] OTHER -> Throw

\* VMUL, VFMUL.
Multiply(c, inst) ==
    LET v == Vs(c, inst, 0)
        ty == inst.operand_type
    IN CASE ty = "VV" -> TimesVV(v, Vs(c, inst, 1))
         [] ty = "VX" -> TimesI(v, XsInt(c, inst, 1))
         [] ty = "VI" -> TimesI(v, ImmInt(inst, 1))
         [] ty = "VF" -> TimesF(v, Fs(c, inst, 1))
         [] OTHER -> Throw

\* VFWMUL: the product is formed in halves, then widened.
WidenMul(c, inst) ==
    LET v == Vs(c, inst, 0)
        w == Vs(c, inst, 1)
        temp == IF inst.operand_type = "VV" THEN TimesVV(v, w) ELSE TimesF(v, Fs(c, inst, 1))
    IN CASE Faulty(v) -> v
         [] inst.operand_type \notin {"VV", "VF"} \/ v.m_type # "FLOAT16" -> Throw
         [] inst.operand_type = "VV" /\ w.m_type # "FLOAT16" -> Throw
         [] OTHER -> Fill(SetVectorDoubleReg(Vd(c)), "FLOAT32", Lanes(temp),
                          LAMBDA i : GetData(temp, "FLOAT16", i), {<<temp, "FLOAT16">>})

\* VDIV, VFDIV: the dividend is retagged, as 32-bit when it is an integer.
Divide(c, inst) ==
    LET v == SetType(Vs(c, inst, 0), IF CheckFloatOp(inst) THEN FloatType(c) ELSE "INT32")
        ty == inst.operand_type
    IN CASE ty = "VV" -> OverVV(v, Vs(c, inst, 1))
         [] ty = "VX" -> OverI(v, XsInt(c, inst, 1))
         [] ty = "VI" -> OverI(v, ImmInt(inst, 1))
         [] ty = "VF" -> OverF(v, Fs(c, inst, 1))
         [] OTHER -> Throw

\* VFRDIV.
ReverseDiv(c, inst) ==
    IF inst.operand_type = "VF" THEN FOver(Fs(c, inst, 1), Vs(c, inst, 0)) ELSE Throw

\* VSLL: the amount is read in the type of the shifted element.
ShiftLeft(c, inst) ==
    LET v == Vs(c, inst, 0)
        w == Vs(c, inst, 1)
        ty == inst.operand_type
        by(i) == CASE ty = "VV" -> GetData(w, v.m_type, i)
                   [] ty = "VX" -> Xs(c, inst, 1)
                   [] ty = "VI" -> inst.src[1]
    IN IF ty \notin {"VV", "VX", "VI"} THEN Throw
       ELSE PerType(c, v, {"INT64", "INT32", "INT16"},
                    LAMBDA i : Shl(GetData(v, v.m_type, i), by(i)),
                    IF ty = "VV" THEN {<<w, v.m_type>>} ELSE {})

\* VSRL keeps the sign.  A byte is cast to int8_t, for which SetData takes the
\* 32-bit form: the result has a word per byte.
ShiftRight(c, inst) ==
    LET v == Vs(c, inst, 0) IN
    IF ~Faulty(v) /\ v.m_type = "UINT8"
    THEN Fill(Vd(c), "INT32", Body(c, Vd(c)),
              LAMBDA i : CastTo("CHAR8", Shr(GetData(v, "UINT8", i), inst.src[1])),
              {<<v, "UINT8">>})
    ELSE PerType(c, v, {"INT64", "INT32", "INT16"},
                 LAMBDA i : Shr(GetData(v, v.m_type, i), inst.src[1]), {})

\* VNADD: a long gives a word, a word a half; anything else is left undone.
NarrowAdd(c, inst) ==
    LET v == Vs(c, inst, 0)
        t == CASE v.m_type = "INT64" -> "INT32" [] v.m_type = "INT32" -> "INT16"
               [] OTHER -> "none"
    IN CASE Faulty(v) -> v
         [] inst.operand_type = "WX" /\ t # "none" ->
                Fill(Vd(c), t, Body(c, Vd(c)),
                     LAMBDA i : XsInt(c, inst, 1) + GetData(v, v.m_type, i), {<<v, v.m_type>>})
         [] inst.operand_type \in {"WX", "WV"} -> Vd(c)
         [] OTHER -> Throw

-----------------------------------------------------------------------------
\* VMV to a vector.  Except for an unmasked immediate, the destination starts
\* as what the register held: CheckExistRenameVreg says yes to every register
\* that is not free, so also to one this uthread never wrote, and the number
\* of elements is the one found there.
MoveToVector(c, inst) ==
    LET ty == inst.operand_type
        masked == Present(inst, 1)
        vm == Vs(c, inst, 1)
        vd == IF ty = "V_I" /\ ~masked THEN Vd(c) ELSE ReadVreg(c, inst.dest)
        x == IF ty = "V_I" THEN inst.src[0] ELSE Xs(c, inst, 0)
        t == IntTypeOf(c.csr.vsew, IF ty = "V_I" THEN "UINT8" ELSE "CHAR8")
    IN CASE ty = "V_V" -> Vs(c, inst, 0)
         [] ty = "V_F" -> Throw
         [] Faulty(vd) -> vd
         [] masked /\ Faulty(vm) -> vm
         [] masked /\ ~MaskInside(vm, Body(c, vd)) -> Fault("overrun")
         [] OTHER -> Fill(vd, t, IF masked THEN Selected(vm, Body(c, vd)) ELSE Body(c, vd),
                          LAMBDA i : x, {})

Movable == {"FLOAT16", "FLOAT32", "INT16", "INT32", "INT64", "CHAR8"}

\* VMV between a scalar register and the element at vstart.
MoveElement(c, inst) ==
    LET at == c.csr.vstart
        v == IF inst.operand_type = "X_S" THEN Vs(c, inst, 0) ELSE ReadVreg(c, inst.dest)
        t == v.m_type
    IN CASE Faulty(v) -> WithFault(c, v.fault)
         [] inst.operand_type = "S_X" ->
                WriteVreg(c, inst.dest,
                          IF t \in Movable THEN SetData(v, t, Xs(c, inst, 0), at) ELSE v)
         [] t = "VMASK" /\ c.csr.vsew # 8 -> WithFault(c, "throw")
         [] t = "VMASK" -> WriteXreg(c, inst.dest, GetVmaskAsByte(v, 8 * at))
         [] t \in Movable /\ ~Inside(v, t, at) -> WithFault(c, "overrun")
         [] t \in Movable -> WriteXreg(c, inst.dest, GetData(v, t, at))
         [] OTHER -> c

\* VID, VMSET.
Vid(c) == Fill(Vd(c), IntTypeOf(c.csr.vsew, "UINT8"), Body(c, Vd(c)), LAMBDA i : i, {})
MaskSet(c) == SetVmasks(Vd(c), Body(c, Vd(c)), LAMBDA i : TRUE)

Comparison(op) == CASE op = "VMSEQ" -> "EQ" [] op = "VMSNE" -> "NE" [] op = "VMSLT" -> "LT"
                    [] op = "VMSLE" -> "LE" [] op = "VMSGT" -> "GT" [] op = "VMSGE" -> "GE"

\* VMSEQ ... VMSGE: the first operand's type decides how both are read.
Compare(c, inst) ==
    LET v == Vs(c, inst, 0)
        w == Vs(c, inst, 1)
        t == v.m_type
        ty == inst.operand_type
        S == Body(c, Vd(c))
        comparable == DataType \ {"VMASK", "MAX_DataType"}
        rhs(i) == CASE ty = "VV" -> GetData(w, t, i)
                    [] ty = "VI" -> CastTo(t, inst.src[1])
                    [] ty = "VX" -> CastTo(t, Xs(c, inst, 1))
                    [] ty = "VF" -> CastTo(t, Fs(c, inst, 1))
    IN CASE Faulty(v) -> v
         [] ty = "VV" /\ Faulty(w) -> w
         [] ty \notin {"VV", "VI", "VX", "VF"} -> Vd(c)
         [] ty = "VV" /\ S # {} /\ t \notin comparable -> Throw
         [] ty \in {"VI", "VX"} /\ t \notin comparable \ Floats -> Throw
         [] ty = "VF" /\ t \notin Floats -> Throw
         [] ~ReadsInside(v, t, S) \/ (ty = "VV" /\ ~ReadsInside(w, t, S)) -> Fault("overrun")
         [] OTHER -> SetVmasks(Vd(c), S,
                        LAMBDA i : LogicalOperate(Comparison(inst.opcode), GetData(v, t, i), rhs(i)))

\* VMAND, VMOR.
MaskLogic(c, inst) ==
    LET v == Vs(c, inst, 0)
        w == Vs(c, inst, 1)
        S == Body(c, Vd(c))
    IN CASE inst.operand_type # "MM" -> Throw
         [] Faulty(v) \/ Faulty(w) -> FaultOf({<<v>>, <<w>>})
         [] ~MaskInside(v, S) \/ ~MaskInside(w, S) -> Fault("overrun")
         [] OTHER -> SetType(SetVmasks(Vd(c), S, LAMBDA i :
                        IF inst.opcode = "VMAND" THEN GetVmaskData(v, i) /\ GetVmaskData(w, i)
                        ELSE GetVmaskData(v, i) \/ GetVmaskData(w, i)), "VMASK")

\* VAND.  On floats it is a product kept as an integer; the immediate form goes
\* by vsew, and at e8 it writes words, like VSRL on bytes.
VectorAnd(c, inst) ==
    LET v == Vs(c, inst, 0)
        w == Vs(c, inst, 1)
        S == Body(c, Vd(c))
        t == IntTypeOf(c.csr.vsew, "CHAR8")
        both == {<<v, v.m_type>>, <<w, v.m_type>>}
    IN CASE Faulty(v) -> v
         [] inst.operand_type = "VV" /\ v.m_type = "FLOAT32" ->
                Fill(Vd(c), "INT32", S,
                     LAMBDA i : GetData(v, "FLOAT32", i) * GetData(w, "FLOAT32", i), both)
         [] inst.operand_type = "VV" ->
                PerType(c, v, {"INT32", "INT64", "BOOL"},
                        LAMBDA i : BitAnd(GetData(v, v.m_type, i), GetData(w, v.m_type, i),
                                          SizeOf(v.m_type)), both)
         [] inst.operand_type = "VI" ->
                Fill(Vd(c), IF t = "CHAR8" THEN "INT32" ELSE t, S,
                     LAMBDA i : CastTo(t, BitAnd(GetData(v, t, i), ImmInt(inst, 1), DOUBLE_SIZE)),
                     {<<v, t>>})
         [] OTHER -> Vd(c)

\* VOR: the operands are taken as truth values, 1 being true, only where the
\* mask is set, and without a mask register nowhere.
VectorOr(c, inst) ==
    LET v == Vs(c, inst, 0)
        w == Vs(c, inst, 1)
        vm == Vs(c, inst, 2)
        vd == ReadVreg(c, inst.dest)
        t == v.m_type
        S == Selected(vm, Body(c, vd))
        either(i) == IF GetData(v, t, i) = 1 \/ GetData(w, t, i) = 1 THEN 1 ELSE 0
    IN CASE Faulty(v) -> v
         [] inst.operand_type # "VV" -> vd
         [] Faulty(vm) -> vm
         [] ~MaskInside(vm, Body(c, vd)) -> Fault("overrun")
         [] t \in {"INT32", "FLOAT32", "BOOL"} ->
                Fill(vd, IF t = "BOOL" THEN t ELSE "INT32", S, either, {<<v, t>>, <<w, t>>})
         [] OTHER -> vd

\* VFIRST: the first element from vstart whose mask bit is set, or -1.
First(c, inst) ==
    LET v == Vs(c, inst, 0)
        set == Selected(v, Body(c, v))
    IN CASE Faulty(v) -> WithFault(c, v.fault)
         [] v.m_type # "VMASK" -> WithFault(c, "assert")
         [] ~MaskInside(v, Body(c, v)) -> WithFault(c, "overrun")
         [] OTHER -> WriteXreg(c, inst.dest, IF set = {} THEN -1 ELSE Min(set))

\* VMIN goes by the second operand's type and has as many elements as words;
\* VMAX goes by the first operand's type and has vtype's elements.
MinMax(c, inst) ==
    LET v == Vs(c, inst, 0)
        w == Vs(c, inst, 1)
        min == inst.opcode = "VMIN"
        t == IF min THEN w.m_type ELSE v.m_type
        vd == IF min THEN SetType(BoolVector(c.g, DoubleReg(c)), "INT32") ELSE Vd(c)
        best(i) == ArithOp(t, IF min THEN "MIN" ELSE "MAX", GetData(v, t, i), GetData(w, t, i))
    IN CASE Faulty(v) -> v
         [] inst.operand_type \in {"VI", "VF"} -> vd
         [] inst.operand_type # "VV" -> Throw
         [] Faulty(w) -> w
         [] t \in {"INT32", "FLOAT32", "FLOAT16", "CHAR8"} ->
                Fill(vd, t, Body(c, vd), best, {<<v, t>>, <<w, t>>})
         [] OTHER -> vd

\* VCOMPRESS: the selected words, packed, then zeroes.
Compress(c, inst) ==
    LET v == Vs(c, inst, 0)
        vm == Vs(c, inst, 1)
        at == c.csr.vstart
        kept == Sorted(Selected(vm, Body(c, v)))
        end == Max({Vd(c).m_vlen, at + Len(kept)})
    IN CASE inst.operand_type # "VM" -> Throw
         [] Faulty(v) \/ Faulty(vm) -> FaultOf({<<v>>, <<vm>>})
         [] ~MaskInside(vm, Body(c, v)) \/ ~ReadsInside(v, "INT32", Range(kept))
                -> Fault("overrun")
         [] OTHER -> Fill(Vd(c), "INT32", at .. end - 1,
                          LAMBDA j : IF j - at < Len(kept)
                                     THEN GetData(v, "INT32", kept[j - at + 1]) ELSE 0, {})

\* VSLIDE1DOWN: one element down, a scalar in the last place.
SlideOneDown(c, inst) ==
    LET v == Vs(c, inst, 0)
        t == v.m_type
        last == Vd(c).m_vlen - 1
        from == c.csr.vstart .. last - 1
        moved == Fill(Vd(c), t, from, LAMBDA i : GetData(v, t, i + 1), {})
    IN CASE Faulty(v) -> v
         [] t \notin Movable -> Vd(c)
         [] ~ReadsInside(v, t, {i + 1 : i \in from}) -> Fault("overrun")
         [] OTHER -> SetData(moved, t, CastTo(t, Xs(c, inst, 1)), last)

\* VSLIDE1UP: one element up, a scalar in the first place.
SlideOneUp(c, inst) ==
    LET v == Vs(c, inst, 0)
        t == v.m_type
        from == c.csr.vstart .. Vd(c).m_vlen - 2
        moved == Fill(Vd(c), t, {i + 1 : i \in from}, LAMBDA i : GetData(v, t, i - 1), {})
    IN CASE Faulty(v) -> v
         [] t \notin Movable -> Vd(c)
         [] ~ReadsInside(v, t, from) -> Fault("overrun")
         [] OTHER -> SetData(moved, t, CastTo(t, Xs(c, inst, 1)), 0)

\* VSLIDEDOWN: the places left are cleared by SetData(0, ...), which writes a
\* word at the element's index whatever the element's size.
SlideDown(c, inst) ==
    LET v == Vs(c, inst, 0)
        t == v.m_type
        move == IF inst.operand_type = "VX" THEN XsInt(c, inst, 1) ELSE ImmInt(inst, 1)
        vlen == Vd(c).m_vlen
        from == c.csr.vstart .. vlen - move - 1
        moved == Fill(Vd(c), t, from, LAMBDA i : GetData(v, t, i + move), {})
    IN CASE inst.operand_type \notin {"VX", "VI"} -> Throw
         [] Faulty(v) -> v
         [] t \notin Movable \ {"INT64"} -> Vd(c)
         [] ~ReadsInside(v, t, {i + move : i \in from}) -> Fault("overrun")
         [] OTHER -> SetType(Fill(moved, "INT32", {vlen - i : i \in 1 .. move},
                                  LAMBDA i : 0, {}), t)

-----------------------------------------------------------------------------
\* VFMACC, VFMSUB.
MultiplyAdd(c, inst) ==
    LET ty == inst.operand_type
        vd == ReadVreg(c, inst.dest)
    IN CASE ty \notin {"VV", "VF"} -> Throw
         [] inst.opcode = "VFMACC" ->
                PlusVV(IF ty = "VV" THEN TimesVV(Vs(c, inst, 0), Vs(c, inst, 1))
                       ELSE TimesF(Vs(c, inst, 0), Fs(c, inst, 1)), vd)
         [] OTHER -> MinusVV(IF ty = "VV" THEN TimesVV(vd, Vs(c, inst, 0))
                             ELSE TimesF(vd, Fs(c, inst, 0)), Vs(c, inst, 1))

\* VFWMACC: halves into floats.
WidenMacc(c, inst) ==
    LET v == Vs(c, inst, 0)
        w == Vs(c, inst, 1)
        vd == ReadVreg(c, inst.dest)
        wide == SetType(SewVector(c.g, 32, 2 * c.csr.vlmul), "FLOAT32")
        f == Fs(c, inst, 1)
    IN CASE c.csr.vsew = 32 -> Throw
         [] Faulty(v) \/ Faulty(vd) -> FaultOf({<<v>>, <<vd>>})
         [] inst.operand_type = "VV" /\ v.m_type = w.m_type /\ v.m_type = "FLOAT16" ->
                PlusVV(SetType(vd, "FLOAT32"), TimesVV(v, w))
         [] inst.operand_type = "VV" /\ v.m_type = w.m_type /\ v.m_type = "INT16" ->
                PlusVV(SetType(vd, "INT32"), TimesVV(v, w))
         [] inst.operand_type = "VF" /\ (v.m_type = "FLOAT16" \/ vd.m_type = "FLOAT32") ->
                Fill(wide, "FLOAT32", Lanes(vd),
                     LAMBDA i : GetData(vd, "FLOAT32", i) + GetData(v, "FLOAT16", i) * f,
                     {<<vd, "FLOAT32">>, <<v, "FLOAT16">>})
         [] OTHER -> Throw

\* The element conversions of VFNCVT, VFCVT and VFWCVT: which type is read and
\* which is written.  uint16_t has no SetData of its own and writes a word.
Conversion(inst, v) ==
    LET int == IF v.m_type = "INT32" THEN "INT32" ELSE "INT16"
        ty == inst.operand_type
        op == inst.opcode
    IN CASE ty \in {"XU_F_W", "X_F_W"} /\ op = "VFNCVT" -> <<"FLOAT32", "INT32">>
         [] ty = "F_F_W" /\ op = "VFNCVT" -> <<"FLOAT32", "FLOAT16">>
         [] ty \in {"F_XU_W", "F_X_W"} /\ op = "VFNCVT" -> <<"INT32", "FLOAT16">>
         [] ty \in {"F_XU_V", "F_X_V"} /\ op = "VFCVT" ->
                <<int, IF int = "INT32" THEN "FLOAT32" ELSE "FLOAT16">>
         [] ty \in {"F_XU_V", "F_X_V"} /\ op = "VFWCVT" -> <<int, "FLOAT32">>
         [] ty \in {"XU_F_V", "X_F_V"} /\ op \in {"VFCVT", "VFWCVT"} -> <<"FLOAT32", "INT32">>
         [] ty = "F_F_V" /\ op = "VFWCVT" -> <<"FLOAT16", "FLOAT32">>
         [] OTHER -> <<>>
FConvert(c, inst) ==
    LET v == Vs(c, inst, 0)
        conv == Conversion(inst, v)
        precision == IF v.m_type \in {"INT32", "FLOAT32"} THEN WORD_SIZE ELSE HALF_SIZE
        vd == CASE inst.opcode = "VFNCVT" -> BoolVector(c.g, precision * v.m_vlen > PACKET_SIZE)
                [] inst.opcode = "VFCVT" -> Vd(c)
                [] inst.opcode = "VFWCVT" -> SetVectorDoubleReg(Vd(c))
    IN CASE Faulty(v) -> v
         [] conv = <<>> -> vd
         [] OTHER -> Fill(vd, conv[2], Body(c, vd), LAMBDA i : CastTo(conv[2], GetData(v, conv[1], i)),
                          {<<v, conv[1]>>})

\* VFMV.  The vector, immediate and integer forms build a vector and drop it.
FMove(c, inst) ==
    LET ty == inst.operand_type
        at == c.csr.vstart
        v == Vs(c, inst, 0)
        vd == ReadVreg(c, inst.dest)
        t == FloatType(c)
        S == Body(c, vd)
        places == IF t = "FLOAT32" THEN S ELSE UNION {{2 * i, 2 * i + 1} : i \in S}
    IN CASE ty = "V_F" -> WriteVreg(c, inst.dest, SetType(
                            Fill(vd, t, places, LAMBDA i : Fs(c, inst, 0), {}), t))
         [] ty = "F_S" /\ Faulty(v) -> WithFault(c, v.fault)
         [] ty = "F_S" /\ v.m_type \in Floats ->
                IF Inside(v, v.m_type, at) THEN WriteFreg(c, inst.dest, GetData(v, v.m_type, at))
                ELSE WithFault(c, "overrun")
         [] ty = "S_F" -> WriteVreg(c, inst.dest, SetData(vd, t, Fs(c, inst, 0), at))
         [] OTHER -> c

\* VFSQRT, VFEXP.
Sqrt(c, inst) ==
    LET v == Vs(c, inst, 0) IN
    CASE inst.operand_type # "V" -> Throw
      [] Faulty(v) -> v
      [] v.m_type \in Floats -> Fill(Vd(c), v.m_type, Body(c, v),
                                     LAMBDA i : FSqrt(GetData(v, v.m_type, i)), {<<v, v.m_type>>})
      [] OTHER -> Vd(c)
FExponent(c, inst) == IF inst.operand_type = "V" THEN Exp(Vs(c, inst, 0)) ELSE Throw

\* VFSGNJ, VFSGNJN, VFSGNJX: |a| with the sign the opcode picks.  Halves only
\* in the vector form.
SignInject(c, inst) ==
    LET v == Vs(c, inst, 0)
        w == Vs(c, inst, 1)
        t == v.m_type
        vv == inst.operand_type = "VV"
        abs(x) == IF x < 0 THEN -x ELSE x
        neg(a, b) == CASE inst.opcode = "VFSGNJ" -> b < 0
                       [] inst.opcode = "VFSGNJN" -> ~(b < 0)
                       [] inst.opcode = "VFSGNJX" -> (a < 0) # (b < 0)
        inject(a, b) == IF neg(a, b) THEN -abs(a) ELSE abs(a)
    IN CASE inst.operand_type \notin {"VV", "VF"} -> Throw
         [] Faulty(v) -> v
         [] Body(c, Vd(c)) # {} /\ t \notin (IF vv THEN Floats ELSE {"FLOAT32"}) -> Throw
         [] OTHER -> PerType(c, v, Floats,
                        LAMBDA i : inject(GetData(v, t, i),
                                          IF vv THEN GetData(w, t, i) ELSE Fs(c, inst, 1)),
                        IF vv THEN {<<w, t>>} ELSE {})

-----------------------------------------------------------------------------
Reducible == {"INT64", "INT32", "INT16", "FLOAT32", "FLOAT16"}

\* The elements of v in S, read as type t, folded into the first element of w.
Reduced(op, v, w, t, S) ==
    LET or(a, b) == IF a # 0 \/ b # 0 THEN 1 ELSE 0
        step(i, acc) == IF op = "LOGIC_OR" THEN or(acc, GetData(v, t, i))
                        ELSE ArithOp(t, op, acc, GetData(v, t, i))
    IN FoldSet(step, GetData(w, t, 0), S)
ReduceInto(vd, tout, op, v, w, t, S) ==
    CASE Faulty(v) \/ Faulty(w) -> FaultOf({<<v>>, <<w>>})
      [] ~ReadsInside(v, t, S) \/ ~Inside(w, t, 0) -> Fault("overrun")
      [] OTHER -> SetData(vd, tout, Reduced(op, v, w, t, S), 0)

\* VFREDOMAX, VFREDOSUM: the type is the one vtype asks for.
FReduce(c, inst) ==
    LET v == Vs(c, inst, 0)
        max == inst.opcode = "VFREDOMAX"
        vd == IF max /\ c.csr.vsew = 32 THEN BoolVector(c.g, DoubleReg(c)) ELSE Vd(c)
    IN IF inst.operand_type # "VS" THEN Throw
       ELSE ReduceInto(vd, FloatType(c), IF max THEN "MAX" ELSE "ADD", v, Vs(c, inst, 1),
                       FloatType(c), Body(c, v))

\* VREDSUM, VREDMAX: the type is the second operand's.
ReduceSumMax(c, inst) ==
    LET v == Vs(c, inst, 0)
        w == Vs(c, inst, 1)
    IN IF inst.operand_type # "VS" \/ (~Faulty(w) /\ w.m_type \notin Reducible) THEN Throw
       ELSE ReduceInto(Vd(c), w.m_type, IF inst.opcode = "VREDSUM" THEN "ADD" ELSE "MAX",
                       v, w, w.m_type, Body(c, v))

\* VREDMIN looks only at elements a mask register selects: without one the
\* result is the first element of the second operand.
ReduceMin(c, inst) ==
    LET v == Vs(c, inst, 0)
        w == Vs(c, inst, 1)
        vm == Vs(c, inst, 2)
        masked == Present(inst, 2)
    IN CASE inst.operand_type # "VS" \/ (~Faulty(w) /\ w.m_type \notin Reducible) -> Throw
         [] masked /\ Faulty(vm) -> vm
         [] masked /\ vm.m_type # "VMASK" -> Fault("assert")
         [] masked /\ ~MaskInside(vm, Body(c, v)) -> Fault("overrun")
         [] OTHER -> ReduceInto(Vd(c), w.m_type, "MIN", v, w, w.m_type,
                                IF masked THEN Selected(vm, Body(c, v)) ELSE {})

\* VREDOR is a logical or: its result is 0 or 1.
ReduceOr(c, inst) ==
    LET v == Vs(c, inst, 0)
        w == Vs(c, inst, 1)
    IN IF inst.operand_type # "VS" \/ (~Faulty(w) /\ w.m_type \notin Reducible) THEN Throw
       ELSE ReduceInto(Vd(c), w.m_type, "LOGIC_OR", v, w, w.m_type, Body(c, v))

\* VWREDOSUM, VWREDOMAX: halves into a float; other types leave dest as it is.
WidenReduce(c, inst) ==
    LET v == Vs(c, inst, 0)
        w == Vs(c, inst, 1)
        vd == SetType(SewVector(c.g, 32, c.csr.vlmul), "FLOAT32")
    IN CASE inst.operand_type # "VS" -> WithFault(c, "throw")
         [] Faulty(v) \/ Faulty(w) -> WithFault(c, FaultOf({<<v>>, <<w>>}).fault)
         [] v.m_type = "FLOAT16" /\ w.m_type = "FLOAT16" ->
                WriteVreg(c, inst.dest,
                    ReduceInto(vd, "FLOAT32", IF inst.opcode = "VWREDOSUM" THEN "ADD" ELSE "MAX",
                               v, w, "FLOAT16", Body(c, v)))
         [] OTHER -> c

-----------------------------------------------------------------------------
Addr(c, inst) == Xs(c, inst, 0) + inst.src[1]

\* VLE8 ... VLE64: the packet as it was stored, whatever its type; two packets
\* for a group of two, and a group of eight appends the first to itself.
VectorLoad(c, inst) ==
    LET first == MemoryMapLoad(c, Addr(c, inst)) IN
    CASE inst.opcode \in {"VLE8", "VLE16"} -> first
      [] c.csr.vlmul = M2 ->
            AppendRegister(first, MemoryMapLoad(c, Addr(c, inst) + PACKET_SIZE))
      [] inst.opcode = "VLE64" /\ c.csr.vlmul = 64 -> Throw
      [] OTHER -> first

\* Mutant: both halves of a group are stored at the same address.
VectorStoreSamePlace(c, inst) ==
    LET halves == Split(ReadVreg(c, inst.dest)) IN
    IF inst.opcode \in {"VSE32", "VSE64"} /\ c.csr.vlmul = M2
    THEN MemoryMapStore(MemoryMapStore(c, Addr(c, inst), halves[1]), Addr(c, inst), halves[2])
    ELSE MemoryMapStore(c, Addr(c, inst), ReadVreg(c, inst.dest))

\* VSE8 ... VSE64.
VectorStore(c, inst) ==
    LET v == ReadVreg(c, inst.dest)
        halves == Split(v)
    IN IF inst.opcode \in {"VSE32", "VSE64"} /\ c.csr.vlmul = M2 /\ ~Faulty(v)
       THEN MemoryMapStore(MemoryMapStore(c, Addr(c, inst), halves[1]),
                           Addr(c, inst) + PACKET_SIZE, halves[2])
       ELSE MemoryMapStore(c, Addr(c, inst), v)

\* VLSSEG: element i of segment j from base + (index i + j) elements; only
\* packets of bytes are read.
SegmentLoad(c, inst) ==
    LET v == Vs(c, inst, 1)
        t == v.m_type
        at(i, j) == Xs(c, inst, 0) + TruncDiv(GetData(v, t, i) * c.csr.vsew, 8)
                        + (j * c.csr.vsew) \div 8
        put(i, vd, j) ==
            LET line == MemoryMapLoad(c, at(i, j)) IN
            CASE Faulty(vd) \/ Faulty(line) -> FaultOf({<<vd>>, <<line>>})
              [] line.m_type \in {"CHAR8", "UINT8"} ->
                    SetData(vd, line.m_type, GetData(line, line.m_type, at(i, j) % PACKET_SIZE), i)
              [] OTHER -> vd
        segment(j) == FoldSet(LAMBDA i, vd : put(i, vd, j), Vd(c), Body(c, v))
    IN CASE inst.operand_type # "V" -> WithFault(c, "throw")
         [] Faulty(v) -> WithFault(c, v.fault)
         [] Body(c, v) # {} /\ t \notin {"INT64", "INT32", "INT16"} -> WithFault(c, "throw")
         [] ~ReadsInside(v, t, Body(c, v)) -> WithFault(c, "overrun")
         [] OTHER -> FoldSet(LAMBDA j, d : IF d.fault # "none" THEN d
                                           ELSE WriteVreg(d, inst.segDest[j + 1], segment(j)),
                             c, 0 .. inst.segCnt - 1)

\* amo_loop, one element: load the packet (or make one), combine, store.  The
\* place in the packet comes from the type of the offsets, the type of the
\* arithmetic from the packet when it holds floats or bytes and from the
\* operand otherwise.
AmoTarget(c, vs, held) ==
    IF Faulty(held) /\ held.fault = "throw"
    THEN SetType(SewVector(c.g, 8 * GetPrecision(vs), M1), vs.m_type) ELSE held
AmoUpdate(c, op, vs, t, addr, vd, i) ==
    LET idx == (addr % PACKET_SIZE) \div SizeOf(t)
        et == IF vd.m_type \in {"FLOAT32", "UINT8"} THEN vd.m_type ELSE vs.m_type
    IN CASE c.fault # "none" -> c
         [] Faulty(vd) -> WithFault(c, vd.fault)
         [] et \notin {"FLOAT32", "UINT8", "INT16", "FLOAT16", "INT32", "INT64"}
               \/ (et = "FLOAT32" /\ vd.m_type # "FLOAT32")
               \/ (et = "UINT8" /\ vd.m_type # "UINT8")
               \/ (et = "FLOAT16" /\ op \in {"AND", "OR"}) -> WithFault(c, "throw")
         [] ~Inside(vd, et, idx) \/ ~Inside(vs, et, i) -> WithFault(c, "overrun")
         [] OTHER -> MemoryMapStore(c, FormatAddr(addr),
                        SetData(vd, et, ArithOp(et, op, GetData(vd, et, idx), GetData(vs, et, i)),
                                idx))
AmoElement(c, op, vs, t, addr, i) ==
    AmoUpdate(c, op, vs, t, addr,
              AmoTarget(c, vs, MapLoad(GetMemoryMap(c, addr), FormatAddr(addr))), i)

\* VAMO...EI8 ... EI64: the elements the mask selects, all without one, in
\* index order.
VectorAmo(c, inst) ==
    LET offsets == Vs(c, inst, 1)
        vs == Vs(c, inst, 2)
        t == offsets.m_type
        vmask == SetType(IF Present(inst, 3) THEN Vs(c, inst, 3)
                         ELSE SetVmasks(Vd(c), Lanes(Vd(c)), LAMBDA i : TRUE), "VMASK")
        S == Selected(vmask, Lanes(offsets))
    IN CASE \E v \in {offsets, vs, vmask} : Faulty(v) ->
                WithFault(c, (CHOOSE v \in {offsets, vs, vmask} : Faulty(v)).fault)
         [] ~MaskInside(vmask, Lanes(offsets)) -> WithFault(c, "overrun")
         [] S # {} /\ t \notin {"INT64", "INT32", "INT16", "UINT8"} -> WithFault(c, "throw")
         [] ~ReadsInside(offsets, t, S) -> WithFault(c, "overrun")
         [] OTHER -> FoldLeft(LAMBDA d, i : AmoElement(d, GetArithOp(inst.opcode), vs, t,
                                                       Xs(c, inst, 0) + GetData(offsets, t, i), i),
                              c, Sorted(S))

\* The elements VLUXEI and VSUXEI visit: those whose mask bit is set when the
\* mask operand says it is a mask.  Without a mask operand it is a default
\* vector whose type was never set.
Visited(vm, S) == IF vm.m_type = "VMASK" THEN Selected(vm, S) ELSE S

\* VLUXEI32, VLUXEI64: gather.  The index vector holds byte offsets.
Gather(c, inst) ==
    LET words == inst.opcode = "VLUXEI32"
        t == IF words THEN "INT32" ELSE "INT64"
        v == Vs(c, inst, 2)
        vm == Vs(c, inst, 3)
        all == 0 .. (IF words THEN PacketEntries
                     ELSE ((PACKET_SIZE * c.csr.vlmul) \div 8) \div DOUBLE_SIZE) - 1
        at(i) == Addr(c, inst) + GetData(v, t, i)
        put(i, vd) ==
            LET line == MemoryMapLoad(c, at(i)) IN
            CASE Faulty(vd) \/ Faulty(line) -> FaultOf({<<vd>>, <<line>>})
              [] ~words /\ line.m_type # "INT64" -> Fault("assert")
              [] line.m_type \in (IF words THEN {"FLOAT32", "INT32"} ELSE {"INT64"}) ->
                    SetData(vd, line.m_type,
                            GetData(line, line.m_type, (at(i) % PACKET_SIZE) \div SizeOf(t)), i)
              [] OTHER -> vd
        vd == FoldSet(put, Vd(c), Visited(vm, all))
    IN CASE Faulty(v) \/ Faulty(vm) -> WithFault(c, FaultOf({<<v>>, <<vm>>}).fault)
         [] ~ReadsInside(v, t, all) -> WithFault(c, "overrun")
         [] words /\ ~Faulty(vd) /\ vd.m_type \notin {"INT32", "FLOAT32"} -> WithFault(c, "assert")
         [] OTHER -> WriteVreg(c, inst.dest, vd)

\* VSUXEI32: scatter, word by word; a packet that is not there is made.
Scatter(c, inst) ==
    LET v == Vs(c, inst, 2)
        vm == Vs(c, inst, 3)
        vd == ReadVreg(c, inst.dest)
        t == vd.m_type
        all == 0 .. PacketEntries - 1
        put(d, i) ==
            LET at == Addr(c, inst) + GetData(v, "INT32", i)
                line == IF CheckMemoryMap(d, at) THEN MemoryMapLoad(d, at) ELSE Vd(c)
            IN IF d.fault # "none" THEN d
               ELSE MemoryMapStore(d, at, SetData(line, t, GetData(vd, t, i),
                                                  (at % PACKET_SIZE) \div WORD_SIZE))
    IN CASE \E u \in {v, vm, vd} : Faulty(u) ->
                WithFault(c, (CHOOSE u \in {v, vm, vd} : Faulty(u)).fault)
         [] ~ReadsInside(v, "INT32", all) -> WithFault(c, "overrun")
         [] Visited(vm, all) # {} /\ t \notin {"FLOAT32", "INT32"} -> WithFault(c, "throw")
         [] ~ReadsInside(vd, t, Visited(vm, all)) -> WithFault(c, "overrun")
         [] OTHER -> FoldLeft(put, c, Sorted(Visited(vm, all)))

-----------------------------------------------------------------------------
\* Opcodes whose result is a vector, and the others.
VectorResult(c, inst) ==
    LET op == inst.opcode IN
    CASE op \in {"VADD", "VFADD"} -> Add(c, inst)
      [] op \in {"VSUB", "VFSUB"} -> Subtract(c, inst)
      [] op = "VFWSUB" -> WidenSub(c, inst)
      [] op \in {"VRSUB", "VFRSUB"} -> ReverseSub(c, inst)
      [] op \in {"VMUL", "VFMUL"} -> Multiply(c, inst)
      [] op = "VFWMUL" -> WidenMul(c, inst)
      [] op \in {"VDIV", "VFDIV"} -> Divide(c, inst)
      [] op = "VFRDIV" -> ReverseDiv(c, inst)
      [] op = "VSLL" -> ShiftLeft(c, inst)
      [] op = "VSRL" -> ShiftRight(c, inst)
      [] op = "VNADD" -> NarrowAdd(c, inst)
      [] op = "VMV" -> MoveToVector(c, inst)
      [] op = "VID" -> Vid(c)
      [] op = "VMSET" -> MaskSet(c)
      [] op \in vmask_ops -> Compare(c, inst)
      [] op \in {"VMAND", "VMOR"} -> MaskLogic(c, inst)
      [] op = "VAND" -> VectorAnd(c, inst)
      [] op = "VOR" -> VectorOr(c, inst)
      [] op \in {"VMIN", "VMAX"} -> MinMax(c, inst)
      [] op = "VCOMPRESS" -> Compress(c, inst)
      [] op = "VSLIDE1DOWN" -> SlideOneDown(c, inst)
      [] op = "VSLIDE1UP" -> SlideOneUp(c, inst)
      [] op = "VSLIDEDOWN" -> SlideDown(c, inst)
      [] op \in {"VFMACC", "VFMSUB"} -> MultiplyAdd(c, inst)
      [] op = "VFWMACC" -> WidenMacc(c, inst)
      [] op \in {"VFNCVT", "VFCVT", "VFWCVT"} -> FConvert(c, inst)
      [] op = "VFSQRT" -> Sqrt(c, inst)
      [] op = "VFEXP" -> FExponent(c, inst)
      [] op \in {"VFSGNJ", "VFSGNJN", "VFSGNJX"} -> SignInject(c, inst)
      [] op \in {"VFREDOMAX", "VFREDOSUM"} -> FReduce(c, inst)
      [] op \in {"VREDSUM", "VREDMAX"} -> ReduceSumMax(c, inst)
      [] op = "VREDMIN" -> ReduceMin(c, inst)
      [] op = "VREDOR" -> ReduceOr(c, inst)
      [] op \in UnitLoads -> VectorLoad(c, inst)
      [] OTHER -> Throw

VectorEffect(c, inst) ==
    LET op == inst.opcode IN
    CASE op = "VSETVLI" -> Vsetvli(c, inst)
      [] op = "VMV" /\ inst.operand_type \in {"X_S", "S_X"} -> MoveElement(c, inst)
      [] op = "VFIRST" -> First(c, inst)
      [] op = "VLSSEG" -> SegmentLoad(c, inst)
      [] op = "VFMV" -> FMove(c, inst)
      [] op \in {"VWREDOSUM", "VWREDOMAX"} -> WidenReduce(c, inst)
      [] op \in UnitStores -> VectorStore(c, inst)
      [] op \in vector_amo_ops -> VectorAmo(c, inst)
      [] op \in {"VLUXEI32", "VLUXEI64"} -> Gather(c, inst)
      [] op = "VSUXEI32" -> Scatter(c, inst)
      [] op \in {"VSLIDEUP", "TEST"} \/ (op = "VSRL" /\ inst.operand_type # "VI") -> c
      [] OTHER -> WriteVreg(c, inst.dest, VectorResult(c, inst))

\* ExecuteVector ends by clearing vstart.
ExecuteVector(c, inst) == [VectorEffect(c, inst) EXCEPT !.csr.vstart = 0]

-----------------------------------------------------------------------------
\* Two-operand integer and float arithmetic; an integer division by zero traps.
ScalarArith(c, inst) ==
    LET op == inst.opcode
        a == Xs(c, inst, 0)
        b == IF op \in {"ADDI", "MULI", "SLLI", "SRLI", "ANDI", "ORI"}
             THEN inst.src[1] ELSE Xs(c, inst, 1)
    IN IF op \in {"DIV", "REM"} /\ b = 0 THEN WithFault(c, "trap")
       ELSE WriteXreg(c, inst.dest,
            CASE op \in {"ADD", "ADDI"} -> a + b
              [] op = "SUB" -> a - b
              [] op \in {"MUL", "MULI"} -> a * b
              [] op \in {"SLL", "SLLI"} -> Shl(a, b)
              [] op \in {"SRL", "SRLI"} -> Shr(a, b)
              [] op = "DIV" -> TruncDiv(a, b)
              [] op = "REM" -> a - b * TruncDiv(a, b)
              [] op \in {"AND", "ANDI"} -> BitAnd(a, b, DOUBLE_SIZE)
              [] op \in {"OR", "ORI"} -> BitOr(a, b, DOUBLE_SIZE))
FloatArith(c, inst) ==
    WriteFreg(c, inst.dest,
        Arith("FLOAT32",
              CASE inst.opcode = "FADD" -> "ADD" [] inst.opcode = "FSUB" -> "SUB"
                [] inst.opcode = "FDIV" -> "DIV" [] inst.opcode = "FMUL" -> "MUL",
              Fs(c, inst, 0), Fs(c, inst, 1)))

\* CSRWI, CSRW: only vstart can be written; CSRWI ignores other registers.
CsrWrite(c, inst) ==
    CASE inst.dest = REG_VSTART ->
            [c EXCEPT !.csr.vstart = IF inst.opcode = "CSRWI" THEN inst.src[0] ELSE Xs(c, inst, 0)]
      [] inst.opcode = "CSRWI" -> c
      [] OTHER -> WithFault(c, "throw")

\* LW, LD, FLW: the packet must have been stored with the type that is loaded.
ScalarLoad(c, inst) ==
    LET t == CASE inst.opcode = "LW" -> "INT32" [] inst.opcode = "LD" -> "INT64"
               [] inst.opcode = "FLW" -> "FLOAT32"
        line == MemoryMapLoad(c, Addr(c, inst))
        x == GetData(line, t, (Addr(c, inst) % PACKET_SIZE) \div SizeOf(t))
    IN CASE Faulty(line) -> WithFault(c, line.fault)
         [] line.m_type # t -> WithFault(c, "assert")
         [] t = "FLOAT32" -> WriteFreg(c, inst.dest, x)
         [] OTHER -> WriteXreg(c, inst.dest, x)

\* The packet at addr, or a fresh one.
PacketAt(c, addr) == IF CheckMemoryMap(c, addr) THEN MemoryMapLoad(c, addr) ELSE Vd(c)

\* SB, SW, SD, FSW: one element replaced; the packet takes the element's type.
ScalarStore(c, inst) ==
    LET t == CASE inst.opcode = "SB" -> "UINT8" [] inst.opcode = "SW" -> "INT32"
               [] inst.opcode = "SD" -> "INT64" [] inst.opcode = "FSW" -> "FLOAT32"
        x == IF t = "FLOAT32" THEN ReadFreg(c, inst.dest) ELSE ReadXreg(c, inst.dest)
        addr == Addr(c, inst)
    IN MemoryMapStore(c, addr, SetData(PacketAt(c, addr), t, x,
                                       (addr % PACKET_SIZE) \div SizeOf(t)))

\* AMOADD: the doubleword form adds longs, truncates the sum to an int and
\* stores a word at the doubleword's index.  dest receives the new value.
ScalarAmo(c, inst) ==
    LET t == IF inst.operand_type = "W" THEN "INT32" ELSE "INT64"
        addr == Xs(c, inst, 2)
        line == PacketAt(c, addr)
        i == (addr % PACKET_SIZE) \div SizeOf(t)
        value == CastTo("INT32", GetData(line, t, i) + Xs(c, inst, 1))
    IN CASE Faulty(line) -> WithFault(c, line.fault)
         [] inst.operand_type \notin {"W", "D"} -> WithFault(c, "throw")
         [] ~Inside(line, t, i) -> WithFault(c, "overrun")
         [] OTHER -> WriteXreg(MemoryMapStore(c, addr, SetData(line, "INT32", value, i)),
                               inst.dest, value)

\* FAMOADD, FAMOADDH.
FloatAmo(c, inst) ==
    LET t == IF inst.opcode = "FAMOADD" /\ inst.operand_type = "W" THEN "FLOAT32" ELSE "FLOAT16"
        addr == Xs(c, inst, 2)
        line == PacketAt(c, addr)
        i == (addr % PACKET_SIZE) \div SizeOf(t)
        value == GetData(line, t, i) + Fs(c, inst, 1)
    IN CASE Faulty(line) -> WithFault(c, line.fault)
         [] OTHER -> WriteFreg(MemoryMapStore(c, addr, SetData(line, t, value, i)),
                               inst.dest, value)

\* FMV converts (it does not move bits); LBU takes the low byte of a register.
ScalarMove(c, inst) ==
    CASE inst.opcode = "LI" -> WriteXreg(c, inst.dest, inst.src[0])
      [] inst.opcode = "LBU" -> WriteXreg(c, inst.dest, CastTo("CHAR8", Xs(c, inst, 0)))
      [] inst.opcode = "FEXP" -> WriteFreg(c, inst.dest, FExp(Fs(c, inst, 0)))
      [] inst.operand_type = "X_W" -> WriteXreg(c, inst.dest, CastTo("INT32", Fs(c, inst, 0)))
      [] inst.operand_type = "W_X" -> WriteFreg(c, inst.dest, Xs(c, inst, 0))
      [] OTHER -> c

ExecuteScalar(c, inst) ==
    LET op == inst.opcode IN
    CASE op \in {"ADD", "ADDI", "SUB", "MUL", "MULI", "SLL", "SLLI", "SRL", "SRLI", "DIV", "REM",
                 "AND", "ANDI", "OR", "ORI"} -> ScalarArith(c, inst)
      [] op \in {"FADD", "FSUB", "FDIV", "FMUL"} -> FloatArith(c, inst)
      [] op \in {"CSRWI", "CSRW"} -> CsrWrite(c, inst)
      [] op \in {"LW", "LD", "FLW"} -> ScalarLoad(c, inst)
      [] op \in {"SB", "SW", "SD", "FSW"} -> ScalarStore(c, inst)
      [] op = "AMOADD" -> ScalarAmo(c, inst)
      [] op \in {"FAMOADD", "FAMOADDH"} -> FloatAmo(c, inst)
      [] op \in {"LI", "LBU", "FMV", "FEXP"} -> ScalarMove(c, inst)
      [] op = "AMOMAX" -> c
      [] OTHER -> WithFault(c, "throw")

-----------------------------------------------------------------------------
BranchTest(op) == CASE op \in {"BEQ", "BEQZ"} -> "EQ" [] op \in {"BLT", "BLTZ"} -> "LT"
                    [] op \in {"BGT", "BGTZ"} -> "GT" [] op \in {"BLE", "BLEZ"} -> "LE"
                    [] op \in {"BGE", "BGEZ"} -> "GE" [] op \in {"BNE", "BNEZ"} -> "NE"
ExecuteBranch(c, inst) ==
    LET rhs == IF inst.opcode \in {"BEQ", "BLT", "BGT", "BLE", "BGE", "BNE"}
               THEN Xs(c, inst, 1) ELSE 0
    IN [c EXCEPT !.doBranch = \/ inst.opcode = "J"
                              \/ LogicalOperate(BranchTest(inst.opcode), Xs(c, inst, 0), rhs)]

\* IsBranch: the label a taken branch goes to, or -1.
IsBranch(c, inst) == IF inst.opcode \in branch_ops /\ c.doBranch THEN inst.src[2] ELSE -1

Execute(c, inst) ==
    CASE inst.opcode = "EXIT" -> c
      [] inst.opcode \in branch_ops -> ExecuteBranch(c, inst)
      [] inst.opcode \in csr_ops \cup vector_ops \cup seg_ops -> ExecuteVector(c, inst)
      [] OTHER -> ExecuteScalar(c, inst)
=============================================================================

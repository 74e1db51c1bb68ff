---------------------------- MODULE MCFunctional ----------------------------
(***************************************************************************)
(* Kernels on small data for FunctionalRun, each with its reference result *)
(* written down independently of the instructions.                         *)
(***************************************************************************)
EXTENDS FunctionalRun

\* Traces.
Inst(op, ty, args) == [k |-> "INST", op |-> op, ty |-> ty, args |-> args, seg |-> 0]
Mark(kind) == [k |-> kind]
Label(kind, n) == [k |-> kind, n |-> n]
x(n) == <<"x", n>>
f(n) == <<"f", n>>
v(n) == <<"v", n>>
k(n) == <<"imm", n>>
at(n, base) == <<"mem", n, base>>
vsetvli(sew, lmul) ==
    Inst("VSETVLI", "NONE", <<k(0), k(0), <<"e", sew>>, <<"m", lmul>>, k(0)>>)
Arg(reg, i) == << Inst("LI", "NONE", <<x(reg), k(SCRATCHPAD_BASE)>>),
                  Inst("LD", "NONE", <<x(reg), at(8 * i, x(reg))>>) >>

\* Files and launches.
Line(addr, type, values) ==
    [addr |-> addr, type |-> type, values |-> [i \in 0 .. LineElements(type) - 1 |-> values[i + 1]]]
LaunchLine(base, size, smem, args) ==
    [base_addr |-> base, size |-> size, smem_size |-> smem, arg_size |-> 8 * Len(args),
     args |-> args, fp32 |-> FALSE, float_args |-> <<>>]
FloatLaunchLine(base, size, smem, args, floats) ==
    [LaunchLine(base, size, smem, args) EXCEPT !.arg_size = 8 * (Len(args) + Len(floats)),
                                               !.fp32 = TRUE, !.float_args = floats]

\* The targets that differ from file in one element of one line, by 2 or more.
\* For a float of 200 and above, 2 is within one percent.
Perturbed(file) ==
    UNION {{[file EXCEPT ![n].values[i] = @ + d] : i \in 0 .. LineElements(file[n].type) - 1, d \in {-3, 2}} :
             n \in DOMAIN file}
Job(trace, launches, file, target) ==
    [trace |-> trace, launches |-> launches, memory_file |-> file, target_file |-> target,
     wrong_files |-> Perturbed(target)]

In1 == 64
In2 == 128
Out == 256
At(base, i) == base + 16 * i

\* examples/benchmarks vector addition: c[i] = a[i] + b[i], one packet a uthread.
VectorAdd ==
    Job(<<Mark("INITIALIZER"), Mark("KERNELBODY"), vsetvli(32, 8)>>
          \o Arg(3, 0) \o Arg(4, 1)
          \o << Inst("ADD", "NONE", <<x(3), x(3), <<"OFFSET">> >>),
                Inst("ADD", "NONE", <<x(4), x(4), x(2)>>),
                Inst("VLE32", "V", <<v(1), at(0, <<"ADDR">>)>>),
                Inst("VLE32", "V", <<v(2), at(0, x(3))>>),
                Inst("VADD", "VV", <<v(3), v(1), v(2)>>),
                Inst("VSE32", "V", <<v(3), at(0, x(4))>>),
                Mark("FINALIZER") >>,
        << LaunchLine(In1, 32, 32, <<In2, Out>>) >>,
        << Line(At(In1, 0), "INT32", <<1, 2, 3, 4>>), Line(At(In1, 1), "INT32", <<5, 6, 7, 8>>),
           Line(At(In2, 0), "INT32", <<10, 20, 30, 40>>), Line(At(In2, 1), "INT32", <<50, 60, 70, -80>>) >>,
        << Line(At(Out, 0), "INT32", <<11, 22, 33, 44>>),
           Line(At(Out, 1), "INT32", <<55, 66, 77, -72>>) >>)

\* examples/benchmarks histogram: every packet adds its values' low two bits
\* to four counters in the scratchpad, which the finalizer adds to memory in a
\* loop.
Histogram ==
    LET counts == SCRATCHPAD_BASE + 16
    IN Job(<< Mark("INITIALIZER"), Inst("LI", "NONE", <<x(5), k(counts)>>),
              Inst("VMV", "V_I", <<v(1), k(0)>>), Inst("VSE32", "V", <<v(1), at(0, x(5))>>),
              Mark("KERNELBODY"), Inst("LI", "NONE", <<x(5), k(counts)>>),
              Inst("VLE32", "V", <<v(1), at(0, <<"ADDR">>)>>), Inst("VMV", "V_I", <<v(2), k(1)>>),
              Inst("VAND", "VI", <<v(3), v(1), k(3)>>), Inst("VMUL", "VI", <<v(3), v(3), k(4)>>),
              Inst("VAMOADDEI32", "V", <<x(0), at(0, x(5)), v(3), v(2)>>),
              Mark("FINALIZER"), Inst("LI", "NONE", <<x(3), k(counts)>>) >> \o Arg(4, 0)
             \o << Inst("VMSET", "M", <<v(0)>>), Inst("VID", "V", <<v(1), v(0)>>),
                   Inst("VMUL", "VI", <<v(1), v(1), k(4)>>),
                   Label("LOOP", 1), Inst("VLE32", "V", <<v(2), at(0, x(3))>>),
                   Inst("VAMOADDEI32", "V", <<x(0), at(0, x(4)), v(1), v(2)>>),
                   Inst("ADDI", "NONE", <<x(3), x(3), k(16)>>),
                   Inst("LI", "NONE", <<x(6), k(counts + 16)>>),
                   Inst("BLT", "NONE", <<x(3), x(6), <<"LOOP", 1>> >>) >>,
           << LaunchLine(In1, 48, 48, <<Out>>) >>,
           << Line(At(In1, 0), "INT32", <<0, 1, 2, 15>>), Line(At(In1, 1), "INT32", <<5, 5, 5, 5>>),
              Line(At(In1, 2), "INT32", <<3, 12, 9, 6>>), Line(Out, "INT32", <<0, 0, 0, 100>>) >>,
           << Line(Out, "INT32", <<2, 6, 2, 102>>) >>)

-----------------------------------------------------------------------------
\* A sweep: one uthread, a prelude, then for each case some instructions that
\* leave a result in the named register, stored in a packet of its own.
Case(insts, reg, type, values) == [insts |-> insts, reg |-> reg, type |-> type, values |-> values]
Sweep(prelude, store, cases, file) ==
    LET put(n) == cases[n].insts \o << Inst(store, "V", <<v(cases[n].reg), at(16 * (n - 1), x(9))>>) >>
    IN Job(<< Mark("INITIALIZER"), Mark("KERNELBODY") >> \o prelude
             \o << Inst("LI", "NONE", <<x(9), k(Out)>>) >>
             \o FlattenSeq([n \in DOMAIN cases |-> put(n)]) \o <<Mark("FINALIZER")>>,
           << LaunchLine(In1, 16, 16, <<Out>>) >>, file,
           [n \in DOMAIN cases |-> Line(At(Out, n - 1), cases[n].type, cases[n].values)])
\* v1 is the packet of the request, v2 the one at In2.
Operands(op) == << Inst(op, "V", <<v(1), at(0, <<"ADDR">>)>>), Inst(op, "V", <<v(2), at(In2 - In1, <<"ADDR">>)>>) >>
One(op, ty, args, type, values) == Case(<<Inst(op, ty, <<v(3)>> \o args)>>, 3, type, values)

\* Words: A = 1 -2 3 10, B = 4 5 -6 2, x5 = 3.
WordOps(cases) ==
    Sweep(<<vsetvli(32, 8)>> \o Operands("VLE32")
            \o << Inst("LI", "NONE", <<x(5), k(3)>>), Inst("VMSET", "M", <<v(0)>>) >>, "VSE32", cases,
          << Line(In1, "INT32", <<1, -2, 3, 10>>), Line(In2, "INT32", <<4, 5, -6, 2>>) >>)
AB == <<v(1), v(2)>>
AX == <<v(1), x(5)>>
WordOp(op, ty, args, values) == One(op, ty, args, "INT32", values)
Sums == WordOps(
    << WordOp("VADD", "VV", AB, <<5, 3, -3, 12>>), WordOp("VADD", "VX", AX, <<4, 1, 6, 13>>),
       WordOp("VADD", "VI", <<v(1), k(-1)>>, <<0, -3, 2, 9>>), WordOp("VSUB", "VV", AB, <<-3, -7, 9, 8>>),
       WordOp("VSUB", "VI", <<v(1), k(1)>>, <<0, -3, 2, 9>>), WordOp("VSUB", "VX", AX, <<-2, -5, 0, 7>>),
       WordOp("VMUL", "VV", AB, <<4, -10, -18, 20>>), WordOp("VMUL", "VX", AX, <<3, -6, 9, 30>>) >>)
Quotients == WordOps(
    << WordOp("VDIV", "VV", <<v(2), v(1)>>, <<4, -2, -2, 0>>),
       WordOp("VDIV", "VX", <<v(2), x(5)>>, <<1, 1, -2, 0>>),
       WordOp("VSLL", "VI", <<v(1), k(2)>>, <<4, -8, 12, 40>>), WordOp("VSLL", "VX", AX, <<8, -16, 24, 80>>),
       WordOp("VSRL", "VI", <<v(1), k(1)>>, <<0, -1, 1, 5>>), WordOp("VAND", "VV", AB, <<0, 4, 2, 2>>),
       WordOp("VAND", "VI", <<v(1), k(7)>>, <<1, 6, 3, 2>>), WordOp("VMIN", "VV", AB, <<1, -2, -6, 2>>),
       WordOp("VMAX", "VV", AB, <<4, 5, 3, 10>>) >>)
Moves == WordOps(
    << WordOp("VMV", "V_V", <<v(2)>>, <<4, 5, -6, 2>>), WordOp("VMV", "V_I", <<k(-4)>>, <<-4, -4, -4, -4>>),
       WordOp("VMV", "V_X", <<x(5)>>, <<3, 3, 3, 3>>), WordOp("VID", "V", <<v(0)>>, <<0, 1, 2, 3>>),
       WordOp("VSLIDE1DOWN", "VX", AX, <<-2, 3, 10, 3>>), WordOp("VSLIDE1UP", "VX", AX, <<3, 1, -2, 3>>),
       WordOp("VSLIDEDOWN", "VI", <<v(1), k(1)>>, <<-2, 3, 10, 0>>) >>)
Reductions == WordOps(
    << WordOp("VREDSUM", "VS", AB, <<16, 0, 0, 0>>), WordOp("VREDMAX", "VS", AB, <<10, 0, 0, 0>>),
       WordOp("VREDOR", "VS", AB, <<1, 0, 0, 0>>) >>)

\* Masks: v4 = A < B = 1 1 0 0.
Masked == WordOps(
    << Case(<< Inst("VMSLT", "VV", <<v(4), v(1), v(2)>>), Inst("VMV", "V_V", <<v(3), v(1)>>),
               Inst("VMV", "V_I", <<v(3), k(7), v(4)>>) >>, 3, "INT32", <<7, 7, 3, 10>>),
       Case(<< Inst("VMSGT", "VX", <<v(5), v(1), x(5)>>), Inst("VMOR", "MM", <<v(6), v(4), v(5)>>),
               Inst("VCOMPRESS", "VM", <<v(3), v(1), v(6)>>) >>, 3, "INT32", <<1, -2, 10, 0>>),
       Case(<< Inst("VMAND", "MM", <<v(7), v(4), v(5)>>), Inst("VFIRST", "M", <<x(6), v(7)>>),
               Inst("VMV", "V_X", <<v(3), x(6)>>) >>, 3, "INT32", <<-1, -1, -1, -1>>),
       Case(<< Inst("VFIRST", "M", <<x(6), v(5)>>), Inst("VMV", "S_X", <<v(3), x(6)>>) >>,
            3, "INT32", <<3, -1, -1, -1>>),
       Case(<< Inst("VREDMIN", "VS", <<v(3), v(1), v(2), v(6)>>) >>, 3, "INT32", <<-2, 0, 0, 0>>),
       Case(<< Inst("VOR", "VV", <<v(3), v(1), v(2), v(4)>>) >>, 3, "INT32", <<1, 0, 0, 0>>) >>)

\* Gather and scatter through byte offsets, and a word atomic maximum.
Permute == WordOps(
    << Case(<< Inst("LI", "NONE", <<x(7), k(In1)>>), Inst("VID", "V", <<v(4), v(0)>>),
               Inst("VSLIDE1UP", "VX", <<v(4), v(4), x(5)>>), Inst("VMUL", "VI", <<v(4), v(4), k(4)>>),
               Inst("VLUXEI32", "V", <<v(3), at(0, x(7)), v(4), v(0)>>) >>,
            3, "INT32", <<10, 1, -2, 3>>),
       Case(<< Inst("LI", "NONE", <<x(8), k(At(Out, 8))>>),
               Inst("VSUXEI32", "V", <<v(3), at(0, x(8)), v(4), v(0)>>),
               Inst("VLE32", "V", <<v(5), at(0, x(8))>>) >>, 5, "INT32", <<1, -2, 3, 10>>),
       Case(<< Inst("VAMOMAXEI32", "V", <<x(0), at(0, x(8)), v(4), v(2)>>),
               Inst("VLE32", "V", <<v(5), at(0, x(8))>>) >>, 5, "INT32", <<5, -2, 3, 10>>) >>)

\* Groups of two registers: 8 words in two packets.
Groups ==
    LET store(n) == << Inst("LI", "NONE", <<x(9), k(At(Out, n))>>), Inst("VSE32", "V", <<v(3), at(0, x(9))>>) >>
    IN Job(<<Mark("INITIALIZER"), Mark("KERNELBODY"), vsetvli(32, 16)>> 
             \o << Inst("VLE32", "V", <<v(1), at(0, <<"ADDR">>)>>), Inst("VADD", "VI", <<v(3), v(1), k(1)>>) >> \o store(0)
             \o << Inst("VADD", "VV", <<v(3), v(1), v(3)>>) >> \o store(2)
             \o << Inst("VMV", "V_I", <<v(3), k(6)>>) >> \o store(4) \o <<Mark("FINALIZER")>>,
           << LaunchLine(In1, 16, 16, <<Out>>) >>,
           << Line(At(In1, 0), "INT32", <<1, 2, 3, 4>>), Line(At(In1, 1), "INT32", <<5, 6, 7, 8>>) >>,
           << Line(At(Out, 0), "INT32", <<2, 3, 4, 5>>), Line(At(Out, 1), "INT32", <<6, 7, 8, 9>>),
              Line(At(Out, 2), "INT32", <<3, 5, 7, 9>>), Line(At(Out, 3), "INT32", <<11, 13, 15, 17>>),
              Line(At(Out, 4), "INT32", <<6, 6, 6, 6>>), Line(At(Out, 5), "INT32", <<6, 6, 6, 6>>) >>)

\* Floats (whole numbers): A = 4 -9 16 1, B = 2 3 -4 1, f1 = 2.
FloatOps(cases) ==
    Sweep(<<vsetvli(32, 8)>> \o Operands("VLE32")
            \o << Inst("FLW", "NONE", <<f(1), at(In2 - In1, <<"ADDR">>)>>) >>, "VSE32", cases,
          << Line(In1, "FLOAT32", <<4, -9, 16, 1>>), Line(In2, "FLOAT32", <<2, 3, -4, 1>>) >>)
FloatOp(op, ty, args, values) == One(op, ty, args, "FLOAT32", values)
AF == <<v(1), f(1)>>
FloatSums == FloatOps(
    << FloatOp("VFADD", "VV", AB, <<6, -6, 12, 2>>), FloatOp("VFADD", "VF", AF, <<6, -7, 18, 3>>),
       FloatOp("VFSUB", "VV", AB, <<2, -12, 20, 0>>), FloatOp("VFSUB", "VF", AF, <<2, -11, 14, -1>>),
       FloatOp("VFMUL", "VV", AB, <<8, -27, -64, 1>>), FloatOp("VFMUL", "VF", AF, <<8, -18, 32, 2>>),
       FloatOp("VFDIV", "VV", AB, <<2, -3, -4, 1>>),
       Case(<< Inst("LI", "NONE", <<x(5), k(12)>>), Inst("FMV", "W_X", <<f(2), x(5)>>),
               Inst("VFRDIV", "VF", <<v(3), v(2), f(2)>>) >>, 3, "FLOAT32", <<6, 4, -3, 12>>) >>)
FloatMoves == FloatOps(
    << FloatOp("VMV", "V_V", <<v(1)>>, <<4, -9, 16, 1>>),
       FloatOp("VFMACC", "VV", AB, <<12, -36, -48, 2>>), FloatOp("VFMACC", "VF", AF, <<20, -54, -16, 4>>),
       FloatOp("VFMSUB", "VV", AB, <<78, 483, -252, 3>>),
       FloatOp("VFMV", "V_F", <<f(1)>>, <<2, 2, 2, 2>>),
       Case(<< Inst("VFMV", "F_S", <<f(2), v(1)>>), Inst("VFMV", "S_F", <<v(3), f(2)>>) >>,
            3, "FLOAT32", <<4, 2, 2, 2>>),
       FloatOp("VMAX", "VV", AB, <<4, 3, 16, 1>>) >>)
FloatFunctions == FloatOps(
    << FloatOp("VFSGNJ", "VV", AB, <<4, 9, -16, 1>>), FloatOp("VFSGNJN", "VV", AB, <<-4, -9, 16, -1>>),
       FloatOp("VFSGNJX", "VV", AB, <<4, -9, -16, 1>>), FloatOp("VFSGNJN", "VF", AF, <<-4, -9, -16, -1>>),
       FloatOp("VFEXP", "V", <<v(2)>>, <<3, 4, -3, 2>>),
       Case(<< Inst("VFMUL", "VV", <<v(3), v(1), v(1)>>), Inst("VFSQRT", "V", <<v(3), v(3)>>) >>,
            3, "FLOAT32", <<4, 9, 16, 1>>),
       FloatOp("VFREDOSUM", "VS", AB, <<14, 0, 0, 0>>), FloatOp("VFREDOMAX", "VS", AB, <<16, 0, 0, 0>>),
       One("VFCVT", "X_F_V", <<v(1)>>, "INT32", <<4, -9, 16, 1>>) >>)

\* Longs: A = 5 -7, B = 300 2.
LongOps ==
    LET long(op, ty, args, values) == One(op, ty, args, "INT64", values)
    IN Sweep(<<vsetvli(64, 8)>> \o Operands("VLE64")
               \o << Inst("LI", "NONE", <<x(5), k(3)>>), Inst("VMSET", "M", <<v(0)>>) >>, "VSE64",
             << long("VADD", "VV", AB, <<305, -5>>), long("VADD", "VX", AX, <<8, -4>>),
                long("VMUL", "VI", <<v(2), k(8)>>, <<2400, 16>>), long("VSLL", "VX", <<v(2), x(5)>>, <<2400, 16>>),
                long("VREDSUM", "VS", AB, <<298, 0>>),
                Case(<< Inst("VID", "V", <<v(4), v(0)>>), Inst("VSLIDE1UP", "VX", <<v(4), v(4), x(5)>>),
                        Inst("VAND", "VI", <<v(4), v(4), k(1)>>), Inst("VMUL", "VI", <<v(4), v(4), k(8)>>),
                        Inst("VLUXEI64", "V", <<v(3), at(0, <<"ADDR">>), v(4), v(0)>>) >>,
                     3, "INT64", <<-7, 5>>),
                One("VNADD", "WX", AX, "INT32", <<8, -4, 0, 0>>) >>,
             << Line(In1, "INT64", <<5, -7>>), Line(In2, "INT64", <<300, 2>>) >>)

\* Halves, widened to floats in two registers and narrowed again:
\* A = 1 2 3 4 -1 -2 -3 -4, B = 2 2 2 2 3 3 3 3, f1 = 2.
Store(op, reg, n) == Inst(op, "V", <<v(reg), at(16 * n, x(9))>>)
Halves ==
    LET A == <<1, 2, 3, 4, -1, -2, -3, -4>>
        B == <<2, 2, 2, 2, 3, 3, 3, 3>>
        two(n, g(_)) == << Line(At(Out, n), "FLOAT32", [i \in 1 .. 4 |-> g(i)]),
                           Line(At(Out, n + 1), "FLOAT32", [i \in 1 .. 4 |-> g(i + 4)]) >>
    IN Job(<<Mark("INITIALIZER"), Mark("KERNELBODY"), vsetvli(16, 8)>> \o Operands("VLE16")
             \o << Inst("LI", "NONE", <<x(5), k(2)>>), Inst("FMV", "W_X", <<f(1), x(5)>>),
                   Inst("LI", "NONE", <<x(9), k(Out)>>),
                   Inst("VFADD", "VV", <<v(3), v(1), v(2)>>), Store("VSE16", 3, 0),
                   Inst("VWREDOSUM", "VS", <<v(7), v(1), v(2)>>), Store("VSE32", 7, 1),
                   Inst("VFWMUL", "VV", <<v(4), v(1), v(2)>>), Inst("VFWMACC", "VF", <<v(4), v(1), f(1)>>),
                   Inst("VFWCVT", "F_F_V", <<v(5), v(1)>>), Inst("VFWSUB", "VF", <<v(6), v(1), f(1)>>),
                   vsetvli(32, 16), Store("VSE32", 4, 2), Store("VSE32", 5, 4), Store("VSE32", 6, 6),
                   Inst("VFNCVT", "F_F_W", <<v(8), v(5)>>), vsetvli(16, 8), Store("VSE16", 8, 8),
                   Mark("FINALIZER") >>,
           << LaunchLine(In1, 16, 16, <<Out>>) >>,
           << Line(In1, "FLOAT16", A), Line(In2, "FLOAT16", B) >>,
           << Line(Out, "FLOAT16", [i \in 1 .. 8 |-> A[i] + B[i]]), Line(At(Out, 1), "FLOAT32", <<2, 0, 0, 0>>) >>
             \o two(2, LAMBDA i : A[i] * B[i] + A[i] * 2) \o two(4, LAMBDA i : A[i])
             \o two(6, LAMBDA i : A[i] - 2) \o << Line(At(Out, 8), "FLOAT16", A) >>)

\* Bytes: a comparison read back as a byte of mask bits, and a segment load
\* through the word offsets 4 0 9 12.
Bytes ==
    LET A == <<0, 1, 2, 3, 4, 5, 6, 7, 7, 6, 5, 4, 3, 2, 1, 0>>
        segment(j) == [i \in 1 .. 16 |-> IF i <= 4 THEN A[<<4, 0, 9, 12>>[i] + j + 1] ELSE 0]
    IN Job(<<Mark("INITIALIZER"), Mark("KERNELBODY"), vsetvli(8, 8)>> \o Operands("VLE8")
             \o << Inst("LI", "NONE", <<x(9), k(Out)>>), Inst("LI", "NONE", <<x(7), k(In1)>>),
                   Inst("VMSEQ", "VI", <<v(3), v(1), k(1)>>), Inst("VMV", "X_S", <<x(6), v(3)>>),
                   Inst("SD", "NONE", <<x(6), at(0, x(9))>>),
                   [Inst("VLSSEG", "V", <<v(4), at(0, x(7)), v(2)>>) EXCEPT !.seg = 2],
                   Store("VSE8", 4, 1), Store("VSE8", 5, 2), Mark("FINALIZER") >>,
           << LaunchLine(In1, 16, 16, <<Out>>) >>,
           << Line(In1, "UINT8", A), Line(In2, "INT32", <<4, 0, 9, 12>>) >>,
           << Line(Out, "INT64", <<2, 0>>), Line(At(Out, 1), "UINT8", segment(0)),
              Line(At(Out, 2), "UINT8", segment(1)) >>)

\* Scalars: x5 = 13, x6 = -3, the results in longs.
Scalars(cases) ==
    LET put(n) == << cases[n][1], Inst("SD", "NONE", <<x(7), at(8 * (n - 1), x(9))>>) >>
        values == [n \in DOMAIN cases |-> cases[n][2]]
    IN Job(<<Mark("INITIALIZER"), Mark("KERNELBODY"), Inst("LI", "NONE", <<x(5), k(13)>>),
             Inst("LI", "NONE", <<x(6), k(-3)>>), Inst("LI", "NONE", <<x(9), k(Out)>>)>>
             \o FlattenSeq([n \in DOMAIN cases |-> put(n)]) \o <<Mark("FINALIZER")>>,
           << LaunchLine(In1, 16, 16, <<Out>>) >>, << Line(In1, "INT32", <<0, 0, 0, 0>>) >>,
           [m \in 1 .. Len(cases) \div 2 |->
                Line(At(Out, m - 1), "INT64", <<values[2 * m - 1], values[2 * m]>>)])
Scalar(op, args, value) == <<Inst(op, "NONE", <<x(7)>> \o args), value>>
XX == <<x(5), x(6)>>
ScalarOps == Scalars(
    << Scalar("ADD", XX, 10), Scalar("SUB", XX, 16), Scalar("MUL", XX, -39), Scalar("DIV", XX, -4),
       Scalar("REM", XX, 1), Scalar("AND", XX, 13), Scalar("OR", XX, -3), Scalar("LBU", <<x(5), k(0)>>, -3) >>)
ScalarImmediates == Scalars(
    << Scalar("ADDI", <<x(5), k(-1)>>, 12), Scalar("MULI", <<x(5), k(3)>>, 39),
       Scalar("SLLI", <<x(5), k(2)>>, 52), Scalar("SRLI", <<x(5), k(2)>>, 3),
       Scalar("ANDI", <<x(5), k(6)>>, 4), Scalar("ORI", <<x(5), k(2)>>, 15),
       Scalar("ADD", <<x(5), <<"NDPID">> >>, 13), Scalar("ADD", <<x(1), x(2)>>, In1) >>)

\* Scalar memory operations: word and float atomics, byte stores and vstart.
Atomics ==
    Job(<< Mark("INITIALIZER"), Mark("KERNELBODY"), Inst("LI", "NONE", <<x(5), k(13)>>),
           Inst("LI", "NONE", <<x(9), k(Out)>>), Inst("ADDI", "NONE", <<x(8), x(9), k(4)>>),
           Inst("AMOADD", "W", <<x(0), x(5), at(0, x(8))>>),
           Inst("LW", "NONE", <<x(6), at(4, x(9))>>), Inst("SW", "NONE", <<x(6), at(0, x(9))>>),
           Inst("FLW", "NONE", <<f(1), at(16, x(9))>>), Inst("FMUL", "NONE", <<f(2), f(1), f(1)>>),
           Inst("FEXP", "NONE", <<f(2), f(2)>>), Inst("FSW", "NONE", <<f(2), at(20, x(9))>>),
           Inst("ADDI", "NONE", <<x(8), x(9), k(24)>>), Inst("FAMOADD", "W", <<x(0), f(1), at(0, x(8))>>),
           Inst("FMV", "X_W", <<x(6), f(2)>>), Inst("SB", "NONE", <<x(6), at(33, x(9))>>),
           Inst("CSRWI", "NONE", << <<"vstart">>, k(2)>>), Inst("VMV", "V_I", <<v(1), k(9)>>),
           Inst("VMV", "X_S", <<x(7), v(1)>>), Inst("SD", "NONE", <<x(7), at(48, x(9))>>), Mark("FINALIZER") >>,
        << LaunchLine(In1, 16, 16, <<Out>>) >>,
        << Line(In1, "INT32", <<0, 0, 0, 0>>), Line(Out, "INT32", <<1, 2, 3, 4>>),
           Line(At(Out, 1), "FLOAT32", <<2, 0, 5, 0>>),
           Line(At(Out, 2), "UINT8", [i \in 1 .. 16 |-> 1]) >>,
        << Line(Out, "INT32", <<15, 15, 3, 4>>), Line(At(Out, 1), "FLOAT32", <<2, 5, 7, 0>>),
           Line(At(Out, 2), "UINT8", [i \in 1 .. 16 |-> IF i = 2 THEN 5 ELSE 1]),
           Line(At(Out, 3), "INT64", <<0, 0>>) >>)

\* A loop and a skipped instruction: a unit adds the float argument with its two
\* low bits set, and unit 0 another 100, to its packets.  Two launches.
Loops ==
    Job(<< Mark("INITIALIZER"), Mark("KERNELBODY"), Inst("LI", "NONE", <<x(3), k(SCRATCHPAD_BASE)>>),
           Inst("LD", "NONE", <<x(4), at(0, x(3))>>), Inst("FLW", "NONE", <<f(1), at(16, x(3))>>),
           Inst("FMV", "X_W", <<x(6), f(1)>>), Inst("ADD", "NONE", <<x(4), x(4), <<"OFFSET">> >>),
           Inst("LI", "NONE", <<x(5), k(2)>>), Label("LOOP", 1),
           Inst("OR", "NONE", <<x(6), x(6), x(5)>>), Inst("ADDI", "NONE", <<x(5), x(5), k(-1)>>),
           Inst("BNEZ", "NONE", <<x(5), <<"LOOP", 1>> >>),
           Inst("BNE", "NONE", << <<"NDPID">>, x(0), <<"SKIP", 1>> >>),
           Inst("ADDI", "NONE", <<x(6), x(6), k(100)>>), Label("SKIP", 1),
           Inst("VLE32", "V", <<v(1), at(0, <<"ADDR">>)>>), Inst("VADD", "VX", <<v(1), v(1), x(6)>>),
           Inst("VSE32", "V", <<v(1), at(0, x(4))>>), Mark("FINALIZER") >>,
        << FloatLaunchLine(In1, 32, 48, <<Out>>, <<4>>), FloatLaunchLine(At(In1, 1), 16, 48, <<At(Out, 2)>>, <<0>>) >>,
        << Line(At(In1, 0), "INT32", <<1, 2, 3, 4>>), Line(At(In1, 1), "INT32", <<5, 6, 7, 8>>) >>,
        << Line(At(Out, 0), "INT32", <<108, 109, 110, 111>>), Line(At(Out, 1), "INT32", <<12, 13, 14, 15>>),
           Line(At(Out, 2), "INT32", <<8, 9, 10, 11>>) >>)

MCJobs ==
    << VectorAdd, Histogram, Loops, Groups, Sums, Quotients, Moves, Reductions, Masked, Permute,
       FloatSums, FloatMoves, FloatFunctions, LongOps, Halves, Bytes, ScalarOps, ScalarImmediates,
       Atomics >>
MCExp(a) == a + 1
MCSqrt(a) == CHOOSE r \in 0 .. 50 : r * r <= a /\ (r + 1) * (r + 1) > a
MCGarbage == {"VMASK", "INT32"}
MCModes == {"functional", "timing"}
=============================================================================

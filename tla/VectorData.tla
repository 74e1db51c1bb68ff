----------------------------- MODULE VectorData -----------------------------
(***************************************************************************)
(* The vector registers of the simulator (vector_data.{h,cc}): a vector of *)
(* 32-bit union words, an element count m_vlen, an element type m_type and *)
(* the flag m_double_reg of a two-register group.  Elements are read and   *)
(* written through the union, so a word written as one type and read as    *)
(* another is reinterpreted, not converted; the model keeps the words.     *)
(*                                                                         *)
(* Two sizes are scaled.  A byte has ByteBits bits instead of 8, and a     *)
(* packet has PacketEntries words instead of 8; a word is still 4 bytes,   *)
(* a long two words.  A floating point number is an integer whose bit      *)
(* pattern differs from the integer's own, so that a float read as an      *)
(* integer is seen to be wrong.  The programs that are checked compute     *)
(* only whole floats; a quotient that is none has no value here.           *)
(*                                                                         *)
(* What the C++ does outside a vector's words, in an assert or in a throw  *)
(* ends the program: the result is then Fault(kind).                       *)
(***************************************************************************)
EXTENDS Integers, FiniteSetsExt, Bitwise

CONSTANTS
    ByteBits,        \* bits of a byte
    PacketEntries,   \* PACKET_ENTRIES: words of a packet
    FExp(_),         \* std::exp on the represented floats
    FSqrt(_)         \* std::sqrt on the represented floats

ASSUME SizesOK == ByteBits \in Nat \ {0} /\ PacketEntries \in {2, 4, 8}

HALF_SIZE == 2
WORD_SIZE == 4
DOUBLE_SIZE == 8
PACKET_SIZE == WORD_SIZE * PacketEntries
UNION_DATA_SIZE == WORD_SIZE * ByteBits

DataType == {"FLOAT16", "FLOAT32", "INT16", "INT32", "INT64",
             "UINT8", "CHAR8", "BOOL", "VMASK", "MAX_DataType"}
Floats == {"FLOAT16", "FLOAT32"}

\* The bytes an element of type t takes in the union.
SizeOf(t) == CASE t = "INT64" -> DOUBLE_SIZE
               [] t \in {"FLOAT32", "INT32"} -> WORD_SIZE
               [] t \in {"FLOAT16", "INT16"} -> HALF_SIZE
               [] OTHER -> 1

\* Two's complement in the given number of bytes.
Modulus(bytes) == 2 ^ (ByteBits * bytes)
Unsigned(x, bytes) == x % Modulus(bytes)
Signed(x, bytes) ==
    LET u == Unsigned(x, bytes) IN
    IF 2 * u >= Modulus(bytes) THEN u - Modulus(bytes) ELSE u

\* The bit pattern of a float: an odd multiple of its value, so 0 is 0.
FloatScale == 3
FloatUnscale ==
    [bytes \in {HALF_SIZE, WORD_SIZE} |->
        CHOOSE k \in 0 .. Modulus(bytes) - 1 : Unsigned(k * FloatScale, bytes) = 1]

\* A value of type t as the bits of its element, and back.
ToBits(t, x) ==
    CASE t \in Floats -> Unsigned(FloatScale * x, SizeOf(t))
      [] t = "BOOL" -> IF x = 0 THEN 0 ELSE 1
      [] OTHER -> Unsigned(x, SizeOf(t))
FromBits(t, b) ==
    CASE t \in Floats -> Signed(FloatUnscale[SizeOf(t)] * b, SizeOf(t))
      [] t \in {"UINT8", "BOOL"} -> b
      [] OTHER -> Signed(b, SizeOf(t))

-----------------------------------------------------------------------------
\* A vector of n zero words.  m_type is not initialised by the constructors:
\* g is what happens to be there.
Zeroes(g, vlen, n, double) ==
    [m_type |-> g, m_vlen |-> vlen, m_double_reg |-> double,
     m_data |-> [i \in 0 .. n - 1 |-> 0], fault |-> "none"]

Fault(kind) == [Zeroes("MAX_DataType", 0, 0, FALSE) EXCEPT !.fault = kind]
Faulty(v) == v.fault # "none"
FaultOf(srcs) == (CHOOSE s \in srcs : Faulty(s[1]))[1]
Words(v) == Cardinality(DOMAIN v.m_data)
RoundUp(n, s) == ((n + s - 1) \div s) * s

\* The constructors.  lmul is kept in eighths: 8 is m1, 16 is m2, 4 is mf2.
M1 == 8
M2 == 16
DefaultVector(g) == Zeroes(g, PacketEntries, PacketEntries, FALSE)
BoolVector(g, double) ==
    LET n == PacketEntries * (IF double THEN 2 ELSE 1) IN Zeroes(g, n, n, double)
SewVector(g, sew, lmul) ==
    Zeroes(g, (PACKET_SIZE * lmul) \div sew,
           RoundUp((PACKET_SIZE * lmul) \div (8 * WORD_SIZE), PacketEntries), lmul = M2)
CsrVector(g, csr) ==
    LET vlen == (PACKET_SIZE * csr.vlmul) \div csr.vsew IN
    Zeroes(g, vlen, RoundUp((vlen * csr.vsew) \div (8 * WORD_SIZE), PacketEntries),
           csr.vlmul = M2)

SetVectorDoubleReg(v) ==
    [v EXCEPT !.m_data = [i \in 0 .. 2 * PacketEntries - 1 |->
                              IF i \in DOMAIN v.m_data THEN v.m_data[i] ELSE 0],
              !.m_double_reg = TRUE]

-----------------------------------------------------------------------------
\* The word an element of the given size lives in, and its place in that word.
WordOf(size, i) == IF size = DOUBLE_SIZE THEN 2 * i + 1 ELSE (i * size) \div WORD_SIZE
PlaceOf(size, i) == Modulus(size * (i % (WORD_SIZE \div size)))

\* An access to element i stays inside the words of v.
Inside(v, t, i) == i >= 0 /\ WordOf(SizeOf(t), i) < Words(v)

\* GetFloatData ... GetBoolData: element i read through the union as type t.
\* A long is two words, the most significant first.
GetData(v, t, i) ==
    LET size == SizeOf(t)
        w == v.m_data[WordOf(size, i)] IN
    CASE ~Inside(v, t, i) -> 0
      [] size = DOUBLE_SIZE -> FromBits(t, v.m_data[2 * i] * Modulus(WORD_SIZE) + w)
      [] size = WORD_SIZE -> FromBits(t, w)
      [] OTHER -> FromBits(t, (w \div PlaceOf(size, i)) % Modulus(size))

\* The bits x put in element i of the words m.
PutBits(m, size, i, x) ==
    LET k == WordOf(size, i) IN
    IF size = DOUBLE_SIZE
    THEN [m EXCEPT ![k - 1] = x \div Modulus(WORD_SIZE), ![k] = x % Modulus(WORD_SIZE)]
    ELSE IF size = WORD_SIZE THEN [m EXCEPT ![k] = x]
    ELSE LET old == (m[k] \div PlaceOf(size, i)) % Modulus(size) IN
         [m EXCEPT ![k] = @ + (x - old) * PlaceOf(size, i)]

\* SetData: the asserted index, the tag it leaves, and the write.
IndexAsserted(v, t, i) ==
    /\ i >= 0
    /\ (IF SizeOf(t) >= WORD_SIZE THEN i ELSE (i * SizeOf(t)) \div WORD_SIZE) < v.m_vlen
SetData(v, t, x, i) ==
    CASE Faulty(v) -> v
      [] ~IndexAsserted(v, t, i) -> Fault("assert")
      [] ~Inside(v, t, i) -> Fault("overrun")
      [] OTHER -> [v EXCEPT !.m_type = t,
                            !.m_data = PutBits(@, SizeOf(t), i, ToBits(t, x))]

\* The loop "for i in S, SetData(f(i), i)" where each pass reads element i of
\* the vectors in srcs as the type paired with it.
Fill(v, t, S, f(_), srcs) ==
    CASE Faulty(v) -> v
      [] \E s \in srcs : Faulty(s[1]) -> FaultOf(srcs)
      [] \E i \in S : ~IndexAsserted(v, t, i) -> Fault("assert")
      [] \E i \in S : ~Inside(v, t, i) \/ \E s \in srcs : ~Inside(s[1], s[2], i)
            -> Fault("overrun")
      [] S = {} -> v
      [] OTHER -> [v EXCEPT !.m_type = t,
                            !.m_data = FoldSet(LAMBDA i, m :
                                PutBits(m, SizeOf(t), i, ToBits(t, f(i))), @, S)]
Lanes(v) == 0 .. v.m_vlen - 1
SetType(v, t) == IF Faulty(v) THEN v ELSE [v EXCEPT !.m_type = t]

\* Mask bits: SetVmask adds the bit, so a bit set twice carries into the next.
GetVmaskData(v, i) ==
    (v.m_data[i \div UNION_DATA_SIZE] \div 2 ^ (i % UNION_DATA_SIZE)) % 2 = 1
MaskInside(v, S) == \A i \in S : i >= 0 /\ i \div UNION_DATA_SIZE < Words(v)
SetVmasks(v, S, p(_)) ==
    IF Faulty(v) \/ S = {} THEN v
    ELSE IF ~MaskInside(v, S) THEN Fault("overrun")
    ELSE [v EXCEPT !.m_type = "VMASK",
                   !.m_data = FoldSet(LAMBDA i, m :
                       [m EXCEPT ![i \div UNION_DATA_SIZE] =
                           Unsigned(@ + 2 ^ (i % UNION_DATA_SIZE), WORD_SIZE)],
                       @, {i \in S : p(i)})]
GetVmaskAsByte(v, index) ==
    FoldSet(LAMBDA i, acc : acc + (IF GetVmaskData(v, i) THEN 2 ^ (i % ByteBits) ELSE 0),
            0, index .. index + ByteBits - 1)

\* AppendRegister (Append in the code) adds a register's words to its partner's;
\* Split cuts a group in two registers.
GroupWords(v) == v.m_vlen * (IF v.m_type = "INT64" THEN 2 ELSE 1)
AppendRegister(v, rhs) ==
    IF Faulty(v) \/ Faulty(rhs) THEN FaultOf({<<v>>, <<rhs>>})
    ELSE IF GroupWords(rhs) > Words(rhs) THEN Fault("overrun")
    ELSE IF v.m_double_reg THEN Fault("throw")
    ELSE [v EXCEPT !.m_data = [i \in 0 .. Words(v) + GroupWords(rhs) - 1 |->
                                  IF i < Words(v) THEN v.m_data[i]
                                  ELSE rhs.m_data[i - Words(v)]],
                   !.m_vlen = @ + rhs.m_vlen,
                   !.m_double_reg = TRUE]

\* Split: the words of a group, half to each register.
Split(v) ==
    LET iter == GroupWords(v)
        half(from, n) ==
            [m_type |-> v.m_type, m_vlen |-> v.m_vlen \div 2, m_double_reg |-> FALSE,
             m_data |-> [i \in 0 .. PacketEntries - 1 |->
                            IF i < n THEN v.m_data[from + i] ELSE 0],
             fault |-> "none"]
    IN IF iter > Words(v) \/ iter - iter \div 2 > PacketEntries
       THEN <<Fault("overrun"), Fault("overrun")>>
       ELSE <<half(0, iter \div 2), half(iter \div 2, iter - iter \div 2)>>

-----------------------------------------------------------------------------
\* C++ integer division truncates; a float divided is the exact quotient.
Magnitude(x) == IF x < 0 THEN -x ELSE x
TruncDiv(a, b) ==
    LET q == Magnitude(a) \div Magnitude(b)
    IN IF (a < 0) = (b < 0) THEN q ELSE -q
FloatQuotient(a, b) == CHOOSE q \in -Magnitude(a) .. Magnitude(a) : b # 0 /\ q * b = a

\* What an operator stores in an element of type t.
Arith(t, op, a, b) ==
    CASE op = "ADD" -> a + b [] op = "SUB" -> a - b [] op = "MUL" -> a * b
      [] op = "DIV" -> IF t \in Floats THEN FloatQuotient(a, b) ELSE TruncDiv(a, b)

\* A loop of an arithmetic operator: each element of v combined with y(i), in
\* v's own type.  Types the operator has no case for throw; an integer divided
\* by an integer zero traps.
Elementwise(v, supported, f(_), srcs, traps) ==
    CASE \E s \in srcs : Faulty(s[1]) -> FaultOf(srcs)
      [] v.m_vlen = 0 -> v
      [] ~supported -> Fault("throw")
      [] traps -> Fault("trap")
      [] OTHER -> Fill(v, v.m_type, Lanes(v), f, srcs)
ZeroDivisor(op, v, t, y(_)) ==
    /\ op = "DIV" /\ v.m_type \notin Floats /\ t \notin Floats
    /\ \E i \in Lanes(v) : y(i) = 0

VectorVector(op, lhs, rhs, supported) ==
    LET y(i) == GetData(rhs, rhs.m_type, i) IN
    IF ~Faulty(lhs) /\ ~Faulty(rhs) /\ lhs.m_vlen # rhs.m_vlen THEN Fault("assert")
    ELSE Elementwise(lhs, <<lhs.m_type, rhs.m_type>> \in supported,
                     LAMBDA i : Arith(lhs.m_type, op, GetData(lhs, lhs.m_type, i), y(i)),
                     {<<lhs, lhs.m_type>>, <<rhs, rhs.m_type>>},
                     ZeroDivisor(op, lhs, rhs.m_type, y))
VectorScalar(op, lhs, x, xtype, supported) ==
    Elementwise(lhs, lhs.m_type \in supported,
                LAMBDA i : Arith(lhs.m_type, op, GetData(lhs, lhs.m_type, i), x),
                {<<lhs, lhs.m_type>>}, ZeroDivisor(op, lhs, xtype, LAMBDA i : x))
ScalarVector(op, x, xtype, rhs, supported) ==
    LET y(i) == GetData(rhs, rhs.m_type, i) IN
    Elementwise(rhs, rhs.m_type \in supported, LAMBDA i : Arith(rhs.m_type, op, x, y(i)),
                {<<rhs, rhs.m_type>>}, xtype \notin Floats /\ ZeroDivisor(op, rhs, rhs.m_type, y))

\* An integer vector combined with a float keeps integer bits and is retagged
\* as a float.
RetagFloat(v) == IF Faulty(v) THEN v
                 ELSE [v EXCEPT !.m_type = CASE @ = "INT32" -> "FLOAT32"
                                             [] @ = "INT16" -> "FLOAT16"
                                             [] OTHER -> @]

Basic == {"FLOAT32", "FLOAT16", "INT32", "INT16"}

\* operator+ on two vectors, and with a float, a 32-bit or a 64-bit integer.
PlusVV(lhs, rhs) ==
    VectorVector("ADD", lhs, rhs,
        ({"FLOAT32"} \X (Basic \ {"INT16"})) \cup ({"FLOAT16", "INT32"} \X Basic)
            \cup {<<"INT64", "INT64">>})
PlusF(lhs, x) == RetagFloat(VectorScalar("ADD", lhs, x, "FLOAT32", Basic))
PlusI(lhs, x) == VectorScalar("ADD", lhs, x, "INT32", Basic \cup {"INT64"})
PlusL(lhs, x) == VectorScalar("ADD", lhs, x, "INT64", Basic \cup {"INT64"})

\* operator-; a long minus anything but a long is left as it was.
MinusVV(lhs, rhs) ==
    IF ~Faulty(lhs) /\ lhs.m_type = "INT64" /\ rhs.m_type # "INT64" /\ lhs.m_vlen = rhs.m_vlen
    THEN lhs
    ELSE VectorVector("SUB", lhs, rhs, (Basic \X Basic) \cup {<<"INT64", "INT64">>})
MinusF(lhs, x) == VectorScalar("SUB", lhs, x, "FLOAT32", Basic)
MinusI(lhs, x) == VectorScalar("SUB", lhs, x, "INT32", Basic)
FMinus(x, rhs) == RetagFloat(ScalarVector("SUB", x, "FLOAT32", rhs, Basic))
IMinus(x, rhs) == ScalarVector("SUB", x, "INT32", rhs, Basic)

\* operator*; the INT16 branch repeats the INT32 condition and is unreachable.
TimesVV(lhs, rhs) == VectorVector("MUL", lhs, rhs, (Basic \ {"INT16"}) \X Basic)
TimesF(lhs, x) == VectorScalar("MUL", lhs, x, "FLOAT32", Basic)
TimesI(lhs, x) == VectorScalar("MUL", lhs, x, "INT32", Basic \cup {"INT64", "UINT8"})

\* operator/.
OverVV(lhs, rhs) == VectorVector("DIV", lhs, rhs, Basic \X Basic)
OverF(lhs, x) == VectorScalar("DIV", lhs, x, "FLOAT32", Basic)
FOver(x, rhs) == ScalarVector("DIV", x, "FLOAT32", rhs, Basic)
OverI(lhs, x) == VectorScalar("DIV", lhs, x, "INT32", Basic)

\* Exp: element by element, floats only.
Exp(v) == Elementwise(v, v.m_type \in Floats, LAMBDA i : FExp(GetData(v, v.m_type, i)),
                      {<<v, v.m_type>>}, FALSE)

\* logical_operate.
LogicalOperate(op, a, b) == CASE op = "EQ" -> a = b [] op = "NE" -> a # b
                              [] op = "LT" -> a < b [] op = "LE" -> a <= b
                              [] op = "GT" -> a > b [] op = "GE" -> a >= b
=============================================================================

-------------------------------- MODULE Alu --------------------------------
(***************************************************************************)
(* The integer instructions of the hart (emu.cpp, iops ... rops64, the     *)
(* conditions of branches and the arithmetic of AMOs), as the code         *)
(* computes them, beside the results the ISA defines.                      *)
(*                                                                         *)
(* Registers are words of XLEN bits, read as naturals.  The widths are     *)
(* parameters: 64, 32 and 53 (the precision of double) in the code.        *)
(* Bitwise and, or and xor are C's own and left out.                       *)
(***************************************************************************)
EXTENDS Integers

CONSTANTS
    XLEN,    \* bits of a register, a power of two
    WLEN,    \* bits of a word: half a register
    ILEN,    \* bits of an immediate
    DPREC,   \* significant bits of a double
    Lefts,   \* contents of x1
    Rights,  \* contents of x2
    Stale    \* contents an earlier instruction may have left in x0

\* 1llu << n.  No number here has more bits than a product.
Pow2[n \in 0 .. 2 * XLEN] == IF n = 0 THEN 1 ELSE 2 * Pow2[n - 1]

RegValues == 0 .. Pow2[XLEN] - 1
Top == Pow2[XLEN - 1]     \* 1llu << 63
WTop == Pow2[WLEN - 1]    \* 1llu << 31

ASSUME WidthAssumption ==
    /\ XLEN \in Nat /\ WLEN \in Nat /\ DPREC \in Nat
    /\ XLEN = 2 * WLEN /\ WLEN > 1 /\ ILEN \in 2 .. XLEN
    /\ DPREC \in WLEN .. XLEN - 2
    /\ Lefts \subseteq RegValues /\ Rights \subseteq RegValues
    /\ Stale \subseteq RegValues

-----------------------------------------------------------------------------
(* The helpers of emu.h.  Arithmetic on uint64_t is modulo 2^XLEN. *)

Wrap(x) == x % Pow2[XLEN]
MASK32(x) == x % Pow2[WLEN]

\* x ^ m for a power of two m
Flip(x, m) == IF (x \div m) % 2 = 1 THEN x - m ELSE x + m

sign_extend(x, bits) == Wrap(Flip(x, Pow2[bits - 1]) - Pow2[bits - 1])

\* Conversion of an unsigned value of n bits to a signed type of that width
ToSigned(x, n) == IF x >= Pow2[n - 1] THEN x - Pow2[n] ELSE x

signed_value(x) ==
    ToSigned(IF x \div Top = 1 THEN Wrap(Flip(x, Top) - Top) ELSE x, XLEN)

signed_value32(x) ==
    LET y == MASK32(x)
    IN  ToSigned(MASK32(IF y \div WTop = 1 THEN Wrap(Flip(y, WTop) - WTop) ELSE y), WLEN)

\* C's div() and /: the quotient is rounded towards zero.
Abs(x) == IF x < 0 THEN -x ELSE x
quot(a, b) == IF (a < 0) = (b < 0) THEN Abs(a) \div Abs(b) ELSE -(Abs(a) \div Abs(b))
rem(a, b) == a - b * quot(a, b)

\* Conversion of an integer to double: to the nearest number of DPREC
\* significant bits, ties to the even one.
ToDouble(x) ==
    LET n == Abs(x)
        e == CHOOSE k \in 0 .. XLEN : n < Pow2[k] /\ (k = 0 \/ n >= Pow2[k - 1])
        u == IF e > DPREC THEN Pow2[e - DPREC] ELSE 1
        q == n \div u
        up == 2 * (n % u) > u \/ (2 * (n % u) = u /\ q % 2 = 1)
        r == u * (IF up THEN q + 1 ELSE q)
    IN  IF x < 0 THEN -r ELSE r

\* divi and divi32; s: 0 DIV, 1 DIVU, 2 REM, 3 REMU; n bits, of which the
\* most negative number is -2^(n - 1).  Results are of type T, signed for 0, 2.
divi(a, b, s, n) ==
    IF b = 0
    THEN CASE s = 0 -> -1 [] s = 1 -> Pow2[n] - 1 [] s \in {2, 3} -> a
    ELSE IF ToDouble(a) = -(Pow2[n - 1]) /\ b = -1
         THEN IF s = 0 THEN -(Pow2[n - 1]) ELSE 0
         ELSE IF s \in {0, 1} THEN quot(a, b) ELSE rem(a, b)

\* The loop of the arithmetic shifts: k times to the right, keeping bit top
ShiftLoop(x, top, k) ==
    LET wb_data[i \in 0 .. k] ==
            IF i = 0 THEN x
            ELSE (IF (wb_data[i - 1] \div top) % 2 = 1 THEN top ELSE 0)
                     + (wb_data[i - 1] \div 2)
    IN  wb_data[k]

\* The high half of a product of __uint128_t
High(x, y) == ((x * y) % Pow2[2 * XLEN]) \div Pow2[XLEN]

-----------------------------------------------------------------------------
(* The instructions.  a and b are the registers. *)

XOps == {"ADD", "SUB", "SLT", "SLTU", "SLL", "SRL", "SRA",
         "MUL", "MULH", "MULHSU", "MULHU", "DIV", "DIVU", "REM", "REMU"}
WOps == {"ADDW", "SUBW", "SLLW", "SRLW", "SRAW",
         "MULW", "DIVW", "DIVUW", "REMW", "REMUW"}
IOps == {"ADD", "SLT", "SLTU", "SLL", "SRL", "SRA", "ADDW", "SLLW", "SRLW", "SRAW"}
AmoOps == {"AMOADD.W", "AMOMIN.W", "AMOMAX.W", "AMOMINU.W", "AMOMAXU.W",
           "AMOADD.D", "AMOMIN.D", "AMOMAX.D", "AMOMINU.D", "AMOMAXU.D"}
BranchOps == {"BEQ", "BNE", "BLT", "BGE", "BLTU", "BGEU"}

Bool(p) == IF p THEN 1 ELSE 0
Least(x, y) == IF x < y THEN x ELSE y
Most(x, y) == IF x < y THEN y ELSE x

rops(op, a, b) ==
    LET sa == signed_value(a)
        sb == signed_value(b)
        k == b % XLEN
    IN  CASE op = "ADD" -> Wrap(a + b)
          [] op = "SUB" -> Wrap(a - b)
          [] op = "SLT" -> Bool(sa < sb)
          [] op = "SLTU" -> Bool(a < b)
          [] op = "SLL" -> Wrap(a * Pow2[k])
          [] op = "SRL" -> a \div Pow2[k]
          [] op = "SRA" -> ShiftLoop(a, Top, k)
          [] op = "MUL" -> Wrap(a * b)
          [] op = "MULH" -> High(sa, sb)
          [] op = "MULHSU" -> High(sa, b)
          [] op = "MULHU" -> High(a, b)
          [] op = "DIV" -> Wrap(divi(sa, sb, 0, XLEN))
          [] op = "DIVU" -> Wrap(divi(a, b, 1, XLEN))
          [] op = "REM" -> Wrap(divi(sa, sb, 2, XLEN))
          [] op = "REMU" -> Wrap(divi(a, b, 3, XLEN))

\* Mutant: the operand of SRAW is not cut to 32 bits.
rops64_NoCut(op, a, b) ==
    LET k == b % WLEN
    IN  CASE op = "ADDW" -> sign_extend(MASK32(a + b), WLEN)
          [] op = "SUBW" -> sign_extend(MASK32(MASK32(a) - MASK32(b)), WLEN)
          [] op = "SLLW" -> sign_extend(MASK32(a * Pow2[k]), WLEN)
          [] op = "SRLW" -> sign_extend(MASK32(a) \div Pow2[k], WLEN)
          [] op = "SRAW" -> sign_extend(MASK32(ShiftLoop(a, Top, k)), WLEN)
          [] OTHER -> a

rops64(op, a, b) ==
    LET sa == signed_value32(a)
        sb == signed_value32(b)
        k == b % WLEN
    IN  CASE op = "ADDW" -> sign_extend(MASK32(a + b), WLEN)
          [] op = "SUBW" -> sign_extend(MASK32(MASK32(a) - MASK32(b)), WLEN)
          [] op = "SLLW" -> sign_extend(MASK32(a * Pow2[k]), WLEN)
          [] op = "SRLW" -> sign_extend(MASK32(a) \div Pow2[k], WLEN)
          [] op = "SRAW" -> sign_extend(ShiftLoop(MASK32(a), WTop, k), WLEN)
          [] op = "MULW" -> sign_extend(MASK32(MASK32(a) * MASK32(b)), WLEN)
          [] op = "DIVW" -> sign_extend(MASK32(divi(sa, sb, 0, WLEN)), WLEN)
          [] op = "DIVUW" -> sign_extend(divi(MASK32(a), MASK32(b), 1, WLEN), WLEN)
          [] op = "REMW" -> sign_extend(MASK32(divi(sa, sb, 2, WLEN)), WLEN)
          [] op = "REMUW" -> sign_extend(divi(MASK32(a), MASK32(b), 3, WLEN), WLEN)

\* What an AMO stores; a is what memory holds, b the register.
amo_w(op, a, b) ==
    LET sa == signed_value32(MASK32(a))
        sb == signed_value32(MASK32(b))
    IN  CASE op = "AMOADD.W" -> MASK32(MASK32(a) + MASK32(b))
          [] op = "AMOMIN.W" -> MASK32(Least(sa, sb))
          [] op = "AMOMAX.W" -> MASK32(Most(sa, sb))
          [] op = "AMOMINU.W" -> MASK32(Least(MASK32(a), MASK32(b)))
          [] op = "AMOMAXU.W" -> MASK32(Most(MASK32(a), MASK32(b)))

amo_d(op, a, b) ==
    LET sa == signed_value(a)
        sb == signed_value(b)
    IN  CASE op = "AMOADD.D" -> Wrap(a + b)
          [] op = "AMOMIN.D" -> Wrap(Least(sa, sb))
          [] op = "AMOMAX.D" -> Wrap(Most(sa, sb))
          [] op = "AMOMINU.D" -> Least(a, b)
          [] op = "AMOMAXU.D" -> Most(a, b)

cjump(op, a, b) ==
    CASE op = "BEQ" -> a = b
      [] op = "BNE" -> a # b
      [] op = "BLT" -> signed_value(a) < signed_value(b)
      [] op = "BGE" -> signed_value(a) >= signed_value(b)
      [] op = "BLTU" -> a < b
      [] op = "BGEU" -> a >= b

-----------------------------------------------------------------------------
(* One instruction on registers x0, x1, x2 *)

VARIABLES
    reg_file,   \* x0, x1 and x2
    branch,     \* outcome of the last comparison
    done        \* the instruction carried out: operation, operands, result

aluvars == <<reg_file, branch, done>>

None == [op |-> "none", a |-> 0, b |-> 0, res |-> 0]

\* The registers the code computes with: instructions write x0 like any other
\* register, and the start of the next turn clears it.
Regs == [reg_file EXCEPT ![0] = 0]

\* What the ISA says an instruction reads from register s
Operand(s) == IF s = 0 THEN 0 ELSE reg_file[s]

Execute(op, a, b, res) ==
    /\ done = None
    /\ done' = [op |-> op, a |-> a, b |-> b, res |-> res]

\* rops, rops64: every register may be the target.
RegisterOp(op, s1, s2, d) ==
    LET a == Regs[s1]
        b == Regs[s2]
        res == IF op \in XOps THEN rops(op, a, b) ELSE rops64(op, a, b)
    IN  /\ Execute(op, Operand(s1), Operand(s2), res)
        /\ reg_file' = [Regs EXCEPT ![d] = res]
        /\ UNCHANGED branch

\* iops, iops64: the immediate is extended to a register.
ImmediateOp(op, s1, imm, d) ==
    LET a == Regs[s1]
        b == sign_extend(imm, ILEN)
        res == IF op \in XOps THEN rops(op, a, b) ELSE rops64(op, a, b)
    IN  /\ Execute(op, Operand(s1), b, res)
        /\ reg_file' = [Regs EXCEPT ![d] = res]
        /\ UNCHANGED branch

\* The register gets the old value, extended; memory gets the result.
AmoOp(op, s1, s2, d) ==
    LET a == Regs[s1]
        b == Regs[s2]
        word == op \in {"AMOADD.W", "AMOMIN.W", "AMOMAX.W", "AMOMINU.W", "AMOMAXU.W"}
    IN  /\ Execute(op, Operand(s1), Operand(s2),
                   IF word THEN amo_w(op, a, b) ELSE amo_d(op, a, b))
        /\ reg_file' = [Regs EXCEPT ![d] = IF word THEN sign_extend(MASK32(a), WLEN) ELSE a]
        /\ UNCHANGED branch

Branch(op, s1, s2) ==
    /\ branch' = cjump(op, Regs[s1], Regs[s2])
    /\ Execute(op, Operand(s1), Operand(s2), Bool(branch'))
    /\ reg_file' = Regs

\* func3 2 and 3 are no comparison: the jump follows the last one.
BranchUndefined(s1, s2) ==
    /\ Execute("undefined", Operand(s1), Operand(s2), Bool(branch))
    /\ reg_file' = Regs /\ UNCHANGED branch

\* A func3 or func7 that no case names: the register gets the 0 that wb_data
\* starts the turn with, or nothing if func7 selects no group of instructions.
OpUndefined(d) ==
    /\ Execute("undefined", 0, 0, 0)
    /\ reg_file' \in {Regs, [Regs EXCEPT ![d] = 0]}
    /\ UNCHANGED branch

AluEnd == done # None /\ UNCHANGED aluvars

AluInit ==
    /\ \E z \in Stale, x \in Lefts, y \in Rights :
          reg_file = [r \in 0 .. 2 |-> <<z, x, y>>[r + 1]]
    /\ branch = FALSE /\ done = None

AluNext ==
    \/ \E s1 \in {0, 1}, s2 \in {0, 2} :
          \/ \E op \in XOps \cup WOps : RegisterOp(op, s1, s2, 1)
          \/ \E op \in AmoOps : AmoOp(op, s1, s2, 0)
    \/ \E s1 \in {0, 1}, imm \in 0 .. Pow2[ILEN] - 1, op \in IOps :
          ImmediateOp(op, s1, imm, 1)
    \/ \E s1 \in {0, 1}, s2 \in {0, 2} :
          \/ \E op \in BranchOps : Branch(op, s1, s2)
          \/ BranchUndefined(s1, s2)
    \/ OpUndefined(1)
    \/ AluEnd

AluSpec == AluInit /\ [][AluNext]_aluvars

-----------------------------------------------------------------------------
(* The ISA, on integers: S reads a register or a word as a signed number,   *)
(* SextW is the register that holds a word.                                 *)

S(x) == IF x >= Top THEN x - Pow2[XLEN] ELSE x
SW(x) == IF x % Pow2[WLEN] >= WTop THEN (x % Pow2[WLEN]) - Pow2[WLEN] ELSE x % Pow2[WLEN]
SextW(x) == SW(x) % Pow2[XLEN]

\* Division with the results the ISA gives for zero divisors; the overflow of
\* the smallest number by -1 is what the width makes of the true quotient.
DivRef(a, b) == IF b = 0 THEN -1 ELSE quot(a, b)
RemRef(a, b) == IF b = 0 THEN a ELSE rem(a, b)

ISA(op, a, b) ==
    CASE op = "ADD" -> (S(a) + S(b)) % Pow2[XLEN]
      [] op = "SUB" -> (S(a) - S(b)) % Pow2[XLEN]
      [] op \in {"SLT", "BLT"} -> Bool(S(a) < S(b))
      [] op \in {"SLTU", "BLTU"} -> Bool(a < b)
      [] op = "SLL" -> (a * Pow2[b % XLEN]) % Pow2[XLEN]
      [] op = "SRL" -> a \div Pow2[b % XLEN]
      [] op = "SRA" -> (S(a) \div Pow2[b % XLEN]) % Pow2[XLEN]
      [] op = "MUL" -> (S(a) * S(b)) % Pow2[XLEN]
      [] op = "MULH" -> ((S(a) * S(b)) \div Pow2[XLEN]) % Pow2[XLEN]
      [] op = "MULHSU" -> ((S(a) * b) \div Pow2[XLEN]) % Pow2[XLEN]
      [] op = "MULHU" -> (a * b) \div Pow2[XLEN]
      [] op = "DIV" -> DivRef(S(a), S(b)) % Pow2[XLEN]
      [] op = "DIVU" -> DivRef(a, b) % Pow2[XLEN]
      [] op = "REM" -> RemRef(S(a), S(b)) % Pow2[XLEN]
      [] op = "REMU" -> RemRef(a, b)
      [] op = "ADDW" -> SextW(a + b)
      [] op = "SUBW" -> SextW(a - b)
      [] op = "SLLW" -> SextW(a * Pow2[b % WLEN])
      [] op = "SRLW" -> SextW((a % Pow2[WLEN]) \div Pow2[b % WLEN])
      [] op = "SRAW" -> SextW(SW(a) \div Pow2[b % WLEN])
      [] op = "MULW" -> SextW(a * b)
      [] op = "DIVW" -> SextW(DivRef(SW(a), SW(b)))
      [] op = "DIVUW" -> SextW(DivRef(a % Pow2[WLEN], b % Pow2[WLEN]))
      [] op = "REMW" -> SextW(RemRef(SW(a), SW(b)))
      [] op = "REMUW" -> SextW(RemRef(a % Pow2[WLEN], b % Pow2[WLEN]))
      [] op = "AMOADD.W" -> (a + b) % Pow2[WLEN]
      [] op = "AMOMIN.W" -> (IF SW(a) < SW(b) THEN a ELSE b) % Pow2[WLEN]
      [] op = "AMOMAX.W" -> (IF SW(a) < SW(b) THEN b ELSE a) % Pow2[WLEN]
      [] op = "AMOMINU.W" -> Least(a % Pow2[WLEN], b % Pow2[WLEN])
      [] op = "AMOMAXU.W" -> Most(a % Pow2[WLEN], b % Pow2[WLEN])
      [] op = "AMOADD.D" -> (a + b) % Pow2[XLEN]
      [] op = "AMOMIN.D" -> IF S(a) < S(b) THEN a ELSE b
      [] op = "AMOMAX.D" -> IF S(a) < S(b) THEN b ELSE a
      [] op = "AMOMINU.D" -> Least(a, b)
      [] op = "AMOMAXU.D" -> Most(a, b)
      [] op = "BEQ" -> Bool(a = b)
      [] op = "BNE" -> Bool(a # b)
      [] op = "BGE" -> Bool(S(a) >= S(b))
      [] op = "BGEU" -> Bool(a >= b)

\* Dividends that are not the smallest number and round to it
NearSmallest(a) == S(a) # -Top /\ S(a) <= Pow2[XLEN - 2 - DPREC] - Top

(* Properties *)

\* Every instruction computes what the ISA defines of the registers it names
\* (x0 is 0, whatever an earlier instruction has left there): the sign extension
\* by xor and subtraction, the shifts bit by bit and the special cases of
\* division.  One family of results deviates and is stated as it is: for DIV by
\* -1 of a dividend that rounds to the smallest number, divi, which compares in
\* double, answers the smallest number.
AluExact ==
    done.op \notin {"none", "undefined"} =>
        done.res = IF done.op = "DIV" /\ S(done.b) = -1 /\ NearSmallest(done.a)
                   THEN Top ELSE ISA(done.op, done.a, done.b)
=============================================================================

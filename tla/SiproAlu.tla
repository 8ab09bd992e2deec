------------------------------ MODULE SiproAlu ------------------------------
(***************************************************************************)
(* What the arithmetic, logic and comparison instructions of the SIPRO     *)
(* emulator do to the registers and to the flags (asipro/emul/exec.c).  A  *)
(* register of the emulator is an unsigned int of the host, wider than the *)
(* 16 bits of the SIPRO: nothing but the handlers keeps it a word.         *)
(***************************************************************************)
EXTENDS Integers

CONSTANT UNSIGNEDBITS   \* bits of an unsigned int: 32 in the code

ASSUME AluAssumption == UNSIGNEDBITS \in Nat /\ UNSIGNEDBITS > 16

SIPRO_REGISTERBITSIZE == 16
SIPRO_INTMIN == -32768
SIPRO_INTMAX == 32767
SIPRO_UINTMAX == 65535

Word == 0..SIPRO_UINTMAX
Unsigned == 0..(2^UNSIGNEDBITS - 1)
Wrap(n) == n % 2^UNSIGNEDBITS

BITPOS(v, pos) == (v \div 2^pos) % 2

\* The number whose bits 0..n-1 are b[0..n-1].
FromBits(b, n) ==
    LET value[i \in 0..n] ==
            IF i = 0 THEN 0 ELSE value[i - 1] + b[i - 1] * 2^(i - 1)
    IN value[n]
\* op[k] is the bit of the result where k of the two operands have theirs set.
BitByBit(op, v, w) ==
    FromBits([i \in 0..(UNSIGNEDBITS - 1) |-> op[BITPOS(v, i) + BITPOS(w, i)]],
             UNSIGNEDBITS)
AndBit == [k \in 0..2 |-> IF k = 2 THEN 1 ELSE 0]
OrBit == [k \in 0..2 |-> IF k > 0 THEN 1 ELSE 0]
XorBit == [k \in 0..2 |-> IF k = 1 THEN 1 ELSE 0]

registerSgn(v) == IF BITPOS(v, SIPRO_REGISTERBITSIZE - 1) = 1 THEN -1 ELSE 1
registerToLongInt(v) ==
    LET w == v % 2^SIPRO_REGISTERBITSIZE IN
    IF registerSgn(v) < 0 THEN w - 2^SIPRO_REGISTERBITSIZE ELSE w
longIntToRegister(l) == l % 2^SIPRO_REGISTERBITSIZE

Abs(l) == IF l >= 0 THEN l ELSE -l

-----------------------------------------------------------------------------
(* The flags e (error), c (carry) and z (zero) of the register fl.         *)

Flags == [e : BOOLEAN, c : BOOLEAN, z : BOOLEAN]
NoFlag == [e |-> FALSE, c |-> FALSE, z |-> FALSE]
Carry(b) == [NoFlag EXCEPT !.c = b]

\* The carry out of a bit, r coming in.
retenue_not_carried(b1, b2, r) == IF b1 + b2 > 1 THEN 1 ELSE 0
retenue(b1, b2, r) == IF b1 + b2 + r > 1 THEN 1 ELSE 0

\* "error" compares the sign of the sum with the sign of the operands, then
\* the carries into and out of the sign bit.
Sum(v1, v2, r, resultat) ==
    LET sign == SIPRO_REGISTERBITSIZE - 1
        s == (BITPOS(v1, sign) + BITPOS(v2, sign)) % 2 # BITPOS(resultat, sign)
    IN [sum |-> resultat,
        fl |-> [c |-> r = 1,
                z |-> resultat = 0,
                e |-> /\ registerSgn(v1) = registerSgn(v2)
                      /\ \/ registerSgn(v1) # registerSgn(resultat)
                         \/ s # (r = 1)]]

\* The carries into the bits 0 to 15, and the one out of bit 15.
retenues(v1, v2) ==
    LET r[i \in 0..SIPRO_REGISTERBITSIZE] ==
            IF i = 0 THEN 0
            ELSE retenue(BITPOS(v1, i - 1), BITPOS(v2, i - 1), r[i - 1])
    IN r

Added(v1, v2) ==
    LET n == SIPRO_REGISTERBITSIZE
        r == retenues(v1, v2)
        bit == [i \in 0..(n - 1) |-> (BITPOS(v1, i) + BITPOS(v2, i) + r[i]) % 2]
    IN Sum(v1, v2, r[n], FromBits(bit, n))
\* The operands are values before the loop begins.
add_internal(v1, v2) ==
    [x \in Unsigned |-> [y \in Unsigned |-> Added(x, y)]][v1][v2]

\* What a handler leaves: the registers and the flags.
Result(regs, fl) == [regs |-> regs, fl |-> fl]

add_f(regs, i, j) ==
    LET s == add_internal(regs[i], regs[j])
    IN Result([regs EXCEPT ![i] = s.sum], s.fl)

\* regs[i] - regs[j] is the sum of regs[i] and the opposite of regs[j], which
\* is put in register j during the sum and taken back after it; so nothing is
\* left of the difference when i = j.
SumWithOpposite(regs, i, j, opposite, valReg2) ==
    LET R == [regs EXCEPT ![j] = opposite]
        s == add_internal(R[i], R[j])
    IN Result([R EXCEPT ![i] = s.sum, ![j] = valReg2], s.fl)

sub_only_opposite(regs, i, j) ==
    SumWithOpposite(regs, i, j,
                    longIntToRegister(-registerToLongInt(regs[j])), regs[j])
sub_f(regs, i, j) ==
    IF registerToLongInt(regs[j]) # SIPRO_INTMIN
    THEN sub_only_opposite(regs, i, j)
    ELSE IF registerToLongInt(regs[i]) >= 0
    THEN Result(regs, [NoFlag EXCEPT !.e = TRUE])
    ELSE LET R == [regs EXCEPT ![i] = add_internal(@, 1).sum]
             opposite == longIntToRegister(-add_internal(R[j], 1).sum)
         IN SumWithOpposite(R, i, j, opposite, regs[j])

mul_above_only(regs, i, j) ==
    LET v == registerToLongInt(regs[i]) * registerToLongInt(regs[j])
    IN Result([regs EXCEPT ![i] = longIntToRegister(v)],
              [c |-> FALSE, z |-> v = 0, e |-> v > SIPRO_INTMAX])
mul_f(regs, i, j) ==
    LET v == registerToLongInt(regs[i]) * registerToLongInt(regs[j])
    IN Result([regs EXCEPT ![i] = longIntToRegister(v)],
              [c |-> FALSE, z |-> v = 0,
               e |-> v < SIPRO_INTMIN \/ v > SIPRO_INTMAX])

\* The quotient of the absolute values takes the sign of the true quotient.
SignForgotten(regs, i, j) ==
    Abs(registerToLongInt(regs[i])) \div Abs(registerToLongInt(regs[j]))
Quotient(regs, i, j) ==
    LET v == Abs(registerToLongInt(regs[i])) \div Abs(registerToLongInt(regs[j]))
    IN IF registerSgn(regs[i]) = registerSgn(regs[j]) THEN v ELSE -v

\* A division by 0 leaves the registers; z then tells whether the dividend
\* was 0.
div_f(regs, i, j) ==
    IF registerToLongInt(regs[j]) = 0
    THEN Result(regs, [e |-> TRUE, c |-> FALSE,
                       z |-> registerToLongInt(regs[i]) = 0])
    ELSE LET v == Quotient(regs, i, j)
         IN Result([regs EXCEPT ![i] = longIntToRegister(v)],
                   [e |-> FALSE, c |-> FALSE, z |-> v = 0])

and_f(regs, i, j) ==
    Result([regs EXCEPT ![i] = BitByBit(AndBit, @, regs[j])], NoFlag)
or_f(regs, i, j) ==
    Result([regs EXCEPT ![i] = BitByBit(OrBit, @, regs[j])], NoFlag)
xor_f(regs, i, j) ==
    Result([regs EXCEPT ![i] = BitByBit(XorBit, @, regs[j])], NoFlag)

\* ~ of the whole unsigned int: the result is not masked to 16 bits.
not_f(regs, i) ==
    Result([regs EXCEPT ![i] = 2^UNSIGNEDBITS - 1 - @], NoFlag)

shiftr_f(regs, i) ==
    Result([regs EXCEPT ![i] = @ \div 2], Carry(regs[i] % 2 = 1))

\* setCarry gets the bit itself, 0 or 32768, and stops the emulator on 32768.
shiftl_stops(regs, i) == BITPOS(regs[i], SIPRO_REGISTERBITSIZE - 1) = 1
shiftl_f(regs, i) ==
    Result([regs EXCEPT ![i] = (2 * @) % 2^SIPRO_REGISTERBITSIZE], NoFlag)

cp_f(regs, i, j) == Result([regs EXCEPT ![i] = regs[j]], NoFlag)

cmp_f(regs, i, j) ==
    Result(regs, [e |-> FALSE, c |-> regs[i] = regs[j],
                  z |-> regs[i] = regs[j] /\ regs[j] = 0])
uless_f(regs, i, j) == Result(regs, Carry(regs[i] < regs[j]))
sless_f(regs, i, j) ==
    Result(regs, Carry(registerToLongInt(regs[i]) < registerToLongInt(regs[j])))
=============================================================================

----------------------------- MODULE SiproCode -----------------------------
(***************************************************************************)
(* The machine code asipro writes for a sequence of instructions and data  *)
(* (asipro/asm/analyse.c).  Asipro models the passes of the assembler over *)
(* any lines; here are the bytes of each line, as the input of the         *)
(* emulator.                                                               *)
(*                                                                         *)
(* An instruction is <<name, operand, ...>>; operands are register         *)
(* numbers.  const is <<"const", register, value>>, or                     *)
(* <<"address", register, k>> for a label in front of the k-th line of the *)
(* program.  Data are <<"int", value>> and <<"string", characters>>.       *)
(***************************************************************************)
EXTENDS Integers, Sequences

CONSTANT Programs   \* the programs the emulator may be given

\* idRegister
ID_SP == 2
ID_BP == 3
ID_AX == 4
ID_BX == 5
ID_CX == 6
ID_DX == 7
General == {ID_AX, ID_BX, ID_CX, ID_DX}
AnyRegister == General \cup {ID_SP, ID_BP}

\* The first byte of buf in each handler.
opcode ==
    [shiftr |-> 16, shiftl |-> 17, and |-> 21, or |-> 22, xor |-> 23, not |-> 26,
     add |-> 32, sub |-> 33, mul |-> 34, div |-> 35,
     cp |-> 48, loadw |-> 49, storew |-> 50, loadb |-> 51, storeb |-> 52,
     const |-> 53, address |-> 53, push |-> 64, pop |-> 65,
     cmp |-> 80, uless |-> 81, sless |-> 82,
     jmp |-> 96, jmpz |-> 97, jmpc |-> 98, jmpe |-> 99, call |-> 101, ret |-> 102,
     callprintfd |-> 106, callprintfu |-> 107, callprintfs |-> 108,
     callscanfd |-> 109, callscanfu |-> 110, callscanfs |-> 111,
     nop |-> 0, end |-> 255]

\* The number of registers each handler reads, and the ones it takes.
NoOperand == {"ret", "nop", "end"}
OneGeneral == {"shiftr", "shiftl", "not", "jmp", "jmpz", "jmpc", "jmpe", "call",
               "callprintfd", "callprintfu", "callprintfs", "callscanfd",
               "callscanfu"}
TwoGeneral == {"and", "or", "xor", "mul", "div", "callscanfs"}
OneAny == {"push", "pop"}
TwoAny == {"add", "sub", "cp", "loadw", "storew", "loadb", "storeb", "cmp",
           "uless", "sless"}

\* The lines the assembler accepts.
Plain ==
    {<<n>> : n \in NoOperand}
    \cup (OneGeneral \X General) \cup (OneAny \X AnyRegister)
    \cup (TwoGeneral \X General \X General)
    \cup (TwoAny \X AnyRegister \X AnyRegister)
Byte == 0..(2^8 - 1)
WordValue == 0..(2^16 - 1)
Instr == Plain \cup ({"const"} \X AnyRegister \X WordValue)
               \cup ({"address"} \X AnyRegister \X (Nat \ {0}))
Constante == ({"int"} \X WordValue) \cup ({"string"} \X Seq(Byte \ {0}))

IsConst(ins) == ins[1] \in {"const", "address"}
IsData(ins) == ins[1] \in {"int", "string"}

\* const_f leaves a hole so that the value stands at an even cell;
\* traiteConstante puts the hole in front of the data.
trou(cell) == IF cell % 2 # 0 THEN 1 ELSE 0
Alignment(ins, cell) == IF IsData(ins) THEN trou(cell) ELSE 0
Size(ins, cell) ==
    CASE IsConst(ins) -> 4 + trou(cell)
      [] ins[1] = "int" -> Alignment(ins, cell) + 2
      [] ins[1] = "string" -> Alignment(ins, cell) + Len(ins[2]) + 1
      [] OTHER -> Len(ins)

\* cells(p)[i] is ncellule in front of line i, and behind the last one.
cells(p) ==
    LET placed[i \in 0..Len(p)] ==
            IF i = 0 THEN <<0>>
            ELSE LET c == placed[i - 1] IN Append(c, c[Len(c)] + Size(p[i], c[Len(c)]))
    IN placed[Len(p)]

\* ":pile" and "@int 0" behind the last instruction, aligned.
PileBehind(c) == LET last == c[Len(c)] IN last + trou(last)
Pile(p) == PileBehind(cells(p))

\* The address of the label in front of line k, or of pile: the cell of the
\* first byte outputBytes writes behind the label, so that the hole in front of
\* the data, written by traiteConstante itself, is passed over.
LabelAddress(p, c, k) ==
    IF k > Len(p) THEN PileBehind(c) ELSE c[k] + Alignment(p[k], c[k])

\* codeValue refuses an address that two bytes cannot hold.
Addressed(p) ==
    LET c == cells(p) IN
    \A i \in DOMAIN p :
        p[i][1] = "address" => LabelAddress(p, c, p[i][3]) \in WordValue

ASSUME CodeAssumption ==
    /\ Programs \subseteq Seq(Instr \cup Constante)
    /\ \A p \in Programs : Addressed(p)

Bytes(v) == <<v \div 256, v % 256>>
Zeros(n) == [k \in 1..n |-> 0]
Encode(p, c, i) ==
    LET ins == p[i] IN
    CASE IsConst(ins) ->
            <<opcode[ins[1]], ins[2]>> \o Zeros(trou(c[i]))
            \o Bytes(IF ins[1] = "const" THEN ins[3] ELSE LabelAddress(p, c, ins[3]))
      [] ins[1] = "int" -> Zeros(trou(c[i])) \o Bytes(ins[2])
      [] ins[1] = "string" -> Zeros(trou(c[i])) \o ins[2] \o <<0>>
      [] OTHER -> <<opcode[ins[1]]>> \o Tail(ins)

\* The output file: the cells of the memory from 0.
Image(p) ==
    LET c == cells(p)
        size == c[Len(p) + 1]
        line(a) == CHOOSE i \in DOMAIN p : c[i] < a /\ a <= c[i + 1]
    IN [a \in 1..size |-> Encode(p, c, line(a))[a - c[line(a)]]]
         \o Zeros(PileBehind(c) + 2 - size)
=============================================================================

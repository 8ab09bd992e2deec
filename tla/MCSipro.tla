------------------------------ MODULE MCSipro ------------------------------
EXTENDS Sipro

AX == ID_AX
BX == ID_BX
CX == ID_CX
DX == ID_DX
SP == ID_SP
BP == ID_BP

\* What the user may type: a number SIPRO has, as signed or as unsigned only,
\* and none it has; a line that is empty, short, or longer than is asked for.
MCNumbers == {-1, 40000, 70000}
MCLines == {<<>>, <<65>>, <<65, 66, 67, 68>>}

\* One operation of two operands at the edges of the words.
Edges == {0, 1, 2, 7, 255, 256, 32767, 32768, 32769, 65534, 65535}
Operations == {"add", "sub", "mul", "div", "and", "or", "xor",
               "cmp", "uless", "sless", "cp"}
MCOperations ==
    {<< <<"const", AX, v>>, <<"const", BX, w>>, <<op, AX, r>>, <<"end">> >> :
        v \in Edges, w \in Edges, op \in Operations, r \in {AX, BX}}

\* Every instruction with every kind of operand, at an even and at an odd
\* cell, with ax a label, bx and cx an even and an odd address of free cells
\* and dx a small number.  What it may write over is not code.
Tried ==
    {ins \in Plain :
        /\ ins[1] \in {"storew", "storeb"} => ins[3] # AX
        /\ ins[1] = "storeb" => ins[3] # DX
        /\ ins[1] \in {"callscanfd", "callscanfu", "callscanfs"} => ins[2] # AX
        /\ ins[1] = "callscanfs" => ins[2] # DX /\ ins[3] = DX
        /\ ins[1] \in {"jmp", "jmpz", "jmpc", "jmpe", "call"} => ins[2] = AX}
    \cup ({"const"} \X AnyRegister \X {1, 258})
Nops(n) == [k \in 1..n |-> <<"nop">>]
Around(n, instructions) ==
    Nops(n) \o
    << <<"address", AX, n + 6 + Len(instructions) + 1>>, <<"const", BX, 70>>,
       <<"const", CX, 71>>, <<"const", DX, 3>>, <<"const", BP, 74>>,
       <<"const", SP, 80>> >>
    \o instructions \o << <<"nop">>, <<"end">> >>
\* A comparison and a jump on it, a complement on the stack, a string and an
\* input at the end of the memory.
Pairs == {<<<<"cmp", CX, r>>, <<jump, AX>>>> : r \in {BX, CX}, jump \in {"jmpc", "jmpz"}}
         \cup {<<<<"not", AX>>, <<"push", AX>>>>,
               <<<<"const", AX, MEMSIZE>>, <<"callprintfs", AX>>>>,
               <<<<"const", BX, MEMSIZE - 2>>, <<"callscanfs", BX, DX>>>>}
MCInstructions ==
    {Around(n, <<ins>>) : n \in 0..1, ins \in Tried}
    \cup {Around(n, pair) : n \in 0..1, pair \in Pairs}
MCInstructionPrograms == MCOperations \cup MCInstructions

\* Pushes, pops and calls behind the prologue of the programs of run; the
\* function stands behind end.
Prologue == << <<"address", BP, 99>>, <<"address", SP, 99>>, <<"const", AX, 2>>,
               <<"sub", SP, AX>>, <<"const", AX, 258>>, <<"const", BX, 65280>> >>
Step(k, f) ==
    CASE k = 1 -> << <<"push", AX>> >>
      [] k = 2 -> << <<"push", BX>> >>
      [] k = 3 -> << <<"pop", BX>> >>
      [] k = 4 -> << <<"address", DX, f>>, <<"call", DX>> >>
Functions ==
    { << <<"nop">>, <<"ret">> >>,
      << <<"push", BX>>, <<"pop", AX>>, <<"ret">> >>,
      << <<"pop", CX>>, <<"pop", BX>>, <<"push", AX>>, <<"push", CX>>, <<"ret">> >>,
      << <<"call", DX>>, <<"ret">> >> }
Calling(k1, k2, k3, k4, function) ==
    LET Body(f) == Step(k1, f) \o Step(k2, f) \o Step(k3, f) \o Step(k4, f)
        f == Len(Prologue) + 2 + Len(Body(1))
    IN Prologue \o Body(f) \o << <<"end">> >> \o function
MCStack == {Calling(k1, k2, k3, k4, function) :
              k1 \in 1..4, k2 \in 1..4, k3 \in 1..4, k4 \in 1..4,
              function \in Functions}

\* Jumps behind the code: the last word of the memory holds a handler without
\* its operand, a handler with a wrong operand, or no handler.
MCWild ==
    {<< <<"const", AX, v>>, <<"const", BX, MEMSIZE - 2>>, <<"storew", AX, BX>>,
        <<"const", CX, target>>, <<"jmp", CX>> >> :
        v \in {64, 16384, 61680, 0}, target \in {MEMSIZE - 2, MEMSIZE - 1, 65535}}
MCStackPrograms == MCStack \cup MCWild

\* Shifts of the edges.
MCShifts == {<< <<"const", AX, v>>, <<op, AX>>, <<op, AX>>, <<"end">> >> :
               v \in Edges, op \in {"shiftl", "shiftr"}}
=============================================================================

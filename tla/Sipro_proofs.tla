---------------------------- MODULE Sipro_proofs ----------------------------
(***************************************************************************)
(* Theorems about the SIPRO emulator.  For every program, every size of    *)
(* memory and every width of the registers the state keeps its type and    *)
(* the arithmetic is that of the integers.  For every program that uses    *)
(* its stack as one (StackDiscipline) and jumps to instructions alone      *)
(* (JumpDiscipline) sp and bp keep their shape, pushes, pops, calls and    *)
(* returns never write over the code, the emulator implements the stack of *)
(* SiproStack, and it decodes the lines that were assembled.               *)
(***************************************************************************)
EXTENDS Sipro, Sipro_operator_proofs

-----------------------------------------------------------------------------
(* Decoding.                                                               *)

\* An opcode has one handler.
LEMMA OneHandler ==
    ASSUME NEW n \in Handlers, NEW m \in Handlers, opcodes[n] = opcodes[m]
    PROVE  n = m
<1>1. Handlers = {"shiftr", "shiftl", "and", "or", "xor", "not", "add", "sub",
                  "mul", "div", "cp", "loadw", "storew", "loadb", "storeb",
                  "const", "push", "pop", "cmp", "uless", "sless", "jmp", "jmpz",
                  "jmpc", "jmpe", "call", "ret", "callprintfd", "callprintfu",
                  "callprintfs", "callscanfd", "callscanfu", "callscanfs", "nop",
                  "end"}
    BY DEF Handlers, opcodes
<1> QED
    BY <1>1 DEF opcodes

\* The names of the handlers.
LEMMA HandlerNames ==
    NoOperand \cup OneGeneral \cup TwoGeneral \cup OneAny \cup TwoAny \cup {"const"}
      = Handlers
    BY DEF NoOperand, OneGeneral, TwoGeneral, OneAny, TwoAny, Handlers, opcodes

\* At most one handler runs.
LEMMA OneExecuting ==
    ASSUME NEW n \in Handlers, NEW m \in Handlers, Executing(n), Executing(m)
    PROVE  n = m
    BY OneHandler DEF Executing, Fetched

\* The operands of a handler are registers it takes.
LEMMA Operands ==
    ASSUME NEW n \in Handlers, Executing(n)
    PROVE  /\ n \in OneGeneral => First \in General
           /\ n \in OneAny \cup {"const"} => First \in AnyRegister
           /\ n \in TwoGeneral \ {"callscanfs"} => First \in General /\ Second \in General
           /\ n \in TwoAny \cup {"callscanfs"} =>
                First \in AnyRegister /\ Second \in AnyRegister
<1>1. \A k \in 1..OperandCount(n) : memory[ip + k] \in Accepted(n)
    BY DEF Executing
<1>2. OperandCount(n) = 1 \/ OperandCount(n) = 2 => First \in Accepted(n)
    BY <1>1 DEF First
<1>3. OperandCount(n) = 2 => Second \in Accepted(n)
    BY <1>1 DEF Second
<1>4. /\ n \in OneGeneral => OperandCount(n) = 1 /\ Accepted(n) = General
      /\ n \in OneAny \cup {"const"} => OperandCount(n) = 1 /\ Accepted(n) = AnyRegister
      /\ n \in TwoGeneral \ {"callscanfs"} => OperandCount(n) = 2 /\ Accepted(n) = General
      /\ n \in TwoAny \cup {"callscanfs"} =>
           OperandCount(n) = 2 /\ Accepted(n) = AnyRegister
    BY DEF OperandCount, Accepted, NoOperand, OneGeneral, TwoGeneral, OneAny, TwoAny
<1> QED
    BY <1>2, <1>3, <1>4

\* The general registers are registers.
LEMMA Registers ==
    /\ General \subseteq AnyRegister
    /\ ID_SP \in AnyRegister /\ ID_BP \in AnyRegister /\ ID_SP # ID_BP
    /\ ID_SP \notin General /\ ID_BP \notin General
    /\ \A r \in AnyRegister : r \in General \/ r = ID_SP \/ r = ID_BP
    BY DEF General, AnyRegister, ID_SP, ID_BP, ID_AX, ID_BX, ID_CX, ID_DX

-----------------------------------------------------------------------------
(* The type of the state.                                                  *)

\* An address goes back to 0 behind the last unsigned int.
LEMMA Wraps ==
    ASSUME NEW n \in Int
    PROVE  /\ Wrap(n) \in Unsigned
           /\ n \in Nat /\ n < 2^UNSIGNEDBITS => Wrap(n) = n
<1>1. 2^UNSIGNEDBITS \in Nat \ {0}
    BY UnsignedWide
<1> DEFINE m == 2^UNSIGNEDBITS
<1> HIDE DEF m
<1>2. /\ n % m \in Nat /\ n % m < m
      /\ n \in Nat /\ n < m => n % m = n
    BY <1>1 DEF m
<1> QED
    BY <1>2, UnsignedRange DEF Wrap, m

\* The cells of a memory.
Memory == [0..(MEMSIZE - 1) -> Byte]

\* A word is read from two bytes.
LEMMA WordRead ==
    ASSUME memory \in Memory, NEW a \in Nat, IsWordAddress(a)
    PROVE  readWord(a) \in Word /\ readWord(a) \in Unsigned
<1>1. a \in 0..(MEMSIZE - 1) /\ a + 1 \in 0..(MEMSIZE - 1)
    BY EmulatorAssumption DEF IsWordAddress
<1>2. memory[a] \in Byte /\ memory[a + 1] \in Byte
    BY <1>1 DEF Memory
<1>3. readWord(a) \in Nat /\ readWord(a) < 65536
    BY <1>2, ByteRange DEF readWord
<1> QED
    BY <1>3, WordRange, WordIsUnsigned

\* A word is written to two bytes.
LEMMA WordIsWritten ==
    ASSUME memory \in Memory, NEW a \in Nat, IsWordAddress(a), NEW v \in Nat
    PROVE  /\ WordWritten(a, v) \in Memory
           /\ 256 * WordWritten(a, v)[a] + WordWritten(a, v)[a + 1] = v % 65536
           /\ \A b \in 0..(MEMSIZE - 1) :
                b # a /\ b # a + 1 => WordWritten(a, v)[b] = memory[b]
<1> DEFINE high == (v \div 256) % 256
           low == v % 256
<1>1. /\ a \in 0..(MEMSIZE - 1) /\ a + 1 \in 0..(MEMSIZE - 1)
      /\ a # a + 1
    BY EmulatorAssumption DEF IsWordAddress
<1>2. high \in Nat /\ high < 256 /\ low \in Nat /\ low < 256
    OBVIOUS
<1>3. high \in Byte /\ low \in Byte
    BY <1>2, ByteRange
<1>4. 256 * high + low = v % 65536
    OBVIOUS
<1>5. WordWritten(a, v) = [memory EXCEPT ![a] = high, ![a + 1] = low]
    BY DEF WordWritten
<1> HIDE DEF high, low
<1>6. /\ WordWritten(a, v) \in Memory
      /\ WordWritten(a, v)[a] = high /\ WordWritten(a, v)[a + 1] = low
      /\ \A b \in 0..(MEMSIZE - 1) :
                b # a /\ b # a + 1 => WordWritten(a, v)[b] = memory[b]
    BY <1>1, <1>3, <1>5 DEF Memory
<1> QED
    BY <1>4, <1>6

\* What a handler leaves is of its type.
LEMMA ComputingTyped ==
    ASSUME TypeOK, NEW result, NEW i, NEW n \in Nat, Computing(result, n),
           TypedResult(result, AnyRegister, registers, i)
    PROVE  TypeOK'
<1>1. ip' \in Unsigned
  <2>1. ip \in Nat
    BY UnsignedRange DEF TypeOK
  <2>2. ip + n \in Int
    BY <2>1
  <2> QED
    BY <2>2, Wraps DEF Computing, Advance
<1>2. registers' \in [AnyRegister -> Unsigned] /\ fl' \in Flags
    BY DEF Computing, TypedResult
<1> QED
    BY <1>1, <1>2 DEF TypeOK, Computing

\* A bus error stops the emulator with its state.
LEMMA BusErrorTyped ==
    ASSUME TypeOK, BusError
    PROVE  TypeOK'
    BY DEF TypeOK, BusError

-----------------------------------------------------------------------------
(* What a step does, in terms of what it may change.                       *)

\* The cells a handler takes.
Length(name) ==
    IF name = "const" THEN ConstantAt + 2 - ip
    ELSE IF name \in NoOperand THEN 1
    ELSE IF name \in OneGeneral \cup OneAny THEN 2
    ELSE 3

\* A handler that writes its first register and the flags, the memory, or the
\* output, and goes on behind its operands.
Writes(name) ==
    /\ Executing(name)
    /\ \E result : /\ Computing(result, Length(name))
                   /\ TypedResult(result, AnyRegister, registers, First)
Stores(name) ==
    /\ Executing(name)
    /\ memory' \in Memory /\ fl' \in Flags
    /\ Advance(Length(name))
    /\ UNCHANGED <<program, registers, output, status>>
Prints(name) ==
    /\ Executing(name) /\ name \in {"callprintfd", "callprintfu", "callprintfs"}
    /\ \E text : Printing(text)
Jumps(name) == Executing(name) /\ \E c \in BOOLEAN : Jumping(c)

\* The emulator stops, and leaves everything as it is.
Halted ==
    /\ status' \in {"ended", "failed", "stopped", "crashed"}
    /\ UNCHANGED <<program, registers, ip, fl, memory, output>>

\* The arithmetic, logic and comparison instructions write one register.
LEMMA ArithmeticSteps ==
    ASSUME TypeOK, Arithmetic
    PROVE  \/ Halted
           \/ \E name \in Handlers \ {"push", "pop", "call", "ret"} : Writes(name)
<1> DEFINE Good == \/ Halted
                   \/ \E name \in Handlers \ {"push", "pop", "call", "ret"} :
                          Writes(name)
           R == AnyRegister
<1>1. registers \in [R -> Unsigned] /\ General \subseteq R
    BY Registers DEF TypeOK
<1>2. CASE shiftr
  <2>1. /\ "shiftr" \in Handlers \ {"push", "pop", "call", "ret"}
        /\ "shiftr" \in OneGeneral /\ Length("shiftr") = 2
    BY DEF Handlers, opcodes, OneGeneral, NoOperand, Length
  <2>2. First \in R
    BY <1>2, <2>1, <1>1, Operands DEF shiftr
  <2>3. TypedResult(shiftr_f(registers, First), R, registers, First)
    BY <1>1, <2>2, UnaryTyped
  <2> QED
    BY <1>2, <2>1, <2>3 DEF shiftr, Writes
<1>3. CASE not
  <2>1. /\ "not" \in Handlers \ {"push", "pop", "call", "ret"}
        /\ "not" \in OneGeneral /\ Length("not") = 2
    BY DEF Handlers, opcodes, OneGeneral, NoOperand, Length
  <2>2. First \in R
    BY <1>3, <2>1, <1>1, Operands DEF not
  <2>3. TypedResult(not_f(registers, First), R, registers, First)
    BY <1>1, <2>2, UnaryTyped
  <2> QED
    BY <1>3, <2>1, <2>3 DEF not, Writes
<1>4. CASE shiftl
  <2>1. /\ "shiftl" \in Handlers \ {"push", "pop", "call", "ret"}
        /\ "shiftl" \in OneGeneral /\ Length("shiftl") = 2
    BY DEF Handlers, opcodes, OneGeneral, NoOperand, Length
  <2>2. First \in R
    BY <1>4, <2>1, <1>1, Operands DEF shiftl
  <2>3. TypedResult(shiftl_f(registers, First), R, registers, First)
    BY <1>1, <2>2, UnaryTyped
  <2>4. CASE shiftl_stops(registers, First)
    BY <1>4, <2>4 DEF shiftl, BusError, Halted
  <2>5. CASE ~shiftl_stops(registers, First)
    BY <1>4, <2>1, <2>3, <2>5 DEF shiftl, Writes
  <2> QED
    BY <2>4, <2>5
<1>5. CASE and
  <2>1. /\ "and" \in Handlers \ {"push", "pop", "call", "ret"}
        /\ "and" \in TwoGeneral /\ Length("and") = 3
    BY DEF Handlers, opcodes, TwoGeneral, NoOperand, OneGeneral, OneAny, Length
  <2>2. First \in R /\ Second \in R
    BY <1>5, <2>1, <1>1, Operands DEF and
  <2>3. TypedResult(and_f(registers, First, Second), R, registers, First)
    BY <1>1, <2>2, BinaryTyped
  <2> QED
    BY <1>5, <2>1, <2>3 DEF and, Writes
<1>6. CASE or
  <2>1. /\ "or" \in Handlers \ {"push", "pop", "call", "ret"}
        /\ "or" \in TwoGeneral /\ Length("or") = 3
    BY DEF Handlers, opcodes, TwoGeneral, NoOperand, OneGeneral, OneAny, Length
  <2>2. First \in R /\ Second \in R
    BY <1>6, <2>1, <1>1, Operands DEF or
  <2>3. TypedResult(or_f(registers, First, Second), R, registers, First)
    BY <1>1, <2>2, BinaryTyped
  <2> QED
    BY <1>6, <2>1, <2>3 DEF or, Writes
<1>7. CASE xor
  <2>1. /\ "xor" \in Handlers \ {"push", "pop", "call", "ret"}
        /\ "xor" \in TwoGeneral /\ Length("xor") = 3
    BY DEF Handlers, opcodes, TwoGeneral, NoOperand, OneGeneral, OneAny, Length
  <2>2. First \in R /\ Second \in R
    BY <1>7, <2>1, <1>1, Operands DEF xor
  <2>3. TypedResult(xor_f(registers, First, Second), R, registers, First)
    BY <1>1, <2>2, BinaryTyped
  <2> QED
    BY <1>7, <2>1, <2>3 DEF xor, Writes
<1>8. CASE mul
  <2>1. /\ "mul" \in Handlers \ {"push", "pop", "call", "ret"}
        /\ "mul" \in TwoGeneral /\ Length("mul") = 3
    BY DEF Handlers, opcodes, TwoGeneral, NoOperand, OneGeneral, OneAny, Length
  <2>2. First \in R /\ Second \in R
    BY <1>8, <2>1, <1>1, Operands DEF mul
  <2>3. TypedResult(mul_f(registers, First, Second), R, registers, First)
    BY <1>1, <2>2, MulResult
  <2> QED
    BY <1>8, <2>1, <2>3 DEF mul, Writes
<1>9. CASE div
  <2>1. /\ "div" \in Handlers \ {"push", "pop", "call", "ret"}
        /\ "div" \in TwoGeneral /\ Length("div") = 3
    BY DEF Handlers, opcodes, TwoGeneral, NoOperand, OneGeneral, OneAny, Length
  <2>2. First \in R /\ Second \in R
    BY <1>9, <2>1, <1>1, Operands DEF div
  <2>3. TypedResult(div_f(registers, First, Second), R, registers, First)
    BY <1>1, <2>2, DivResult
  <2> QED
    BY <1>9, <2>1, <2>3 DEF div, Writes
<1>10. CASE add
  <2>1. /\ "add" \in Handlers \ {"push", "pop", "call", "ret"}
        /\ "add" \in TwoAny /\ Length("add") = 3
    BY DEF Handlers, opcodes, TwoAny, NoOperand, OneGeneral, OneAny, Length
  <2>2. First \in R /\ Second \in R
    BY <1>10, <2>1, <1>1, Operands DEF add
  <2>3. TypedResult(add_f(registers, First, Second), R, registers, First)
    BY <1>1, <2>2, AddResult
  <2> QED
    BY <1>10, <2>1, <2>3 DEF add, Writes
<1>11. CASE sub
  <2>1. /\ "sub" \in Handlers \ {"push", "pop", "call", "ret"}
        /\ "sub" \in TwoAny /\ Length("sub") = 3
    BY DEF Handlers, opcodes, TwoAny, NoOperand, OneGeneral, OneAny, Length
  <2>2. First \in R /\ Second \in R
    BY <1>11, <2>1, <1>1, Operands DEF sub
  <2>3. TypedResult(sub_f(registers, First, Second), R, registers, First)
    BY <1>1, <2>2, SubResult
  <2> QED
    BY <1>11, <2>1, <2>3 DEF sub, Writes
<1>12. CASE cp
  <2>1. /\ "cp" \in Handlers \ {"push", "pop", "call", "ret"}
        /\ "cp" \in TwoAny /\ Length("cp") = 3
    BY DEF Handlers, opcodes, TwoAny, NoOperand, OneGeneral, OneAny, Length
  <2>2. First \in R /\ Second \in R
    BY <1>12, <2>1, <1>1, Operands DEF cp
  <2>3. TypedResult(cp_f(registers, First, Second), R, registers, First)
    BY <1>1, <2>2, BinaryTyped
  <2> QED
    BY <1>12, <2>1, <2>3 DEF cp, Writes
<1>13. CASE cmp
  <2>1. /\ "cmp" \in Handlers \ {"push", "pop", "call", "ret"}
        /\ "cmp" \in TwoAny /\ Length("cmp") = 3
    BY DEF Handlers, opcodes, TwoAny, NoOperand, OneGeneral, OneAny, Length
  <2>2. First \in R /\ Second \in R
    BY <1>13, <2>1, <1>1, Operands DEF cmp
  <2>3. TypedResult(cmp_f(registers, First, Second), R, registers, First)
    BY <1>1, <2>2, BinaryTyped
  <2> QED
    BY <1>13, <2>1, <2>3 DEF cmp, Writes
<1>14. CASE uless
  <2>1. /\ "uless" \in Handlers \ {"push", "pop", "call", "ret"}
        /\ "uless" \in TwoAny /\ Length("uless") = 3
    BY DEF Handlers, opcodes, TwoAny, NoOperand, OneGeneral, OneAny, Length
  <2>2. First \in R /\ Second \in R
    BY <1>14, <2>1, <1>1, Operands DEF uless
  <2>3. TypedResult(uless_f(registers, First, Second), R, registers, First)
    BY <1>1, <2>2, BinaryTyped
  <2> QED
    BY <1>14, <2>1, <2>3 DEF uless, Writes
<1>15. CASE sless
  <2>1. /\ "sless" \in Handlers \ {"push", "pop", "call", "ret"}
        /\ "sless" \in TwoAny /\ Length("sless") = 3
    BY DEF Handlers, opcodes, TwoAny, NoOperand, OneGeneral, OneAny, Length
  <2>2. First \in R /\ Second \in R
    BY <1>15, <2>1, <1>1, Operands DEF sless
  <2>3. TypedResult(sless_f(registers, First, Second), R, registers, First)
    BY <1>1, <2>2, BinaryTyped
  <2> QED
    BY <1>15, <2>1, <2>3 DEF sless, Writes
<1>16. CASE nop
  <2>1. "nop" \in Handlers \ {"push", "pop", "call", "ret"} /\ Length("nop") = 1
    BY DEF Handlers, opcodes, NoOperand, Length
  <2>2. TypedResult(Result(registers, NoFlag), R, registers, First)
    BY <1>1, FewFlags DEF TypedResult, Result
  <2> QED
    BY <1>16, <2>1, <2>2 DEF nop, Writes
<1> QED
    BY <1>2, <1>3, <1>4, <1>5, <1>6, <1>7, <1>8, <1>9, <1>10, <1>11, <1>12,
       <1>13, <1>14, <1>15, <1>16 DEF Arithmetic

\* A handler that loads its first register.
LEMMA LoadedWrites ==
    ASSUME TypeOK, NEW r \in AnyRegister, NEW value \in Unsigned, NEW n \in Nat,
           Loaded(r, value, n)
    PROVE  \E result : /\ Computing(result, n)
                       /\ TypedResult(result, AnyRegister, registers, r)
<1> DEFINE result == Result(Assigned(registers, r, value), NoFlag)
<1>1. registers \in [AnyRegister -> Unsigned]
    BY DEF TypeOK
<1>2. TypedResult(result, AnyRegister, registers, r)
    BY <1>1, FewFlags, Wrote
<1>3. Computing(result, n)
    BY DEF Loaded, Assigned
<1> QED
    BY <1>2, <1>3

\* An address in a register is a number.
LEMMA Addresses ==
    ASSUME TypeOK
    PROVE  /\ ip \in Nat /\ memory \in Memory
           /\ \A r \in AnyRegister : registers[r] \in Unsigned /\ registers[r] \in Nat
<1>1. ip \in Nat
    BY UnsignedRange DEF TypeOK
<1>2. memory \in Memory
    BY DEF TypeOK, Memory
<1>3. ASSUME NEW r \in AnyRegister
      PROVE  registers[r] \in Unsigned /\ registers[r] \in Nat
  <2>1. registers[r] \in Unsigned
    BY DEF TypeOK
  <2> QED
    BY <2>1, UnsignedRange
<1> QED
    BY <1>1, <1>2, <1>3

\* The loads write a register, the stores the memory.
LEMMA MemorySteps ==
    ASSUME TypeOK, MemoryAccess
    PROVE  \/ Halted
           \/ \E name \in Handlers \ {"push", "pop", "call", "ret"} :
                Writes(name) \/ Stores(name)
<1>1. /\ ip \in Nat /\ memory \in Memory
      /\ \A r \in AnyRegister : registers[r] \in Unsigned /\ registers[r] \in Nat
    BY Addresses
<1>2. BusError => Halted
    BY DEF BusError, Halted
<1>3. /\ {"loadw", "loadb", "storew", "storeb", "const"}
            \subseteq Handlers \ {"push", "pop", "call", "ret"}
      /\ {"loadw", "loadb", "storew", "storeb"} \subseteq TwoAny
      /\ Length("loadw") = 3 /\ Length("loadb") = 3
      /\ Length("storew") = 3 /\ Length("storeb") = 3
      /\ Length("const") = ConstantAt + 2 - ip
    BY DEF Handlers, opcodes, TwoAny, NoOperand, OneGeneral, OneAny, Length
<1>4. ASSUME NEW name \in {"loadw", "loadb", "storew", "storeb"}, Executing(name)
      PROVE  First \in AnyRegister /\ Second \in AnyRegister
    BY <1>3, <1>4, Operands
<1>5. CASE loadw
  <2> DEFINE a == registers[Second]
  <2>1. Executing("loadw") /\ First \in AnyRegister /\ a \in Nat
    BY <1>1, <1>4, <1>5 DEF loadw
  <2>2. CASE IsWordAddress(a)
    <3>1. Loaded(First, readWord(a), 3)
        BY <1>5, <2>2 DEF loadw
    <3>2. readWord(a) \in Unsigned
        BY <1>1, <2>1, <2>2, WordRead
    <3>3. Writes("loadw")
        BY <1>3, <2>1, <3>1, <3>2, LoadedWrites DEF Writes
    <3> QED
        BY <1>3, <3>3
  <2>3. CASE ~IsWordAddress(a)
    BY <1>2, <1>5, <2>3 DEF loadw
  <2> QED
    BY <2>2, <2>3
<1>6. CASE loadb
  <2> DEFINE a == registers[Second]
  <2>1. Executing("loadb") /\ First \in AnyRegister /\ a \in Nat
    BY <1>1, <1>4, <1>6 DEF loadb
  <2>2. CASE IsByteAddress(a)
    <3>1. Loaded(First, memory[a], 3)
        BY <1>6, <2>2 DEF loadb
    <3>2. memory[a] \in Unsigned
      <4>1. a \in 0..(MEMSIZE - 1)
        BY <2>1, <2>2, EmulatorAssumption DEF IsByteAddress
      <4>2. memory[a] \in Byte
        BY <1>1, <4>1 DEF Memory
      <4>3. memory[a] \in Nat /\ memory[a] < 65536
        BY <4>2, ByteRange
      <4> QED
        BY <4>3, WordRange, WordIsUnsigned
    <3>3. Writes("loadb")
        BY <1>3, <2>1, <3>1, <3>2, LoadedWrites DEF Writes
    <3> QED
        BY <1>3, <3>3
  <2>3. CASE ~IsByteAddress(a)
    BY <1>2, <1>6, <2>3 DEF loadb
  <2> QED
    BY <2>2, <2>3
<1>7. CASE storew
  <2> DEFINE a == registers[Second]
  <2>1. Executing("storew") /\ registers[First] \in Nat /\ a \in Nat
    BY <1>1, <1>4, <1>7 DEF storew
  <2>2. CASE IsWordAddress(a)
    <3>1. Stored(WordWritten(a, registers[First]), 3)
        BY <1>7, <2>2 DEF storew
    <3>2. WordWritten(a, registers[First]) \in Memory
        BY <1>1, <2>1, <2>2, WordIsWritten
    <3>3. Stores("storew")
        BY <1>3, <2>1, <3>1, <3>2, FewFlags DEF Stores, Stored
    <3> QED
        BY <1>3, <3>3
  <2>3. CASE ~IsWordAddress(a)
    BY <1>2, <1>7, <2>3 DEF storew
  <2> QED
    BY <2>2, <2>3
<1>8. CASE storeb
  <2> DEFINE a == registers[Second]
             mem == [memory EXCEPT ![a] = a % 256]
  <2>1. Executing("storeb") /\ a \in Nat
    BY <1>1, <1>4, <1>8 DEF storeb
  <2>2. CASE IsByteAddress(a)
    <3>1. Stored(mem, 3)
        BY <1>8, <2>2 DEF storeb
    <3>2. mem \in Memory
      <4>1. a \in 0..(MEMSIZE - 1)
        BY <2>1, <2>2, EmulatorAssumption DEF IsByteAddress
      <4>2. a % 256 \in Nat /\ a % 256 < 256
        BY <2>1
      <4>3. a % 256 \in Byte
        BY <4>2, ByteRange
      <4> QED
        BY <1>1, <4>1, <4>3 DEF Memory
    <3>3. Stores("storeb")
        BY <1>3, <2>1, <3>1, <3>2, FewFlags DEF Stores, Stored
    <3> QED
        BY <1>3, <3>3
  <2>3. CASE ~IsByteAddress(a)
    BY <1>2, <1>8, <2>3 DEF storeb
  <2> QED
    BY <2>2, <2>3
<1>9. CASE const
  <2>1. Executing("const") /\ First \in AnyRegister
    BY <1>3, <1>9, Operands DEF const
  <2>2. ConstantAt \in Nat /\ ConstantAt + 2 - ip \in Nat
    BY <1>1 DEF ConstantAt
  <2>3. CASE IsWordAddress(ConstantAt)
    <3>1. Loaded(First, readWord(ConstantAt), ConstantAt + 2 - ip)
        BY <1>9, <2>3 DEF const
    <3>2. readWord(ConstantAt) \in Unsigned
        BY <1>1, <2>2, <2>3, WordRead
    <3>3. Writes("const")
        BY <1>3, <2>1, <2>2, <3>1, <3>2, LoadedWrites DEF Writes
    <3> QED
        BY <1>3, <3>3
  <2>4. CASE ~IsWordAddress(ConstantAt)
    BY <1>2, <1>9, <2>4 DEF const
  <2> QED
    BY <2>3, <2>4
<1> QED
    BY <1>5, <1>6, <1>7, <1>8, <1>9 DEF MemoryAccess

\* The jumps leave everything but ip; end stops the emulator.
LEMMA ControlSteps ==
    ASSUME Control
    PROVE  \/ Halted
           \/ \E name \in {"jmp", "jmpz", "jmpc", "jmpe"} : Jumps(name)
<1>1. end => Halted
    BY DEF end, Halted
<1>2. jmp => Jumps("jmp")
    BY DEF jmp, Jumps
<1>3. ASSUME NEW c, Jumping(c) PROVE \E b \in BOOLEAN : Jumping(b)
  <2>1. Jumping(c = TRUE) \/ Jumping(TRUE) \/ Jumping(FALSE)
    BY <1>3 DEF Jumping
  <2> QED
    BY <2>1
<1>4. jmpz => Jumps("jmpz")
    BY <1>3 DEF jmpz, Jumps
<1>5. jmpc => Jumps("jmpc")
    BY <1>3 DEF jmpc, Jumps
<1>6. jmpe => Jumps("jmpe")
    BY <1>3 DEF jmpe, Jumps
<1> QED
    BY <1>1, <1>2, <1>4, <1>5, <1>6 DEF Control

\* The instructions for output print; those for input write the memory, or the
\* flag e.
LEMMA InputOutputSteps ==
    ASSUME TypeOK, InputOutput
    PROVE  \/ Halted
           \/ \E name \in {"callprintfd", "callprintfu", "callprintfs", "callscanfd",
                          "callscanfu", "callscanfs"} :
                Writes(name) \/ Stores(name) \/ Prints(name)
<1>1. /\ ip \in Nat /\ memory \in Memory
      /\ \A r \in AnyRegister : registers[r] \in Unsigned /\ registers[r] \in Nat
    BY Addresses
<1>2. BusError => Halted
    BY DEF BusError, Halted
<1>3. callprintfd => Halted \/ Prints("callprintfd")
    BY <1>2 DEF callprintfd, Prints
<1>4. callprintfu => Halted \/ Prints("callprintfu")
    BY <1>2 DEF callprintfu, Prints
<1>5. callprintfs => Halted \/ Prints("callprintfs")
  <2>1. ASSUME status' = "crashed",
               UNCHANGED <<program, registers, ip, fl, memory, output>>
        PROVE  Halted
    BY <2>1 DEF Halted
  <2> QED
    BY <2>1 DEF callprintfs, Prints, Halted
<1>6. ASSUME NEW name \in {"callscanfd", "callscanfu"}, Executing(name),
             NEW interval \in SUBSET Int, Scanning(interval)
      PROVE  Halted \/ Writes(name) \/ Stores(name)
  <2>1. /\ name \in OneGeneral /\ name \in Handlers /\ Length(name) = 2
    BY DEF Handlers, opcodes, OneGeneral, NoOperand, Length
  <2>2. First \in AnyRegister /\ registers[First] \in Nat
    BY <1>1, <1>6, <2>1, Operands, Registers
  <2> DEFINE told == [NoFlag EXCEPT !.e = TRUE]
  <2>3. CASE Computing(Result(registers, told), 2)
    <3>1. TypedResult(Result(registers, told), AnyRegister, registers, First)
        BY FewFlags DEF TypedResult, Result, TypeOK
    <3> QED
        BY <1>6, <2>1, <2>3, <3>1 DEF Writes
  <2>4. CASE BusError
    BY <1>2, <2>4
  <2>5. ASSUME IsWordAddress(registers[First]), NEW number \in Numbers \cap interval,
               Stored(WordWritten(registers[First], longIntToRegister(number)), 2)
        PROVE  Stores(name)
    <3>1. longIntToRegister(number) \in Nat
      <4>1. number \in Int
        BY EmulatorAssumption
      <4>2. longIntToRegister(number) \in Word
        BY <4>1, WordOf
      <4> QED
        BY <4>2, WordRange
    <3>2. WordWritten(registers[First], longIntToRegister(number)) \in Memory
        BY <1>1, <2>2, <2>5, <3>1, WordIsWritten
    <3> QED
        BY <1>6, <2>1, <2>5, <3>2, FewFlags DEF Stores, Stored
  <2> QED
    BY <1>6, <2>3, <2>4, <2>5 DEF Scanning
<1>7. callscanfd => Halted \/ Writes("callscanfd") \/ Stores("callscanfd")
  <2>1. SIPRO_INTMIN..SIPRO_INTMAX \in SUBSET Int
    BY DEF SIPRO_INTMIN, SIPRO_INTMAX
  <2> QED
    BY <1>6, <2>1 DEF callscanfd
<1>8. callscanfu => Halted \/ Writes("callscanfu") \/ Stores("callscanfu")
  <2>1. Word \in SUBSET Int
    BY WordRange
  <2> QED
    BY <1>6, <2>1 DEF callscanfu
<1>9. CASE callscanfs
  <2>1. /\ "callscanfs" \in Handlers /\ "callscanfs" \in TwoGeneral
        /\ Length("callscanfs") = 3
    BY DEF Handlers, opcodes, TwoGeneral, OneGeneral, OneAny, NoOperand, Length
  <2>2. /\ Executing("callscanfs")
        /\ registers[First] \in Nat /\ registers[Second] \in Nat
    BY <1>1, <1>9, <2>1, Operands DEF callscanfs
  <2>3. PICK line \in Lines :
          LET a == registers[First]
              i == IF Len(line) < registers[Second] THEN Len(line)
                   ELSE registers[Second]
              Cell(k) == Wrap(a + k)
          IN IF \A k \in 0..i : IsByteAddress(Cell(k))
             THEN /\ memory' = [b \in DOMAIN memory |->
                                  IF b \in a..(a + i - 1) THEN line[b - a + 1]
                                  ELSE IF b = a + i THEN 0 ELSE memory[b]]
                  /\ fl' = [NoFlag EXCEPT !.z = (i = 0)]
                  /\ Advance(3)
                  /\ UNCHANGED <<program, registers, output, status>>
             ELSE BusError
    BY <1>9 DEF callscanfs
  <2> DEFINE a == registers[First]
             i == IF Len(line) < registers[Second] THEN Len(line)
                  ELSE registers[Second]
             mem == [b \in DOMAIN memory |->
                        IF b \in a..(a + i - 1) THEN line[b - a + 1]
                        ELSE IF b = a + i THEN 0 ELSE memory[b]]
             told == [NoFlag EXCEPT !.z = (i = 0)]
  <2>4. line \in Seq(Byte \ {0})
    BY EmulatorAssumption
  <2>5. i \in Nat /\ i <= Len(line)
    BY <2>2, <2>4
  <2>6. mem \in Memory
    <3>1. ASSUME NEW b \in 0..(MEMSIZE - 1)
          PROVE  (IF b \in a..(a + i - 1) THEN line[b - a + 1]
                  ELSE IF b = a + i THEN 0 ELSE memory[b]) \in Byte
      <4>1. CASE b \in a..(a + i - 1)
        <5>1. b - a + 1 \in 1..Len(line)
            BY <2>2, <2>5, <4>1
        <5> QED
            BY <2>4, <4>1, <5>1
      <4>2. CASE b \notin a..(a + i - 1)
        <5>1. 0 \in Byte /\ memory[b] \in Byte
            BY <1>1, ByteRange DEF Memory
        <5> QED
            BY <4>2, <5>1
      <4> QED
        BY <4>1, <4>2
    <3>2. DOMAIN memory = 0..(MEMSIZE - 1)
        BY <1>1 DEF Memory
    <3> QED
        BY <3>1, <3>2 DEF Memory
  <2>7. told \in Flags
    BY DEF NoFlag, Flags
  <2>8. \/ BusError
        \/ /\ memory' = mem /\ fl' = told /\ Advance(3)
           /\ UNCHANGED <<program, registers, output, status>>
    BY <2>3
  <2> HIDE DEF mem, told
  <2> QED
    BY <1>2, <2>1, <2>2, <2>6, <2>7, <2>8 DEF Stores
<1> QED
    BY <1>3, <1>4, <1>5, <1>7, <1>8, <1>9 DEF InputOutput

\* A push stops the emulator at the end of the memory; else it writes the word
\* behind sp.
LEMMA PushSteps ==
    ASSUME TypeOK, NEW v \in Nat, NEW next \in Unsigned, Pushed(v, next)
    PROVE  \/ Halted
           \/ /\ IsWordAddress(Wrap(sp + 2))
              /\ memory' = WordWritten(Wrap(sp + 2), v) /\ memory' \in Memory
              /\ registers' = [registers EXCEPT ![ID_SP] = Wrap(sp + 2)]
              /\ registers' \in [AnyRegister -> Unsigned]
              /\ fl' = NoFlag /\ ip' = next
              /\ UNCHANGED <<program, output, status>>
<1> DEFINE a == Wrap(sp + 2)
<1>1. sp \in Nat /\ memory \in Memory /\ registers \in [AnyRegister -> Unsigned]
    BY Addresses, Registers DEF sp, TypeOK
<1>2. a \in Unsigned /\ a \in Nat
  <2>1. sp + 2 \in Int
    BY <1>1
  <2> QED
    BY <2>1, Wraps, UnsignedRange
<1> HIDE DEF a
<1>3. CASE ~IsWordAddress(a)
    BY <1>3 DEF Pushed, BusError, Halted, a
<1>4. CASE IsWordAddress(a)
  <2>1. WordWritten(a, v) \in Memory
    BY <1>1, <1>2, <1>4, WordIsWritten
  <2>2. [registers EXCEPT ![ID_SP] = a] \in [AnyRegister -> Unsigned]
    BY <1>1, <1>2
  <2> QED
    BY <1>4, <2>1, <2>2 DEF Pushed, a
<1> QED
    BY <1>3, <1>4

\* A pop or a return takes the word at sp.
LEMMA Popped ==
    ASSUME TypeOK, IsWordAddress(sp)
    PROVE  /\ [registers EXCEPT ![ID_SP] = Wrap(@ - 2)]
                \in [AnyRegister -> Unsigned]
           /\ \A r \in AnyRegister :
                [registers EXCEPT ![ID_SP] = Wrap(@ - 2), ![r] = readWord(sp)]
                    \in [AnyRegister -> Unsigned]
           /\ readWord(sp) \in Unsigned
<1>1. sp \in Nat /\ memory \in Memory /\ registers \in [AnyRegister -> Unsigned]
    BY Addresses, Registers DEF sp, TypeOK
<1>2. readWord(sp) \in Unsigned
    BY <1>1, WordRead
<1>3. Wrap(registers[ID_SP] - 2) \in Unsigned
  <2>1. registers[ID_SP] - 2 \in Int
    BY <1>1 DEF sp
  <2> QED
    BY <2>1, Wraps
<1> QED
    BY <1>1, <1>2, <1>3

\* The stack instructions keep the types.
LEMMA StackTyped ==
    ASSUME TypeOK, Stack
    PROVE  TypeOK'
<1>1. /\ ip \in Nat /\ memory \in Memory
      /\ \A r \in AnyRegister : registers[r] \in Unsigned /\ registers[r] \in Nat
    BY Addresses
<1>2. Wrap(ip + 2) \in Unsigned /\ Wrap(ip + 2) \in Nat
  <2>1. ip + 2 \in Int
    BY <1>1
  <2> QED
    BY <2>1, Wraps, UnsignedRange
<1>3. Halted => TypeOK'
    BY DEF Halted, TypeOK
<1>4. ASSUME NEW v \in Nat, NEW next \in Unsigned, Pushed(v, next) PROVE TypeOK'
    BY <1>3, <1>4, PushSteps, FewFlags DEF TypeOK, Memory
<1>5. {"push", "pop"} \subseteq OneAny /\ "call" \in OneGeneral
        /\ {"push", "pop", "call"} \subseteq Handlers
    BY DEF OneAny, OneGeneral, Handlers, opcodes
<1>6. CASE push
  <2>1. registers[First] \in Nat
    BY <1>1, <1>5, <1>6, Operands DEF push
  <2> QED
    BY <1>2, <1>4, <1>6, <2>1 DEF push
<1>7. CASE call
  <2>1. registers[First] \in Unsigned
    BY <1>1, <1>5, <1>7, Operands, Registers DEF call
  <2> QED
    BY <1>2, <1>4, <1>7, <2>1 DEF call
<1>8. CASE pop
  <2>1. First \in AnyRegister
    BY <1>5, <1>8, Operands DEF pop
  <2>2. registers \in [AnyRegister -> Unsigned]
    BY DEF TypeOK
  <2>3. CASE sp < bp
    <3> DEFINE told == [NoFlag EXCEPT !.e = TRUE]
    <3>1. Computing(Result(registers, told), 2)
        BY <1>8, <2>3 DEF pop
    <3>2. Result(registers, told).regs = registers /\ Result(registers, told).fl = told
        BY DEF Result
    <3> HIDE DEF told
    <3>3. registers' = registers /\ fl' = told /\ ip' = Wrap(ip + 2)
            /\ UNCHANGED <<program, memory, output, status>>
        BY <3>1, <3>2 DEF Computing, Advance
    <3> QED
        BY <1>2, <3>3, FewFlags DEF TypeOK, told
  <2>4. CASE ~(sp < bp) /\ IsWordAddress(sp)
    <3> DEFINE Q == [registers EXCEPT ![ID_SP] = Wrap(@ - 2), ![First] = readWord(sp)]
    <3>1. Computing(Result(Q, NoFlag), 2)
        BY <1>8, <2>4 DEF pop
    <3>2. Q \in [AnyRegister -> Unsigned]
        BY <2>1, <2>4, Popped
    <3> HIDE DEF Q
    <3>3. registers' = Q /\ fl' = NoFlag /\ ip' = Wrap(ip + 2)
            /\ UNCHANGED <<program, memory, output, status>>
        BY <3>1 DEF Computing, Advance, Result
    <3> QED
        BY <1>2, <3>2, <3>3, FewFlags DEF TypeOK
  <2>5. CASE ~(sp < bp) /\ ~IsWordAddress(sp)
    BY <1>8, <2>5, BusErrorTyped DEF pop
  <2> QED
    BY <2>3, <2>4, <2>5
<1>9. CASE ret
  <2>1. CASE IsWordAddress(sp)
    <3>1. /\ registers' = [registers EXCEPT ![ID_SP] = Wrap(@ - 2)]
          /\ ip' = readWord(sp)
          /\ UNCHANGED <<program, fl, memory, output, status>>
        BY <1>9, <2>1 DEF ret
    <3> QED
        BY <2>1, <3>1, Popped DEF TypeOK
  <2>2. CASE ~IsWordAddress(sp)
    BY <1>9, <2>2, BusErrorTyped DEF ret
  <2> QED
    BY <2>1, <2>2
<1> QED
    BY <1>6, <1>7, <1>8, <1>9 DEF Stack

\* Every step but those of the stack halts the emulator, or writes one register,
\* the memory, the output or ip.
LEMMA Steps ==
    ASSUME TypeOK, Next
    PROVE  \/ Halted
           \/ Stack
           \/ \E name \in {"jmp", "jmpz", "jmpc", "jmpe"} : Jumps(name)
           \/ \E name \in Handlers \ {"push", "pop", "call", "ret"} :
                Writes(name) \/ Stores(name) \/ Prints(name)
<1>1. {"callprintfd", "callprintfu", "callprintfs", "callscanfd", "callscanfu",
       "callscanfs"} \subseteq Handlers \ {"push", "pop", "call", "ret"}
    BY DEF Handlers, opcodes
<1>2. FetchFault \/ Refusal => Halted
    BY DEF FetchFault, Refusal, BusError, Halted
<1> QED
    BY <1>1, <1>2, ArithmeticSteps, MemorySteps, ControlSteps,
       InputOutputSteps DEF Next

\* A step keeps the types.
LEMMA NextTyped ==
    ASSUME TypeOK, Next
    PROVE  TypeOK'
<1>1. Halted => TypeOK'
    BY DEF Halted, TypeOK
<1>2. /\ ip \in Nat /\ ip \in Unsigned
      /\ \A r \in AnyRegister : registers[r] \in Unsigned
    BY Addresses DEF TypeOK
<1>3. ASSUME NEW name \in Handlers PROVE Length(name) \in Nat
  <2>1. ConstantAt + 2 - ip \in Nat
    BY <1>2 DEF ConstantAt
  <2> QED
    BY <2>1 DEF Length
<1>4. ASSUME NEW n \in Nat PROVE Wrap(ip + n) \in Unsigned
  <2>1. ip + n \in Int
    BY <1>2
  <2> QED
    BY <2>1, Wraps
<1>5. ASSUME NEW name \in Handlers, Writes(name) PROVE TypeOK'
    BY <1>3, <1>5, ComputingTyped DEF Writes
<1>6. ASSUME NEW name \in Handlers, Stores(name) PROVE TypeOK'
  <2>1. ip' \in Unsigned
    BY <1>3, <1>4, <1>6 DEF Stores, Advance
  <2> QED
    BY <1>6, <2>1 DEF Stores, TypeOK, Memory
<1>7. ASSUME NEW name \in Handlers, Prints(name) PROVE TypeOK'
  <2>1. ip' \in Unsigned /\ fl' \in Flags
    BY <1>4, <1>7, FewFlags DEF Prints, Printing, Advance
  <2> QED
    BY <1>7, <2>1 DEF Prints, Printing, TypeOK
<1>8. ASSUME NEW name \in {"jmp", "jmpz", "jmpc", "jmpe"}, Jumps(name) PROVE TypeOK'
  <2>1. name \in OneGeneral /\ name \in Handlers
    BY DEF OneGeneral, Handlers, opcodes
  <2>2. registers[First] \in Unsigned
    BY <1>2, <1>8, <2>1, Operands, Registers DEF Jumps
  <2>3. ip' \in Unsigned
    BY <1>4, <1>8, <2>2 DEF Jumps, Jumping
  <2> QED
    BY <1>8, <2>3 DEF Jumps, Jumping, TypeOK
<1> QED
    BY <1>1, <1>5, <1>6, <1>7, <1>8, Steps, StackTyped

-----------------------------------------------------------------------------
(* What the arithmetic computes.                                           *)

\* The handler that runs is the one whose opcode stands at ip.
LEMMA Exclusive ==
    ASSUME TypeOK, NEW n \in Handlers, Executing(n)
    PROVE  /\ ~FetchFault /\ ~Refusal
           /\ shiftr => n = "shiftr"
           /\ shiftl => n = "shiftl"
           /\ not => n = "not"
           /\ and => n = "and"
           /\ or => n = "or"
           /\ xor => n = "xor"
           /\ add => n = "add"
           /\ sub => n = "sub"
           /\ mul => n = "mul"
           /\ div => n = "div"
           /\ cp => n = "cp"
           /\ cmp => n = "cmp"
           /\ uless => n = "uless"
           /\ sless => n = "sless"
           /\ nop => n = "nop"
           /\ loadw => n = "loadw"
           /\ loadb => n = "loadb"
           /\ storew => n = "storew"
           /\ storeb => n = "storeb"
           /\ const => n = "const"
           /\ push => n = "push"
           /\ call => n = "call"
           /\ pop => n = "pop"
           /\ ret => n = "ret"
           /\ jmp => n = "jmp"
           /\ jmpz => n = "jmpz"
           /\ jmpc => n = "jmpc"
           /\ jmpe => n = "jmpe"
           /\ end => n = "end"
           /\ callprintfd => n = "callprintfd"
           /\ callprintfu => n = "callprintfu"
           /\ callprintfs => n = "callprintfs"
           /\ callscanfd => n = "callscanfd"
           /\ callscanfu => n = "callscanfu"
           /\ callscanfs => n = "callscanfs"
<1>1. {"shiftr", "shiftl", "not", "and", "or", "xor", "add", "sub", "mul",
       "div", "cp", "cmp", "uless", "sless", "nop", "loadw", "loadb", "storew",
       "storeb", "const", "push", "call", "pop", "ret", "jmp", "jmpz", "jmpc",
       "jmpe", "end", "callprintfd", "callprintfu", "callprintfs",
       "callscanfd", "callscanfu", "callscanfs"} \subseteq Handlers
    BY DEF Handlers, opcodes
<1>2. ASSUME NEW m \in Handlers, Fetched(m) PROVE m = n
    BY <1>2, OneHandler DEF Executing, Fetched
<1>3. ASSUME NEW m \in Handlers, Executing(m) PROVE n = m
    BY <1>3, OneExecuting
<1>4. ~FetchFault
  <2>1. ip < MEMSIZE /\ Readable(n)
    BY DEF Executing, Fetched
  <2>2. ip >= MEMSIZE => FALSE
    BY <2>1, Addresses, EmulatorAssumption
  <2> QED
    BY <1>2, <2>1, <2>2 DEF FetchFault
<1>5. ~Refusal
    BY <1>2 DEF Refusal, Executing, Fetched
<1>6. shiftr => n = "shiftr"
    BY <1>1, <1>3 DEF shiftr
<1>7. shiftl => n = "shiftl"
    BY <1>1, <1>3 DEF shiftl
<1>8. not => n = "not"
    BY <1>1, <1>3 DEF not
<1>9. and => n = "and"
    BY <1>1, <1>3 DEF and
<1>10. or => n = "or"
    BY <1>1, <1>3 DEF or
<1>11. xor => n = "xor"
    BY <1>1, <1>3 DEF xor
<1>12. add => n = "add"
    BY <1>1, <1>3 DEF add
<1>13. sub => n = "sub"
    BY <1>1, <1>3 DEF sub
<1>14. mul => n = "mul"
    BY <1>1, <1>3 DEF mul
<1>15. div => n = "div"
    BY <1>1, <1>3 DEF div
<1>16. cp => n = "cp"
    BY <1>1, <1>3 DEF cp
<1>17. cmp => n = "cmp"
    BY <1>1, <1>3 DEF cmp
<1>18. uless => n = "uless"
    BY <1>1, <1>3 DEF uless
<1>19. sless => n = "sless"
    BY <1>1, <1>3 DEF sless
<1>20. nop => n = "nop"
    BY <1>1, <1>3 DEF nop
<1>21. loadw => n = "loadw"
    BY <1>1, <1>3 DEF loadw
<1>22. loadb => n = "loadb"
    BY <1>1, <1>3 DEF loadb
<1>23. storew => n = "storew"
    BY <1>1, <1>3 DEF storew
<1>24. storeb => n = "storeb"
    BY <1>1, <1>3 DEF storeb
<1>25. const => n = "const"
    BY <1>1, <1>3 DEF const
<1>26. push => n = "push"
    BY <1>1, <1>3 DEF push
<1>27. call => n = "call"
    BY <1>1, <1>3 DEF call
<1>28. pop => n = "pop"
    BY <1>1, <1>3 DEF pop
<1>29. ret => n = "ret"
    BY <1>1, <1>3 DEF ret
<1>30. jmp => n = "jmp"
    BY <1>1, <1>3 DEF jmp
<1>31. jmpz => n = "jmpz"
    BY <1>1, <1>3 DEF jmpz
<1>32. jmpc => n = "jmpc"
    BY <1>1, <1>3 DEF jmpc
<1>33. jmpe => n = "jmpe"
    BY <1>1, <1>3 DEF jmpe
<1>34. end => n = "end"
    BY <1>1, <1>3 DEF end
<1>35. callprintfd => n = "callprintfd"
    BY <1>1, <1>3 DEF callprintfd
<1>36. callprintfu => n = "callprintfu"
    BY <1>1, <1>3 DEF callprintfu
<1>37. callprintfs => n = "callprintfs"
    BY <1>1, <1>3 DEF callprintfs
<1>38. callscanfd => n = "callscanfd"
    BY <1>1, <1>3 DEF callscanfd
<1>39. callscanfu => n = "callscanfu"
    BY <1>1, <1>3 DEF callscanfu
<1>40. callscanfs => n = "callscanfs"
    BY <1>1, <1>3 DEF callscanfs
<1> QED
    BY <1>4, <1>5, <1>6, <1>7, <1>8, <1>9, <1>10, <1>11, <1>12, <1>13, <1>14,
       <1>15, <1>16, <1>17, <1>18, <1>19, <1>20, <1>21, <1>22, <1>23, <1>24,
       <1>25, <1>26, <1>27, <1>28, <1>29, <1>30, <1>31, <1>32, <1>33, <1>34,
       <1>35, <1>36, <1>37, <1>38, <1>39, <1>40

\* A result that tells what it should is exact or an error.
LEMMA ExactResult ==
    ASSUME NEW result, NEW exact, TypeOK, First \in AnyRegister,
           Computing(result, 3), Tells(result.regs[First], result.fl, exact)
    PROVE  ExactOrError(exact)
    BY DEF ExactOrError, Tells, Computing

\* One step of the arithmetic.
LEMMA SumStep ==
    ASSUME TypeOK, Next
    PROVE  /\ Executing("add") => ExactOrError(Signed(First) + Signed(Second))
           /\ Executing("sub") /\ First # Second =>
                /\ ExactOrError(Signed(First) - Signed(Second))
                /\ registers'[Second] = registers[Second]
           /\ Executing("add") => (fl'.c <=> Low(First) + Low(Second) > SIPRO_UINTMAX)
<1>1. registers \in [AnyRegister -> Unsigned]
    BY DEF TypeOK
<1>2. {"add", "sub"} \subseteq Handlers \cap TwoAny
    BY DEF Handlers, opcodes, TwoAny
<1>3. CASE Executing("add")
  <2>1. add
    BY <1>2, <1>3, Exclusive DEF Next, Arithmetic, MemoryAccess, Stack, Control, InputOutput
  <2> DEFINE result == add_f(registers, First, Second)
  <2>2. Computing(result, 3)
    BY <2>1 DEF add
  <2>3. First \in AnyRegister /\ Second \in AnyRegister
    BY <1>2, <1>3, Operands
  <2>4. /\ Tells(result.regs[First], result.fl, Signed(First) + Signed(Second))
        /\ result.fl.c <=> (registers[First] % 65536) + (registers[Second] % 65536)
                               > SIPRO_UINTMAX
    BY <1>1, <2>3, AddResult DEF Signed
  <2>5. 2^SIPRO_REGISTERBITSIZE = 65536
    BY DEF SIPRO_REGISTERBITSIZE
  <2>6. fl' = result.fl
    BY <2>2 DEF Computing
  <2>7. ~Executing("sub")
    BY <1>2, <1>3, OneExecuting
  <2> HIDE DEF result
  <2>8. ExactOrError(Signed(First) + Signed(Second))
    BY <2>2, <2>3, <2>4, ExactResult
  <2>9. fl'.c <=> Low(First) + Low(Second) > SIPRO_UINTMAX
    BY <2>4, <2>5, <2>6 DEF Low
  <2> QED
    BY <2>7, <2>8, <2>9
<1>4. CASE Executing("sub")
  <2>1. sub
    BY <1>2, <1>4, Exclusive DEF Next, Arithmetic, MemoryAccess, Stack, Control, InputOutput
  <2> DEFINE result == sub_f(registers, First, Second)
  <2>2. Computing(result, 3)
    BY <2>1 DEF sub
  <2>3. First \in AnyRegister /\ Second \in AnyRegister
    BY <1>2, <1>4, Operands
  <2>4. First # Second =>
          /\ Tells(result.regs[First], result.fl, Signed(First) - Signed(Second))
          /\ result.regs[Second] = registers[Second]
    BY <1>1, <2>3, SubResult DEF Signed
  <2>5. ~Executing("add")
    BY <1>2, <1>4, OneExecuting
  <2>6. registers' = result.regs
    BY <2>2 DEF Computing
  <2> HIDE DEF result
  <2>7. First # Second => ExactOrError(Signed(First) - Signed(Second))
    BY <2>2, <2>3, <2>4, ExactResult
  <2> QED
    BY <2>4, <2>5, <2>6, <2>7
<1> QED
    BY <1>3, <1>4

\* mul.
LEMMA ProductStep ==
    ASSUME TypeOK, Next, Executing("mul")
    PROVE  ExactOrError(Signed(First) * Signed(Second))
<1>1. registers \in [AnyRegister -> Unsigned]
    BY DEF TypeOK
<1>2. "mul" \in Handlers /\ "mul" \in TwoGeneral
    BY DEF Handlers, opcodes, TwoGeneral
<1>3. mul
    BY <1>2, Exclusive DEF Next, Arithmetic, MemoryAccess, Stack, Control, InputOutput
<1> DEFINE result == mul_f(registers, First, Second)
<1>4. Computing(result, 3)
    BY <1>3 DEF mul
<1>5. First \in AnyRegister /\ Second \in AnyRegister
    BY <1>2, Operands, Registers
<1>6. Tells(result.regs[First], result.fl, Signed(First) * Signed(Second))
    BY <1>1, <1>5, MulResult DEF Signed
<1> HIDE DEF result
<1> QED
    BY <1>4, <1>5, <1>6, ExactResult

\* div.
LEMMA QuotientStep ==
    ASSUME TypeOK, Next, Executing("div")
    PROVE  Divides(registerToLongInt(registers'[First]), fl',
                   Signed(First), Signed(Second))
<1>1. registers \in [AnyRegister -> Unsigned]
    BY DEF TypeOK
<1>2. "div" \in Handlers /\ "div" \in TwoGeneral
    BY DEF Handlers, opcodes, TwoGeneral
<1>3. div
    BY <1>2, Exclusive DEF Next, Arithmetic, MemoryAccess, Stack, Control, InputOutput
<1> DEFINE result == div_f(registers, First, Second)
<1>4. Computing(result, 3)
    BY <1>3 DEF div
<1>5. First \in AnyRegister /\ Second \in AnyRegister
    BY <1>2, Operands, Registers
<1>6. Divides(registerToLongInt(result.regs[First]), result.fl,
              Signed(First), Signed(Second))
    BY <1>1, <1>5, DivResult DEF Signed
<1> HIDE DEF result
<1> QED
    BY <1>4, <1>6 DEF Computing

-----------------------------------------------------------------------------
(* Theorems of the specification.                                          *)

\* The file fills the first cells of the memory, the others are 0.
LEMMA InitTyped ==
    ASSUME Init
    PROVE  TypeOK
<1>1. PICK p \in Programs : StartProg(p)
    BY DEF Init
<1> DEFINE file == Image(p)
<1>2. file \in Seq(Byte)
  <2>1. p \in Program /\ Addressed(p)
    BY CodeAssumption DEF Program
  <2> QED
    BY <2>1, ImageOf
<1>3. /\ memory = [a \in 0..(MEMSIZE - 1) |->
                    IF a < Len(file) THEN file[a + 1] ELSE 0]
      /\ status \in {"running", "stopped"}
      /\ registers = [r \in AnyRegister |-> 0] /\ ip = 0 /\ fl = NoFlag
    BY <1>1 DEF StartProg
<1> HIDE DEF file
<1>4. ASSUME NEW a \in 0..(MEMSIZE - 1)
      PROVE  (IF a < Len(file) THEN file[a + 1] ELSE 0) \in Byte
  <2>1. 0 \in Byte
    BY ByteRange
  <2>2. CASE a < Len(file)
    <3>1. a + 1 \in 1..Len(file)
        BY <1>2, <2>2, EmulatorAssumption
    <3> QED
        BY <1>2, <2>2, <3>1, ElementOfSeq
  <2> QED
    BY <2>1, <2>2
<1>5. 0 \in Unsigned
    BY WordRange, WordIsUnsigned
<1>6. NoFlag \in Flags
    BY FewFlags
<1>7. memory \in [0..(MEMSIZE - 1) -> Byte]
    BY <1>3, <1>4
<1> QED
    BY <1>3, <1>5, <1>6, <1>7 DEF TypeOK

\* The registers stay unsigned ints, the cells bytes, the flags three bits, and
\* the status one of the emulator's, whatever the program does: no handler
\* leaves a value that C would not hold where the model holds it.
THEOREM TypeIsKept == Spec => []TypeOK
<1>1. Init => TypeOK
    BY InitTyped
<1>2. TypeOK /\ [Next \/ Done]_vars => TypeOK'
  <2> SUFFICES ASSUME TypeOK, [Next \/ Done]_vars PROVE TypeOK'
    OBVIOUS
  <2>1. CASE Next
    BY <2>1, NextTyped
  <2>2. CASE UNCHANGED vars
    BY <2>2 DEF TypeOK, vars
  <2> QED
    BY <2>1, <2>2 DEF Done
<1> QED
    BY <1>1, <1>2, PTL DEF Spec

\* add and sub are exact or set e, for every pair of registers and every word
\* in them: the bit by bit addition of add_internal, its test for overflow, and
\* the ways sub takes around -32768.
THEOREM SumsAreExact == Spec => SumExact
<1>1. TypeOK /\ [Next \/ Done]_vars =>
        [/\ Executing("add") => ExactOrError(Signed(First) + Signed(Second))
         /\ Executing("sub") /\ First # Second =>
            /\ ExactOrError(Signed(First) - Signed(Second))
            /\ registers'[Second] = registers[Second]]_vars
    BY SumStep DEF Done
<1> QED
    BY <1>1, TypeIsKept, PTL DEF Spec, SumExact

\* The carry of add is that of the unsigned sum.
THEOREM CarriesAreExact == Spec => CarryExact
<1>1. TypeOK /\ [Next \/ Done]_vars =>
        [Executing("add") =>
            (fl'.c <=> Low(First) + Low(Second) > SIPRO_UINTMAX)]_vars
    BY SumStep DEF Done
<1> QED
    BY <1>1, TypeIsKept, PTL DEF Spec, CarryExact

\* mul is exact or sets e.
THEOREM ProductsAreExact == Spec => ProductExact
<1>1. TypeOK /\ [Next \/ Done]_vars =>
        [Executing("mul") => ExactOrError(Signed(First) * Signed(Second))]_vars
    BY ProductStep DEF Done
<1> QED
    BY <1>1, TypeIsKept, PTL DEF Spec, ProductExact

\* div truncates towards 0, of every two words but -32768 / -1.
THEOREM QuotientsAreExact == Spec => QuotientExact
<1> DEFINE Divided ==
        Executing("div") =>
         LET a == Signed(First)
             b == Signed(Second)
             q == registerToLongInt(registers'[First])
             rest == a - q * b
         IN IF b = 0 THEN fl'.e /\ q = a
            ELSE /\ ~fl'.e /\ (fl'.z <=> q = 0)
                 /\ IF a = SIPRO_INTMIN /\ b = -1 THEN q = SIPRO_INTMIN
                    ELSE Abs(rest) < Abs(b) /\ rest * a >= 0
<1>1. TypeOK /\ [Next \/ Done]_vars => [Divided]_vars
  <2>1. TypeOK /\ Next => Divided
    BY QuotientStep DEF Divides, Truncates
  <2> QED
    BY <2>1 DEF Done
<1> QED
    BY <1>1, TypeIsKept, PTL DEF Spec, QuotientExact

-----------------------------------------------------------------------------
(* The shape of the stack.                                                 *)

\* One step of a disciplined program.
Disciplined ==
    /\ UsingStack => sp # 0 /\ bp # 0
    /\ Executing("push") => First \in General /\ registers[First] \in Word
    /\ Executing("pop") => First \in General
    /\ Executing("ret") => bp <= sp
    /\ ~UsingStack =>
         /\ \A cell \in DOMAIN memory :
              memory'[cell] = memory[cell] \/ cell < bp \/ cell > sp + 1
         /\ \/ sp' = sp /\ bp' = bp
            \/ /\ \E name \in {"const", "add", "sub", "cp"} : Executing(name)
               /\ StackShape'
               /\ bp' = bp \/ bp' = 0 \/ Pile(program) <= bp'

\* sp and bp are even numbers, and the cells behind the memory have numbers an
\* unsigned int holds.
LEMMA Shape ==
    ASSUME TypeOK, StackShape
    PROVE  /\ sp \in Nat /\ bp \in Nat /\ MEMSIZE \in Nat /\ ip \in Nat
           /\ sp % 2 = 0 /\ bp % 2 = 0 /\ sp < MEMSIZE
           /\ MEMSIZE % 2 = 0 /\ MEMSIZE <= 32768
           /\ \A n \in Nat : n < 65536 => Wrap(n) = n
<1>1. sp \in Nat /\ bp \in Nat /\ ip \in Nat
    BY Addresses, Registers DEF sp, bp
<1>2. 2^15 = 32768
    OBVIOUS
<1>3. MEMSIZE \in Nat /\ MEMSIZE % 2 = 0 /\ MEMSIZE <= 32768
    BY <1>2, EmulatorAssumption
<1>4. ASSUME NEW n \in Nat, n < 65536 PROVE Wrap(n) = n
  <2>1. n \in Unsigned
    BY <1>4, WordRange, WordIsUnsigned
  <2>2. n < 2^UNSIGNEDBITS
    BY <2>1, UnsignedRange
  <2> QED
    BY <2>2, Wraps
<1> QED
    BY <1>1, <1>3, <1>4 DEF StackShape

\* A push that does not stop the emulator writes the word behind sp.
LEMMA Push ==
    ASSUME TypeOK, StackShape, NEW v \in Nat, NEW next \in Unsigned, Pushed(v, next),
           ~Halted
    PROVE  /\ IsWordAddress(sp + 2)
           /\ memory' = WordWritten(sp + 2, v)
           /\ registers' = [registers EXCEPT ![ID_SP] = sp + 2]
           /\ fl' = NoFlag /\ ip' = next
           /\ UNCHANGED <<program, output, status>>
<1>1. Wrap(sp + 2) = sp + 2
  <2>1. sp + 2 \in Nat /\ sp + 2 < 65536
    BY Shape
  <2> QED
    BY <2>1, Shape
<1> QED
    BY <1>1, PushSteps

\* The step of the emulator when a stack instruction runs.
LEMMA StackStep ==
    ASSUME TypeOK, StackShape, Next, Disciplined, UsingStack
    PROVE  \/ Halted /\ (Executing("push") \/ Executing("call"))
           \/ /\ Executing("push") /\ First \in General
              /\ IsWordAddress(sp + 2)
              /\ memory' = WordWritten(sp + 2, registers[First])
              /\ registers' = [registers EXCEPT ![ID_SP] = sp + 2]
              /\ fl' = NoFlag /\ ip' = ip + 2
              /\ UNCHANGED <<program, output, status>>
           \/ /\ Executing("call") /\ First \in General
              /\ IsWordAddress(sp + 2)
              /\ memory' = WordWritten(sp + 2, ip + 2)
              /\ registers' = [registers EXCEPT ![ID_SP] = sp + 2]
              /\ fl' = NoFlag /\ ip' = registers[First]
              /\ UNCHANGED <<program, output, status>>
           \/ /\ Executing("pop") /\ First \in General /\ sp < bp
              /\ registers' = registers /\ fl'.e /\ ip' = ip + 2
              /\ UNCHANGED <<program, memory, output, status>>
           \/ /\ Executing("pop") /\ First \in General /\ bp <= sp
              /\ registers' = [registers EXCEPT ![ID_SP] = sp - 2, ![First] = readWord(sp)]
              /\ ~fl'.e /\ ip' = ip + 2
              /\ UNCHANGED <<program, memory, output, status>>
           \/ /\ Executing("ret") /\ bp <= sp
              /\ registers' = [registers EXCEPT ![ID_SP] = sp - 2]
              /\ ip' = readWord(sp)
              /\ UNCHANGED <<program, fl, memory, output, status>>
<1>1. /\ {"push", "pop", "call", "ret"} \subseteq Handlers
      /\ {"push", "pop"} \subseteq OneAny /\ "call" \in OneGeneral
    BY DEF Handlers, opcodes, OneAny, OneGeneral
<1>2. /\ ip \in Nat /\ ip < MEMSIZE
      /\ Wrap(ip + 2) = ip + 2 /\ ip + 2 \in Nat /\ ip + 2 \in Unsigned
  <2>1. ip \in Nat /\ ip < MEMSIZE
    BY Shape DEF UsingStack, Executing, Fetched
  <2>2. ip + 2 \in Nat /\ ip + 2 < 65536
    BY <2>1, Shape
  <2>3. ip + 2 \in Unsigned
    BY <2>2, WordRange, WordIsUnsigned
  <2> QED
    BY <2>1, <2>2, <2>3, Shape
<1>3. sp \in Nat /\ bp \in Nat /\ sp # 0 /\ bp # 0 /\ IsWordAddress(sp)
    BY Shape DEF Disciplined, IsWordAddress
<1>4. sp - 2 \in Nat /\ Wrap(registers[ID_SP] - 2) = sp - 2
  <2>1. sp - 2 \in Nat /\ sp - 2 < 65536
    BY <1>3, Shape
  <2> QED
    BY <2>1, Shape DEF sp
<1>5. \A r \in AnyRegister : registers[r] \in Unsigned /\ registers[r] \in Nat
    BY Addresses
<1>6. CASE Executing("push")
  <2>1. push
    BY <1>1, <1>6, Exclusive DEF Next, Arithmetic, MemoryAccess, Stack, Control, InputOutput
  <2>2. First \in General /\ registers[First] \in Nat
    BY <1>5, <1>6, Registers DEF Disciplined
  <2>3. Pushed(registers[First], ip + 2)
    BY <1>2, <2>1 DEF push
  <2> QED
    BY <1>2, <1>6, <2>2, <2>3, Push
<1>7. CASE Executing("call")
  <2>1. call
    BY <1>1, <1>7, Exclusive DEF Next, Arithmetic, MemoryAccess, Stack, Control, InputOutput
  <2>2. First \in General /\ registers[First] \in Unsigned
    BY <1>1, <1>5, <1>7, Operands, Registers
  <2>3. Pushed(ip + 2, registers[First])
    BY <1>2, <2>1 DEF call
  <2> QED
    BY <1>2, <1>7, <2>2, <2>3, Push
<1>8. CASE Executing("pop")
  <2>1. pop
    BY <1>1, <1>8, Exclusive DEF Next, Arithmetic, MemoryAccess, Stack, Control, InputOutput
  <2>2. First \in General
    BY <1>8 DEF Disciplined
  <2>3. CASE sp < bp
    <3>1. Computing(Result(registers, [NoFlag EXCEPT !.e = TRUE]), 2)
        BY <2>1, <2>3 DEF pop
    <3>2. registers' = registers /\ fl'.e /\ ip' = Wrap(ip + 2)
            /\ UNCHANGED <<program, memory, output, status>>
        BY <3>1 DEF Computing, Advance, Result, NoFlag
    <3> QED
        BY <1>2, <1>8, <2>2, <2>3, <3>2
  <2>4. CASE ~(sp < bp)
    <3> DEFINE Q == [registers EXCEPT ![ID_SP] = Wrap(@ - 2), ![First] = readWord(sp)]
    <3>1. Computing(Result(Q, NoFlag), 2)
        BY <1>3, <2>1, <2>4 DEF pop
    <3>2. Q = [registers EXCEPT ![ID_SP] = sp - 2, ![First] = readWord(sp)]
        BY <1>4
    <3> HIDE DEF Q
    <3>3. registers' = Q /\ ~fl'.e /\ ip' = Wrap(ip + 2)
            /\ UNCHANGED <<program, memory, output, status>>
        BY <3>1 DEF Computing, Advance, Result, NoFlag
    <3>4. bp <= sp
        BY <1>3, <2>4
    <3> QED
        BY <1>2, <1>8, <2>2, <3>2, <3>3, <3>4
  <2> QED
    BY <2>3, <2>4
<1>9. CASE Executing("ret")
  <2>1. ret
    BY <1>1, <1>9, Exclusive DEF Next, Arithmetic, MemoryAccess, Stack, Control, InputOutput
  <2>2. /\ registers' = [registers EXCEPT ![ID_SP] = Wrap(@ - 2)]
        /\ ip' = readWord(sp)
        /\ UNCHANGED <<program, fl, memory, output, status>>
    BY <1>3, <2>1 DEF ret
  <2>3. [registers EXCEPT ![ID_SP] = Wrap(@ - 2)] = [registers EXCEPT ![ID_SP] = sp - 2]
    BY <1>4
  <2> QED
    BY <1>9, <2>2, <2>3 DEF Disciplined
<1> QED
    BY <1>6, <1>7, <1>8, <1>9 DEF UsingStack

\* What a stack instruction does to sp and bp.
LEMMA StackPointers ==
    ASSUME TypeOK, StackShape, Next, Disciplined, UsingStack
    PROVE  /\ bp' = bp
           /\ \/ sp' = sp
              \/ sp' = sp + 2 /\ sp + 2 < MEMSIZE
              \/ sp' = sp - 2 /\ bp <= sp
           /\ \/ memory' = memory
              \/ \E v \in Nat : IsWordAddress(sp + 2) /\ memory' = WordWritten(sp + 2, v)
           /\ program' = program
<1>1. registers \in [AnyRegister -> Unsigned]
    BY DEF TypeOK
<1>2. Halted => registers' = registers /\ memory' = memory /\ program' = program
    BY DEF Halted
<1>3. \A r \in General : r \in AnyRegister /\ r # ID_SP /\ r # ID_BP
    BY Registers
<1>4. ID_SP \in AnyRegister /\ ID_BP \in AnyRegister /\ ID_SP # ID_BP
    BY Registers
<1>5. ASSUME NEW v, registers' = [registers EXCEPT ![ID_SP] = v]
      PROVE  sp' = v /\ bp' = bp
    BY <1>1, <1>4, <1>5 DEF sp, bp
<1>6. ASSUME NEW v, NEW w, NEW r \in General,
             registers' = [registers EXCEPT ![ID_SP] = v, ![r] = w]
      PROVE  sp' = v /\ bp' = bp
    BY <1>1, <1>3, <1>4, <1>6 DEF sp, bp
<1>7. registers' = registers => sp' = sp /\ bp' = bp
    BY DEF sp, bp
<1>8. IsWordAddress(sp + 2) => sp + 2 < MEMSIZE
    BY DEF IsWordAddress
<1>9. ip + 2 \in Nat /\ \A r \in General : registers[r] \in Nat
    BY Addresses, Registers
<1>10. CASE Halted
    BY <1>2, <1>7, <1>10
<1>11. CASE /\ Executing("push") /\ First \in General
            /\ IsWordAddress(sp + 2)
            /\ memory' = WordWritten(sp + 2, registers[First])
            /\ registers' = [registers EXCEPT ![ID_SP] = sp + 2]
            /\ program' = program
  <2>1. sp' = sp + 2 /\ bp' = bp
    BY <1>5, <1>11
  <2> QED
    BY <1>8, <1>9, <1>11, <2>1
<1>12. CASE /\ Executing("call")
            /\ IsWordAddress(sp + 2)
            /\ memory' = WordWritten(sp + 2, ip + 2)
            /\ registers' = [registers EXCEPT ![ID_SP] = sp + 2]
            /\ program' = program
  <2>1. sp' = sp + 2 /\ bp' = bp
    BY <1>5, <1>12
  <2> QED
    BY <1>8, <1>9, <1>12, <2>1
<1>13. CASE registers' = registers /\ UNCHANGED <<program, memory>>
    BY <1>7, <1>13
<1>14. CASE /\ Executing("pop") /\ First \in General /\ bp <= sp
            /\ registers' = [registers EXCEPT ![ID_SP] = sp - 2, ![First] = readWord(sp)]
            /\ UNCHANGED <<program, memory>>
  <2>1. sp' = sp - 2 /\ bp' = bp
    BY <1>6, <1>14
  <2> QED
    BY <1>14, <2>1
<1>15. CASE /\ Executing("ret") /\ bp <= sp
            /\ registers' = [registers EXCEPT ![ID_SP] = sp - 2]
            /\ UNCHANGED <<program, memory>>
  <2>1. sp' = sp - 2 /\ bp' = bp
    BY <1>5, <1>15
  <2> QED
    BY <1>15, <2>1
<1> QED
    BY <1>10, <1>11, <1>12, <1>13, <1>14, <1>15, StackStep

\* A step of a disciplined program keeps the shape of the stack.
LEMMA ShapeStep ==
    ASSUME TypeOK, StackShape, Next, Disciplined
    PROVE  StackShape'
<1>1. /\ sp \in Nat /\ bp \in Nat /\ MEMSIZE \in Nat
      /\ sp % 2 = 0 /\ bp % 2 = 0 /\ sp < MEMSIZE
      /\ sp = 0 \/ bp = 0 \/ bp <= sp + 2
    BY Shape DEF StackShape
<1>2. CASE UsingStack
  <2>1. sp # 0 /\ bp # 0
    BY <1>2 DEF Disciplined
  <2>2. /\ bp' = bp
        /\ \/ sp' = sp
           \/ sp' = sp + 2 /\ sp + 2 < MEMSIZE
           \/ sp' = sp - 2 /\ bp <= sp
    BY <1>2, StackPointers
  <2>3. (sp + 2) % 2 = 0 /\ (sp - 2) % 2 = 0 /\ sp - 2 < MEMSIZE
    BY <1>1
  <2>4. sp' % 2 = 0 /\ sp' < MEMSIZE /\ bp' % 2 = 0
    BY <1>1, <2>2, <2>3
  <2>5. bp <= sp' + 2
    BY <1>1, <2>1, <2>2
  <2> QED
    BY <2>2, <2>4, <2>5 DEF StackShape
<1>3. CASE ~UsingStack /\ sp' = sp /\ bp' = bp
    BY <1>1, <1>3 DEF StackShape
<1> QED
    BY <1>2, <1>3 DEF Disciplined

\* sp and bp stand at words of the memory and sp at most one word below bp, in
\* every state of a program that keeps StackDiscipline: pop stops one word
\* below bp, and push and call stop at the end of the memory.
THEOREM ShapeIsKept == Spec /\ StackDiscipline => []StackShape
<1>1. Init => StackShape
  <2> SUFFICES ASSUME Init PROVE StackShape
    OBVIOUS
  <2>1. registers = [r \in AnyRegister |-> 0]
    BY DEF Init, StartProg
  <2>2. sp = 0 /\ bp = 0
    BY <2>1, Registers DEF sp, bp
  <2> QED
    BY <2>2, EmulatorAssumption DEF StackShape
<1>2. TypeOK /\ StackShape /\ [Next \/ Done]_vars /\ [Disciplined]_vars => StackShape'
  <2> SUFFICES ASSUME TypeOK, StackShape, [Next \/ Done]_vars, [Disciplined]_vars
               PROVE  StackShape'
    OBVIOUS
  <2>1. CASE UNCHANGED vars
    <3>1. sp' = sp /\ bp' = bp
        BY <2>1 DEF vars, sp, bp
    <3> QED
        BY <3>1 DEF StackShape
  <2>2. CASE Next /\ Disciplined
    BY <2>2, ShapeStep
  <2> QED
    BY <2>1, <2>2 DEF Done
<1>3. StackDiscipline <=> [][Disciplined]_vars
    BY DEF StackDiscipline, Disciplined
<1> QED
    BY <1>1, <1>2, <1>3, TypeIsKept, PTL DEF Spec

-----------------------------------------------------------------------------
(* The code.                                                               *)

\* The program itself stores nothing over its instructions.
SparesCode == [][~UsingStack => CodeKept]_vars

\* The stack stands behind the code, and the code inside the memory.
Behind ==
    /\ program \in Programs /\ Pile(program) \in Nat
    /\ bp = 0 \/ Pile(program) <= bp
    /\ status = "running" => Pile(program) + 2 <= MEMSIZE

\* The program is not changed, and an emulator that has stopped does not start
\* again.
LEMMA Frame ==
    ASSUME TypeOK, Next
    PROVE  program' = program /\ status = "running"
<1>1. Stack => program' = program
    BY DEF Stack, push, call, pop, ret, Pushed, BusError, Computing
<1>2. program' = program
    BY <1>1, Steps DEF Halted, Jumps, Jumping, Writes, Computing, Stores, Prints, Printing
<1>3. \A name : Executing(name) => status = "running"
    BY DEF Executing, Fetched
<1>4. Arithmetic => status = "running"
    BY <1>3 DEF Arithmetic, shiftr, shiftl, not, and, or, xor, add, sub, mul, div, cp,
                cmp, uless, sless, nop
<1>5. MemoryAccess \/ Stack \/ Control => status = "running"
    BY <1>3 DEF MemoryAccess, loadw, loadb, storew, storeb, const, Stack, push, call,
                pop, ret, Control, jmp, jmpz, jmpc, jmpe, end
<1>6. InputOutput => status = "running"
    BY <1>3 DEF InputOutput, callprintfd, callprintfu, callprintfs, callscanfd,
                callscanfu, callscanfs
<1>7. FetchFault \/ Refusal => status = "running"
    BY DEF FetchFault, Refusal
<1> QED
    BY <1>2, <1>4, <1>5, <1>6, <1>7 DEF Next

\* A step of a disciplined program leaves its stack behind its code.
LEMMA BehindStep ==
    ASSUME TypeOK, StackShape, Behind, Next, Disciplined
    PROVE  Behind'
<1>1. program' = program /\ status = "running"
    BY Frame
<1>2. UsingStack => bp' = bp
    BY StackPointers
<1>3. bp' = bp \/ bp' = 0 \/ Pile(program) <= bp'
    BY <1>2 DEF Disciplined
<1>4. Pile(program') = Pile(program)
    BY <1>1
<1> QED
    BY <1>1, <1>3, <1>4 DEF Behind

\* The cells of a line stand below the label pile.
LEMMA LinesBelowPile ==
    ASSUME NEW p \in Programs, NEW i \in DOMAIN p,
           NEW a \in cells(p)[i]..(cells(p)[i + 1] - 1)
    PROVE  a \in 0..(Pile(p) - 1)
<1> DEFINE c == cells(p)
           n == Len(p)
<1>1. p \in Program /\ Addressed(p)
    BY CodeAssumption DEF Program
<1>2. Laid(p, c) /\ n \in Nat /\ i \in 1..n
    BY <1>1, CellsLaid DEF Program
<1>3. /\ \A j \in 1..(n + 1) : c[j] \in Nat
      /\ \A j, k \in 1..(n + 1) : j < k => c[j + 1] <= c[k]
    BY <1>1, <1>2, Ordered
<1>4. c[n + 1] <= Pile(p) /\ Pile(p) \in Nat
    BY <1>1, ImageOf
<1> HIDE DEF c, n
<1>5. i \in 1..(n + 1) /\ i + 1 \in 1..(n + 1) /\ n + 1 \in 1..(n + 1) /\ i < n + 1
    BY <1>2
<1>6. c[i] \in Nat /\ c[i + 1] \in Nat /\ c[n + 1] \in Nat /\ c[i + 1] <= c[n + 1]
    BY <1>3, <1>5
<1>7. a \in c[i]..(c[i + 1] - 1)
    BY DEF c
<1> QED
    BY <1>4, <1>6, <1>7

\* The cells CodeKept speaks of.
LEMMA CodeCells == CodeKept <=>
    \A i \in DOMAIN program :
        \/ IsData(program[i])
        \/ \A a \in cells(program)[i]..(cells(program)[i + 1] - 1) :
             memory'[a] = memory[a]
    BY DEF CodeKept

\* A stack instruction of a disciplined program writes nothing over its lines.
LEMMA CodeStep ==
    ASSUME TypeOK, StackShape, Behind, Next, Disciplined, UsingStack
    PROVE  CodeKept
<1> SUFFICES ASSUME NEW a \in 0..(Pile(program) - 1)
             PROVE  memory'[a] = memory[a]
  <2>1. program \in Programs
    BY DEF Behind
  <2> QED
    BY <2>1, CodeCells, LinesBelowPile
<1>1. /\ sp \in Nat /\ bp \in Nat /\ sp # 0 /\ bp # 0 /\ bp <= sp + 2
      /\ MEMSIZE \in Nat /\ Pile(program) \in Nat /\ memory \in Memory
      /\ Pile(program) <= bp /\ Pile(program) + 2 <= MEMSIZE
  <2>1. status = "running"
    BY Frame
  <2>2. memory \in Memory
    BY Addresses
  <2> QED
    BY <2>1, <2>2, Shape DEF Disciplined, StackShape, Behind
<1>2. a \in 0..(MEMSIZE - 1) /\ a # sp + 2 /\ a # (sp + 2) + 1
    BY <1>1
<1>3. CASE memory' = memory
    BY <1>3
<1>4. ASSUME NEW v \in Nat, IsWordAddress(sp + 2), memory' = WordWritten(sp + 2, v)
      PROVE  memory'[a] = memory[a]
  <2>1. sp + 2 \in Nat
    BY <1>1
  <2>2. WordWritten(sp + 2, v)[a] = memory[a]
    BY <1>1, <1>2, <1>4, <2>1, WordIsWritten
  <2> QED
    BY <1>4, <2>2
<1> QED
    BY <1>3, <1>4, StackPointers

\* The instructions a disciplined program does not write over itself are not
\* written over by its pushes and calls either, however often it pops and
\* returns: they stay what was loaded.
THEOREM CodeIsKept == Spec /\ StackDiscipline /\ SparesCode => CodeIntact
<1>1. Init => Behind
  <2> SUFFICES ASSUME Init PROVE Behind
    OBVIOUS
  <2>1. PICK p \in Programs : StartProg(p)
    BY DEF Init
  <2>2. Pile(p) \in Nat /\ Len(Image(p)) = Pile(p) + 2
    <3>1. p \in Program /\ Addressed(p)
        BY CodeAssumption DEF Program
    <3> QED
        BY <3>1, ImageOf
  <2>3. /\ program = p /\ registers = [r \in AnyRegister |-> 0]
        /\ status = IF Len(Image(p)) <= MEMSIZE THEN "running" ELSE "stopped"
    BY <2>1 DEF StartProg
  <2>4. bp = 0
    BY <2>3, Registers DEF bp
  <2> QED
    BY <2>2, <2>3, <2>4 DEF Behind
<1>2. TypeOK /\ StackShape /\ Behind /\ [Next \/ Done]_vars /\ [Disciplined]_vars
        => Behind'
  <2> SUFFICES ASSUME TypeOK, StackShape, Behind, [Next \/ Done]_vars,
                      [Disciplined]_vars
               PROVE  Behind'
    OBVIOUS
  <2>1. CASE UNCHANGED vars
    <3>1. bp' = bp /\ program' = program /\ status' = status
        BY <2>1 DEF vars, bp
    <3> QED
        BY <3>1 DEF Behind
  <2>2. CASE Next /\ Disciplined
    BY <2>2, BehindStep
  <2> QED
    BY <2>1, <2>2 DEF Done
<1>3. TypeOK /\ StackShape /\ Behind /\ [Next \/ Done]_vars /\ [Disciplined]_vars
        /\ [~UsingStack => CodeKept]_vars => [CodeKept]_vars
  <2>1. TypeOK /\ StackShape /\ Behind /\ Next /\ Disciplined
          /\ (~UsingStack => CodeKept) => CodeKept
    BY CodeStep
  <2> QED
    BY <2>1 DEF Done
<1>4. StackDiscipline <=> [][Disciplined]_vars
    BY DEF StackDiscipline, Disciplined
<1>5. SparesCode <=> [][~UsingStack => CodeKept]_vars
    BY DEF SparesCode
<1>6. CodeIntact <=> [][CodeKept]_vars
    BY DEF CodeIntact
<1> QED
    BY <1>1, <1>2, <1>3, <1>4, <1>5, <1>6, TypeIsKept, ShapeIsKept, PTL DEF Spec

-----------------------------------------------------------------------------
(* The stack as a sequence.                                                *)

\* The words of a memory from b to s.
WordAt(mem, a) == 256 * mem[a] + mem[a + 1]
Words(mem, b, s) == [k \in 1..((s - b) \div 2 + 1) |-> WordAt(mem, b + 2 * (k - 1))]

\* How many words there are from b to s.
Depth(b, s) == IF b <= s THEN (s - b) \div 2 + 1 ELSE 0

\* The words on the stack, and where they stand.
LEMMA WordsOnStack ==
    ASSUME NEW mem \in Memory, NEW b \in Nat, NEW s \in Nat, b % 2 = 0, s % 2 = 0,
           s + 1 < MEMSIZE, MEMSIZE \in Nat
    PROVE  /\ Words(mem, b, s) \in Seq(Word)
           /\ Len(Words(mem, b, s)) = Depth(b, s) /\ Depth(b, s) \in Nat
           /\ \A k \in 1..Depth(b, s) :
                /\ Words(mem, b, s)[k] = WordAt(mem, b + 2 * (k - 1))
                /\ b + 2 * (k - 1) \in b..s
           /\ b <= s => b + 2 * (Depth(b, s) - 1) = s
<1> DEFINE n == Depth(b, s)
           at(k) == b + 2 * (k - 1)
<1>1. /\ n \in Nat /\ (b <= s => b + 2 * (n - 1) = s)
      /\ 1..((s - b) \div 2 + 1) = 1..n
  <2>1. CASE b <= s
    <3>1. (s - b) \div 2 \in Nat /\ 2 * ((s - b) \div 2) = s - b
        BY <2>1
    <3> QED
        BY <2>1, <3>1 DEF Depth
  <2>2. CASE ~(b <= s)
    <3>1. (s - b) \div 2 + 1 <= 0 /\ (s - b) \div 2 + 1 \in Int
        BY <2>2
    <3>2. n = 0
        BY <2>2 DEF Depth
    <3> QED
        BY <2>2, <3>1, <3>2
  <2> QED
    BY <2>1, <2>2
<1>2. ASSUME NEW k \in 1..n
      PROVE  at(k) \in b..s /\ WordAt(mem, at(k)) \in Word
  <2>1. b <= s
    BY DEF Depth
  <2>2. at(k) \in b..s
    BY <1>1, <2>1
  <2>3. at(k) \in 0..(MEMSIZE - 1) /\ at(k) + 1 \in 0..(MEMSIZE - 1)
    BY <2>2
  <2> HIDE DEF at
  <2>4. mem[at(k)] \in Byte /\ mem[at(k) + 1] \in Byte
    BY <2>3 DEF Memory
  <2>5. WordAt(mem, at(k)) \in Nat /\ WordAt(mem, at(k)) < 65536
    BY <2>4, ByteRange DEF WordAt
  <2> QED
    BY <2>2, <2>5, WordRange
<1>3. Words(mem, b, s) = [k \in 1..n |-> WordAt(mem, at(k))]
    BY <1>1, Zenon DEF Words
<1> HIDE DEF n
<1>4. /\ [k \in 1..n |-> WordAt(mem, at(k))] \in Seq(Word)
      /\ Len([k \in 1..n |-> WordAt(mem, at(k))]) = n
    BY <1>1, <1>2
<1>5. \A k \in 1..n : Words(mem, b, s)[k] = WordAt(mem, at(k)) /\ at(k) \in b..s
    BY <1>2, <1>3
<1> QED
    BY <1>1, <1>3, <1>4, <1>5 DEF n

\* A word written behind the stack is one more word on it.
LEMMA WordsPushed ==
    ASSUME NEW mem \in Memory, NEW new \in Memory, NEW b \in Nat, NEW s \in Nat,
           b % 2 = 0, s % 2 = 0, b <= s + 2, s + 3 < MEMSIZE, MEMSIZE \in Nat,
           \A a \in b..(s + 1) : new[a] = mem[a], NEW v, WordAt(new, s + 2) = v
    PROVE  Words(new, b, s + 2) = Append(Words(mem, b, s), v)
<1> DEFINE before == Words(mem, b, s)
           after == Words(new, b, s + 2)
           n == Depth(b, s)
           m == Depth(b, s + 2)
<1>1. /\ before \in Seq(Word) /\ Len(before) = n /\ n \in Nat
      /\ \A k \in 1..n : /\ before[k] = WordAt(mem, b + 2 * (k - 1))
                         /\ b + 2 * (k - 1) \in b..s
      /\ b <= s => b + 2 * (n - 1) = s
  <2>1. s + 1 < MEMSIZE
    OBVIOUS
  <2> QED
    BY <2>1, WordsOnStack
<1>2. /\ after \in Seq(Word) /\ Len(after) = m /\ m \in Nat
      /\ \A k \in 1..m : /\ after[k] = WordAt(new, b + 2 * (k - 1))
                         /\ b + 2 * (k - 1) \in b..(s + 2)
      /\ b + 2 * (m - 1) = s + 2
  <2>1. s + 2 \in Nat /\ (s + 2) % 2 = 0 /\ (s + 2) + 1 < MEMSIZE
    OBVIOUS
  <2> QED
    BY <2>1, WordsOnStack
<1> HIDE DEF before, after
<1>3. m = n + 1
  <2>1. b <= s \/ b = s + 2
    OBVIOUS
  <2>2. b = s + 2 => n = 0
    BY DEF Depth
  <2> HIDE DEF n, m
  <2> QED
    BY <1>1, <1>2, <2>1, <2>2
<1> HIDE DEF n, m
<1>4. v \in Word /\ after[n + 1] = v
  <2>1. n + 1 \in 1..m /\ b + 2 * ((n + 1) - 1) = s + 2
    BY <1>1, <1>2, <1>3
  <2>2. after[n + 1] = v
    BY <1>2, <2>1
  <2> QED
    BY <1>2, <2>1, <2>2, ElementOfSeq
<1>5. ASSUME NEW k \in 1..n PROVE after[k] = before[k]
  <2>1. k \in 1..m
    BY <1>1, <1>3
  <2>2. b + 2 * (k - 1) \in b..s
    BY <1>1
  <2>3. b + 2 * (k - 1) \in b..(s + 1) /\ (b + 2 * (k - 1)) + 1 \in b..(s + 1)
    BY <2>2
  <2>4. WordAt(new, b + 2 * (k - 1)) = WordAt(mem, b + 2 * (k - 1))
    BY <2>3 DEF WordAt
  <2> QED
    BY <1>1, <1>2, <2>1, <2>4
<1>6. /\ Append(before, v) \in Seq(Word) /\ Len(Append(before, v)) = n + 1
      /\ \A k \in 1..n : Append(before, v)[k] = before[k]
      /\ Append(before, v)[n + 1] = v
    BY <1>1, <1>4, AppendProperties
<1>7. ASSUME NEW k \in 1..Len(after) PROVE after[k] = Append(before, v)[k]
  <2>1. k \in 1..n \/ k = n + 1
    BY <1>1, <1>2, <1>3
  <2> QED
    BY <1>4, <1>5, <1>6, <2>1
<1>8. after = Append(before, v)
    BY <1>2, <1>3, <1>6, <1>7, SeqEqual
<1> QED
    BY <1>8 DEF before, after

\* Without its last word the stack is shorter by one.
LEMMA WordsPopped ==
    ASSUME NEW mem \in Memory, NEW b \in Nat, NEW s \in Nat, s - 2 \in Nat,
           b % 2 = 0, s % 2 = 0, b <= s, s + 1 < MEMSIZE, MEMSIZE \in Nat
    PROVE  /\ Words(mem, b, s) # <<>>
           /\ Words(mem, b, s - 2) =
                SubSeq(Words(mem, b, s), 1, Len(Words(mem, b, s)) - 1)
           /\ Words(mem, b, s)[Len(Words(mem, b, s))] = WordAt(mem, s)
<1> DEFINE before == Words(mem, b, s)
           after == Words(mem, b, s - 2)
           n == Depth(b, s)
           m == Depth(b, s - 2)
<1>1. /\ before \in Seq(Word) /\ Len(before) = n /\ n \in Nat
      /\ \A k \in 1..n : before[k] = WordAt(mem, b + 2 * (k - 1))
      /\ b + 2 * (n - 1) = s
    BY WordsOnStack
<1>2. /\ after \in Seq(Word) /\ Len(after) = m /\ m \in Nat
      /\ \A k \in 1..m : after[k] = WordAt(mem, b + 2 * (k - 1))
      /\ b <= s - 2 => b + 2 * (m - 1) = s - 2
  <2> DEFINE low == s - 2
  <2>1. low \in Nat /\ low % 2 = 0 /\ low + 1 < MEMSIZE
    OBVIOUS
  <2> HIDE DEF low
  <2>2. /\ Words(mem, b, low) \in Seq(Word)
        /\ Len(Words(mem, b, low)) = Depth(b, low) /\ Depth(b, low) \in Nat
        /\ \A k \in 1..Depth(b, low) :
             /\ Words(mem, b, low)[k] = WordAt(mem, b + 2 * (k - 1))
             /\ b + 2 * (k - 1) \in b..low
        /\ b <= low => b + 2 * (Depth(b, low) - 1) = low
    BY <2>1, WordsOnStack
  <2> QED
    BY <2>2 DEF low
<1> HIDE DEF before, after
<1>3. n = m + 1
  <2>1. CASE b <= s - 2
    BY <1>1, <1>2, <2>1
  <2>2. CASE b = s
    <3>1. m = 0
        BY <2>2 DEF Depth
    <3> QED
        BY <1>1, <2>2, <3>1
  <2> QED
    BY <2>1, <2>2
<1> HIDE DEF n, m
<1>4. SubSeq(before, 1, m) \in Seq(Word) /\ Len(SubSeq(before, 1, m)) = m
        /\ \A k \in 1..m : SubSeq(before, 1, m)[k] = before[k]
  <2>1. \A k \in 1..m : before[k] \in Word
    BY <1>1, <1>2, <1>3, ElementOfSeq
  <2> QED
    BY <1>2, <2>1, SubSeqProperties
<1>5. \A k \in 1..Len(after) : after[k] = SubSeq(before, 1, m)[k]
    BY <1>1, <1>2, <1>3, <1>4
<1>6. after = SubSeq(before, 1, m)
    BY <1>2, <1>4, <1>5, SeqEqual
<1>7. m = Len(before) - 1
    BY <1>1, <1>2, <1>3
<1>8. before # <<>>
    BY <1>1, <1>2, <1>3
<1>9. before[Len(before)] = WordAt(mem, s)
    BY <1>1, <1>2, <1>3
<1> QED
    BY <1>6, <1>7, <1>8, <1>9 DEF before, after

\* A memory that is the same from b to the word at s holds the same words.
LEMMA WordsKept ==
    ASSUME NEW mem \in Memory, NEW new \in Memory, NEW b \in Nat, NEW s \in Nat,
           b % 2 = 0, s % 2 = 0, s + 1 < MEMSIZE, MEMSIZE \in Nat,
           \A a \in b..(s + 1) : new[a] = mem[a]
    PROVE  Words(new, b, s) = Words(mem, b, s)
<1> DEFINE n == Depth(b, s)
           before == Words(mem, b, s)
           after == Words(new, b, s)
<1>1. /\ before \in Seq(Word) /\ Len(before) = n
      /\ \A k \in 1..n : /\ before[k] = WordAt(mem, b + 2 * (k - 1))
                         /\ b + 2 * (k - 1) \in b..s
    BY WordsOnStack
<1>2. /\ after \in Seq(Word) /\ Len(after) = n
      /\ \A k \in 1..n : /\ after[k] = WordAt(new, b + 2 * (k - 1))
                         /\ b + 2 * (k - 1) \in b..s
    BY WordsOnStack
<1> HIDE DEF before, after, n
<1>3. ASSUME NEW k \in 1..n PROVE after[k] = before[k]
  <2>1. b + 2 * (k - 1) \in b..s
    BY <1>1
  <2>2. b + 2 * (k - 1) \in b..(s + 1) /\ (b + 2 * (k - 1)) + 1 \in b..(s + 1)
    BY <2>1
  <2>3. WordAt(new, b + 2 * (k - 1)) = WordAt(mem, b + 2 * (k - 1))
    BY <2>2 DEF WordAt
  <2> QED
    BY <1>1, <1>2, <2>3
<1>4. after = before
    BY <1>1, <1>2, <1>3, SeqEqual
<1> QED
    BY <1>4 DEF before, after

-----------------------------------------------------------------------------
(* The refinement of the stack machine.                                    *)

\* The stack, in terms of the memory.
LEMMA StackIs ==
    /\ stack = Words(memory, bp, sp)
    /\ stack' = Words(memory', bp', sp')
<1>1. stack = Words(memory, bp, sp)
    BY DEF stack, Words, WordAt, readWord
<1>2. stack' = Words(memory', bp', sp')
    BY DEF stack, Words, WordAt, readWord
<1> QED
    BY <1>1, <1>2

\* The instruction about to run, and none when the emulator has stopped.
LEMMA Todo ==
    /\ \A name \in Handlers : Executing(name) =>
            todo = <<name, IF OperandCount(name) > 0 THEN First ELSE ID_AX>>
    /\ (\A name \in Handlers : ~Executing(name)) => todo = <<"none", ID_AX>>
    /\ status' # "running" => todo' = <<"none", ID_AX>>
<1>1. ASSUME NEW name \in Handlers, Executing(name)
      PROVE  todo = <<name, IF OperandCount(name) > 0 THEN First ELSE ID_AX>>
  <2>1. (CHOOSE n \in Handlers : Executing(n)) = name
    BY <1>1, OneExecuting
  <2> QED
    BY <1>1, <2>1 DEF todo
<1>2. ASSUME \A name \in Handlers : ~Executing(name) PROVE todo = <<"none", ID_AX>>
    BY <1>2 DEF todo
<1>3. ASSUME status' # "running" PROVE todo' = <<"none", ID_AX>>
  <2>1. \A name \in Handlers : ~(Executing(name)')
    BY <1>3 DEF Executing, Fetched
  <2> QED
    BY <2>1 DEF todo
<1> QED
    BY <1>1, <1>2, <1>3

\* The operand of a stack instruction.
LEMMA StackTodo ==
    /\ Executing("push") => todo = <<"push", First>>
    /\ Executing("pop") => todo = <<"pop", First>>
    /\ Executing("call") => todo = <<"call", First>>
    /\ Executing("ret") => todo = <<"ret", ID_AX>>
<1>1. {"push", "pop", "call", "ret"} \subseteq Handlers
    BY DEF Handlers, opcodes
<1>2. /\ OperandCount("push") = 1 /\ OperandCount("pop") = 1
      /\ OperandCount("call") = 1 /\ OperandCount("ret") = 0
    BY DEF OperandCount, NoOperand, OneGeneral, OneAny
<1> QED
    BY <1>1, <1>2, Todo

\* The stack after the words of the memory changed as they do.
LEMMA StackAfter ==
    ASSUME TypeOK, StackShape, Next
    PROVE  /\ \A v \in Word :
                (/\ sp # 0 /\ bp # 0 /\ sp' = sp + 2 /\ bp' = bp
                 /\ IsWordAddress(sp + 2) /\ memory' = WordWritten(sp + 2, v))
                => stack' = Append(stack, v)
           /\ (sp # 0 /\ bp <= sp /\ sp' = sp - 2 /\ bp' = bp /\ memory' = memory)
                => /\ stack # <<>> /\ stack' = SubSeq(stack, 1, Len(stack) - 1)
                   /\ stack[Len(stack)] = readWord(sp)
           /\ (/\ sp' = sp /\ bp' = bp
               /\ \A cell \in DOMAIN memory :
                    memory'[cell] = memory[cell] \/ cell < bp \/ cell > sp + 1)
                => stack' = stack
           /\ sp < bp => stack = <<>>
<1>1. /\ sp \in Nat /\ bp \in Nat /\ MEMSIZE \in Nat /\ MEMSIZE % 2 = 0
      /\ sp % 2 = 0 /\ bp % 2 = 0 /\ sp + 1 < MEMSIZE
      /\ memory \in Memory /\ memory' \in Memory
      /\ sp = 0 \/ bp = 0 \/ bp <= sp + 2
  <2>1. memory' \in Memory
    BY NextTyped DEF TypeOK, Memory
  <2>2. memory \in Memory
    BY Addresses
  <2>3. /\ sp \in Nat /\ bp \in Nat /\ MEMSIZE \in Nat /\ MEMSIZE % 2 = 0
        /\ sp % 2 = 0 /\ bp % 2 = 0 /\ sp < MEMSIZE
    BY Shape
  <2>4. sp + 1 < MEMSIZE
    BY <2>3
  <2> QED
    BY <2>1, <2>2, <2>3, <2>4 DEF StackShape
<1>2. ASSUME NEW v \in Word, sp # 0, bp # 0, sp' = sp + 2, bp' = bp,
             IsWordAddress(sp + 2), memory' = WordWritten(sp + 2, v)
      PROVE  stack' = Append(stack, v)
  <2>1. v \in Nat /\ v < 65536 /\ sp + 2 \in Nat
    BY <1>1, WordRange
  <2>2. /\ 256 * WordWritten(sp + 2, v)[sp + 2] + WordWritten(sp + 2, v)[sp + 2 + 1]
             = v % 65536
        /\ \A b \in 0..(MEMSIZE - 1) : b # sp + 2 /\ b # sp + 2 + 1
                => WordWritten(sp + 2, v)[b] = memory[b]
    BY <1>1, <1>2, <2>1, WordIsWritten
  <2>3. WordAt(memory', sp + 2) = v
    BY <1>2, <2>1, <2>2 DEF WordAt
  <2>4. \A a \in bp..(sp + 1) : memory'[a] = memory[a]
    BY <1>1, <1>2, <2>2
  <2>5. bp <= sp + 2 /\ sp + 3 < MEMSIZE
    <3>1. sp + 2 < MEMSIZE
        BY <1>2 DEF IsWordAddress
    <3> QED
        BY <1>1, <1>2, <3>1
  <2>6. Words(memory', bp, sp + 2) = Append(Words(memory, bp, sp), v)
    BY <1>1, <2>3, <2>4, <2>5, WordsPushed
  <2> QED
    BY <1>2, <2>6, StackIs
<1>3. ASSUME sp # 0, bp <= sp, sp' = sp - 2, bp' = bp, memory' = memory
      PROVE  /\ stack # <<>> /\ stack' = SubSeq(stack, 1, Len(stack) - 1)
             /\ stack[Len(stack)] = readWord(sp)
  <2>1. sp - 2 \in Nat
    BY <1>1, <1>3
  <2>2. /\ Words(memory, bp, sp) # <<>>
        /\ Words(memory, bp, sp - 2) =
             SubSeq(Words(memory, bp, sp), 1, Len(Words(memory, bp, sp)) - 1)
        /\ Words(memory, bp, sp)[Len(Words(memory, bp, sp))] = WordAt(memory, sp)
    BY <1>1, <1>3, <2>1, WordsPopped
  <2>3. WordAt(memory, sp) = readWord(sp)
    BY DEF WordAt, readWord
  <2> QED
    BY <1>3, <2>2, <2>3, StackIs
<1>4. ASSUME sp' = sp, bp' = bp,
             \A cell \in DOMAIN memory :
                memory'[cell] = memory[cell] \/ cell < bp \/ cell > sp + 1
      PROVE  stack' = stack
  <2>1. ASSUME NEW a \in bp..(sp + 1) PROVE memory'[a] = memory[a]
    <3>1. a \in DOMAIN memory
        BY <1>1 DEF Memory
    <3> QED
        BY <1>1, <1>4, <3>1
  <2>2. Words(memory', bp, sp) = Words(memory, bp, sp)
    BY <1>1, <2>1, WordsKept
  <2> QED
    BY <1>4, <2>2, StackIs
<1>5. ASSUME sp < bp PROVE stack = <<>>
  <2>1. Depth(bp, sp) = 0
    BY <1>1, <1>5 DEF Depth
  <2>2. Words(memory, bp, sp) \in Seq(Word) /\ Len(Words(memory, bp, sp)) = 0
    BY <1>1, <2>1, WordsOnStack
  <2> QED
    BY <2>2, StackIs
<1> QED
    BY <1>2, <1>3, <1>4, <1>5

\* The general registers, before and after.
general == [r \in General |-> registers[r]]

\* A step with a stack instruction is one of the stack machine.
LEMMA StackSimulates ==
    ASSUME TypeOK, StackShape, Next, Disciplined, UsingStack
    PROVE  StackMachine!Next
<1>1. /\ sp # 0 /\ bp # 0 /\ sp \in Nat /\ bp \in Nat
      /\ registers \in [AnyRegister -> Unsigned] /\ ip \in Nat /\ ip + 2 \in Word
  <2>1. ip < MEMSIZE /\ ip \in Nat /\ MEMSIZE \in Nat /\ MEMSIZE <= 32768
    BY Shape DEF UsingStack, Executing, Fetched
  <2>2. ip + 2 \in Nat /\ ip + 2 < 65536
    BY <2>1
  <2>3. ip + 2 \in Word
    BY <2>2, WordRange
  <2> QED
    BY <2>1, <2>3, Shape DEF Disciplined, TypeOK
<1>2. /\ \A r \in General : r \in AnyRegister /\ r # ID_SP /\ r # ID_BP
      /\ ID_SP \in AnyRegister /\ ID_BP \in AnyRegister /\ ID_SP # ID_BP
    BY Registers
<1>3. ASSUME NEW v, registers' = [registers EXCEPT ![ID_SP] = v]
      PROVE  sp' = v /\ bp' = bp /\ general' = general
    BY <1>1, <1>2, <1>3 DEF sp, bp, general
<1>4. ASSUME NEW v, NEW w, NEW r \in General,
             registers' = [registers EXCEPT ![ID_SP] = v, ![r] = w]
      PROVE  sp' = v /\ bp' = bp /\ general' = [general EXCEPT ![r] = w]
    BY <1>1, <1>2, <1>4 DEF sp, bp, general
<1>5. registers' = registers => sp' = sp /\ bp' = bp /\ general' = general
    BY DEF sp, bp, general
<1>6. DOMAIN general = General /\ \A r \in General : general[r] = registers[r]
    BY DEF general
<1>7. NoFlag.e = FALSE
    BY DEF NoFlag
<1>8. CASE Halted /\ (Executing("push") \/ Executing("call"))
  <2>1. todo[1] \in {"push", "call"} /\ todo'[1] = "none"
    BY <1>8, StackTodo, Todo DEF Halted
  <2>2. stack' = stack /\ general' = general /\ ip' = ip /\ fl'.e = fl.e
    BY <1>5, <1>8, StackAfter DEF Halted
  <2>3. StackMachine!Full
    BY <2>1, <2>2 DEF StackMachine!Full, general
  <2> QED
    BY <2>3 DEF StackMachine!Next
<1>9. CASE /\ Executing("push") /\ First \in General
           /\ IsWordAddress(sp + 2)
           /\ memory' = WordWritten(sp + 2, registers[First])
           /\ registers' = [registers EXCEPT ![ID_SP] = sp + 2]
           /\ fl' = NoFlag /\ ip' = ip + 2
  <2>1. todo = <<"push", First>>
    BY <1>9, StackTodo
  <2>2. registers[First] \in Word
    BY <1>9 DEF Disciplined
  <2>3. sp' = sp + 2 /\ bp' = bp /\ general' = general
    BY <1>3, <1>9
  <2>4. stack' = Append(stack, registers[First])
    BY <1>1, <1>9, <2>2, <2>3, StackAfter
  <2>5. StackMachine!Push
    BY <1>6, <1>7, <1>9, <2>1, <2>3, <2>4 DEF StackMachine!Push, StackMachine!Register, general
  <2> QED
    BY <2>5 DEF StackMachine!Next
<1>10. CASE /\ Executing("call") /\ First \in General
            /\ IsWordAddress(sp + 2)
            /\ memory' = WordWritten(sp + 2, ip + 2)
            /\ registers' = [registers EXCEPT ![ID_SP] = sp + 2]
            /\ fl' = NoFlag /\ ip' = registers[First]
  <2>1. todo = <<"call", First>>
    BY <1>10, StackTodo
  <2>2. sp' = sp + 2 /\ bp' = bp /\ general' = general
    BY <1>3, <1>10
  <2>3. stack' = Append(stack, ip + 2)
    BY <1>1, <1>10, <2>2, StackAfter
  <2>4. StackMachine!Call
    BY <1>6, <1>7, <1>10, <2>1, <2>2, <2>3 DEF StackMachine!Call, StackMachine!Register, general
  <2> QED
    BY <2>4 DEF StackMachine!Next
<1>11. CASE /\ Executing("pop") /\ sp < bp
            /\ registers' = registers /\ fl'.e /\ ip' = ip + 2
            /\ memory' = memory
  <2>1. todo[1] = "pop" /\ stack = <<>>
    BY <1>11, StackTodo, StackAfter
  <2>2. sp' = sp /\ bp' = bp /\ general' = general
    BY <1>5, <1>11
  <2>3. stack' = stack
    BY <1>11, <2>2, StackAfter
  <2>4. StackMachine!PopEmpty
    BY <1>11, <2>1, <2>2, <2>3 DEF StackMachine!PopEmpty, general
  <2> QED
    BY <2>4 DEF StackMachine!Next
<1>12. CASE /\ Executing("pop") /\ First \in General /\ bp <= sp
            /\ registers' = [registers EXCEPT ![ID_SP] = sp - 2, ![First] = readWord(sp)]
            /\ ~fl'.e /\ ip' = ip + 2 /\ memory' = memory
  <2>1. todo = <<"pop", First>>
    BY <1>12, StackTodo
  <2>2. sp' = sp - 2 /\ bp' = bp /\ general' = [general EXCEPT ![First] = readWord(sp)]
    BY <1>4, <1>12
  <2>3. /\ stack # <<>> /\ stack' = SubSeq(stack, 1, Len(stack) - 1)
        /\ stack[Len(stack)] = readWord(sp)
    BY <1>1, <1>12, <2>2, StackAfter
  <2>4. StackMachine!Pop
    BY <1>12, <2>1, <2>2, <2>3
       DEF StackMachine!Pop, StackMachine!Register, StackMachine!Front, StackMachine!Last,
           general
  <2> QED
    BY <2>4 DEF StackMachine!Next
<1>13. CASE /\ Executing("ret") /\ bp <= sp
            /\ registers' = [registers EXCEPT ![ID_SP] = sp - 2]
            /\ ip' = readWord(sp) /\ UNCHANGED <<fl, memory>>
  <2>1. todo[1] = "ret"
    BY <1>13, StackTodo
  <2>2. sp' = sp - 2 /\ bp' = bp /\ general' = general
    BY <1>3, <1>13
  <2>3. /\ stack # <<>> /\ stack' = SubSeq(stack, 1, Len(stack) - 1)
        /\ stack[Len(stack)] = readWord(sp)
    BY <1>1, <1>13, <2>2, StackAfter
  <2>4. StackMachine!Return
    BY <1>13, <2>1, <2>2, <2>3
       DEF StackMachine!Return, StackMachine!Front, StackMachine!Last, general
  <2> QED
    BY <2>4 DEF StackMachine!Next
<1> QED
    BY <1>8, <1>9, <1>10, <1>11, <1>12, <1>13, StackStep

\* A step without one leaves the stack, or places it.
LEMMA OthersSimulate ==
    ASSUME TypeOK, StackShape, Next, Disciplined, ~UsingStack
    PROVE  StackMachine!Next
<1>1. todo[1] \notin {"push", "pop", "call", "ret"}
  <2>1. CASE \E name \in Handlers : Executing(name)
    <3>1. PICK name \in Handlers : Executing(name)
        BY <2>1
    <3>2. todo[1] = name
        BY <3>1, Todo
    <3>3. name \notin {"push", "pop", "call", "ret"}
        BY <3>1 DEF UsingStack
    <3> QED
        BY <3>2, <3>3
  <2>2. CASE \A name \in Handlers : ~Executing(name)
    BY <2>2, Todo
  <2> QED
    BY <2>1, <2>2
<1>2. ASSUME sp' = sp, bp' = bp PROVE StackMachine!Next
  <2>1. stack' = stack
    BY <1>2, StackAfter DEF Disciplined
  <2>2. StackMachine!Other
    BY <1>1, <2>1 DEF StackMachine!Other
  <2> QED
    BY <2>2 DEF StackMachine!Next
<1>3. ASSUME NEW name \in {"const", "add", "sub", "cp"}, Executing(name),
             ~(sp' = sp /\ bp' = bp)
      PROVE  StackMachine!Next
  <2>1. name \in Handlers /\ OperandCount(name) > 0
    BY DEF Handlers, opcodes, OperandCount, NoOperand, OneGeneral, OneAny
  <2>2. todo = <<name, First>>
    BY <1>3, <2>1, Todo
  <2>3. ~Stack
    BY DEF UsingStack, Stack, push, call, pop, ret
  <2>4. registers' # registers
    BY <1>3 DEF sp, bp
  <2>5. \E n \in Handlers : \E result :
            /\ Computing(result, Length(n))
            /\ TypedResult(result, AnyRegister, registers, First)
    BY <2>3, <2>4, Steps DEF Halted, Jumps, Jumping, Stores, Prints, Printing, Writes
  <2>6. \A r \in AnyRegister : r # First => registers'[r] = registers[r]
    BY <2>5 DEF Computing, TypedResult
  <2>7. First \notin General
    BY <1>3, <2>6, Registers DEF sp, bp
  <2>8. general' = general
    BY <2>6, <2>7, Registers DEF general
  <2>9. StackMachine!Place
    BY <2>2, <2>7, <2>8 DEF StackMachine!Place, StackMachine!Register, general
  <2> QED
    BY <2>9 DEF StackMachine!Next
<1> QED
    BY <1>2, <1>3 DEF Disciplined

\* The emulator implements the stack its instructions promise, for every program
\* that keeps StackDiscipline: a pop takes the word of the last push that was
\* not taken yet, a return the address of its call, and a pop of nothing says so
\* in the flag e, however the words lie in the memory.
THEOREM StackIsImplemented == Spec /\ StackDiscipline => Implements
<1>1. Init => StackMachine!Init
    BY DEF Init, StartProg, NoFlag, StackMachine!Init
<1>2. TypeOK /\ StackShape /\ [Next \/ Done]_vars /\ [Disciplined]_vars
        => [StackMachine!Next]_(StackMachine!vars)
  <2> SUFFICES ASSUME TypeOK, StackShape, [Next \/ Done]_vars, [Disciplined]_vars
               PROVE  [StackMachine!Next]_(StackMachine!vars)
    OBVIOUS
  <2>1. CASE UNCHANGED vars
    <3>1. UNCHANGED StackMachine!vars
        BY <2>1 DEF vars, StackMachine!vars, todo, stack, Executing, Fetched, Readable,
                    First, Second, readWord, sp, bp
    <3> QED
        BY <3>1
  <2>2. CASE Next /\ Disciplined
    BY <2>2, StackSimulates, OthersSimulate
  <2> QED
    BY <2>1, <2>2 DEF Done
<1>3. StackDiscipline <=> [][Disciplined]_vars
    BY DEF StackDiscipline, Disciplined
<1> QED
    BY <1>1, <1>2, <1>3, TypeIsKept, ShapeIsKept, PTL
       DEF Spec, Implements, StackMachine!Spec

-----------------------------------------------------------------------------
(* What is decoded.                                                        *)

\* ip stands in front of an instruction.
Front(i) ==
    i \in DOMAIN program /\ ip = cells(program)[i] /\ ~IsData(program[i])

\* The instructions that were loaded are still there.
InPlace ==
    /\ program \in Programs
    /\ status = "running" => Pile(program) + 2 <= MEMSIZE
    /\ \A i \in DOMAIN program :
         ~IsData(program[i]) =>
            \A a \in cells(program)[i]..(cells(program)[i + 1] - 1) :
                a < MEMSIZE => memory[a] = Image(program)[a + 1]

\* The numbers of the emulator that do not wrap.
LEMMA Numbering ==
    ASSUME TypeOK
    PROVE  /\ ip \in Nat /\ MEMSIZE \in Nat /\ MEMSIZE <= 32768 /\ MEMSIZE % 2 = 0
           /\ \A n \in Nat : n < 65536 => Wrap(n) = n
<1>1. 2^15 = 32768
    OBVIOUS
<1>2. MEMSIZE \in Nat /\ MEMSIZE % 2 = 0 /\ MEMSIZE <= 32768
    BY <1>1, EmulatorAssumption
<1>3. ASSUME NEW n \in Nat, n < 65536 PROVE Wrap(n) = n
  <2>1. n \in Unsigned
    BY <1>3, WordRange, WordIsUnsigned
  <2>2. n < 2^UNSIGNEDBITS
    BY <2>1, UnsignedRange
  <2> QED
    BY <2>2, Wraps
<1> QED
    BY <1>2, <1>3, Addresses

\* The two tables of opcodes agree.
LEMMA TablesAgree ==
    /\ \A name \in Handlers : opcodes[name] = opcode[name]
    /\ "const" \in Handlers
    /\ \A ins \in Plain : ins[1] \in Handlers \ {"const"}
<1>1. \A name \in Handlers : opcodes[name] = opcode[name]
    BY DEF Handlers, opcodes, opcode
<1>2. "const" \in Handlers
    BY DEF Handlers, opcodes
<1>3. ASSUME NEW ins \in Plain PROVE ins[1] \in Handlers \ {"const"}
  <2>1. ins[1] \in NoOperand \cup OneGeneral \cup OneAny \cup TwoGeneral \cup TwoAny
    BY DEF Plain
  <2>2. "const" \notin NoOperand \cup OneGeneral \cup OneAny \cup TwoGeneral \cup TwoAny
    BY DEF NoOperand, OneGeneral, OneAny, TwoGeneral, TwoAny
  <2> QED
    BY <2>1, <2>2, HandlerNames
<1> QED
    BY <1>1, <1>2, <1>3

\* The bytes of the line at ip stand in the memory.
LEMMA LineInMemory ==
    ASSUME TypeOK, InPlace, status = "running", NEW i, Front(i)
    PROVE  /\ program \in Program /\ Addressed(program) /\ i \in 1..Len(program)
           /\ ip + Size(program[i], ip) = cells(program)[i + 1]
           /\ ip + Size(program[i], ip) <= Pile(program)
           /\ Pile(program) \in Nat /\ Pile(program) + 2 <= MEMSIZE
           /\ Size(program[i], ip) \in Nat
           /\ \A k \in 1..Size(program[i], ip) :
                memory[ip + (k - 1)] = Encode(program, cells(program), i)[k]
<1> DEFINE c == cells(program)
           n == Len(program)
           size == Size(program[i], ip)
<1>1. program \in Program /\ Addressed(program)
    BY CodeAssumption DEF InPlace, Program
<1>2. Laid(program, c) /\ i \in 1..n /\ n \in Nat /\ ip = c[i] /\ ip \in Nat
    BY <1>1, CellsLaid, Addresses DEF Front, Program
<1>3. size \in Nat \ {0} /\ c[i + 1] = ip + size
  <2>1. program[i] \in Instr \cup Constante
    BY <1>1, <1>2, LinesOf
  <2>2. size \in Nat \ {0}
    BY <1>2, <2>1, SizeNat
  <2>3. c[i + 1] = ip + size
    BY <1>2 DEF Laid
  <2> QED
    BY <2>2, <2>3
<1>4. c[i + 1] <= c[n + 1] /\ c[n + 1] \in Nat
  <2>1. /\ \A j \in 1..(n + 1) : c[j] \in Nat
        /\ \A j, k \in 1..(n + 1) : j < k => c[j + 1] <= c[k]
    BY <1>1, <1>2, Ordered
  <2>2. i \in 1..(n + 1) /\ n + 1 \in 1..(n + 1) /\ i < n + 1
    BY <1>2
  <2> QED
    BY <2>1, <2>2
<1>5. /\ Pile(program) \in Nat /\ c[n + 1] <= Pile(program)
      /\ \A k \in 1..size : Image(program)[ip + k] = Encode(program, c, i)[k]
  <2>1. \A k \in 1..Size(program[i], c[i]) :
            Image(program)[c[i] + k] = Encode(program, c, i)[k]
    BY <1>1, <1>2, ImageOf
  <2> QED
    BY <1>1, <1>2, <2>1, ImageOf
<1>6. /\ Pile(program) + 2 <= MEMSIZE
      /\ \A a \in c[i]..(c[i + 1] - 1) : a < MEMSIZE => memory[a] = Image(program)[a + 1]
    BY DEF InPlace, Front
<1> HIDE DEF c, n, size
<1>7. ASSUME NEW k \in 1..size PROVE memory[ip + (k - 1)] = Encode(program, c, i)[k]
  <2>1. /\ ip + (k - 1) \in c[i]..(c[i + 1] - 1) /\ (ip + (k - 1)) + 1 = ip + k
        /\ ip + (k - 1) < c[i + 1]
    BY <1>2, <1>3
  <2>2. ip + (k - 1) < MEMSIZE
    <3>1. ip + (k - 1) \in Int /\ c[i + 1] \in Int
        BY <1>2, <1>3
    <3> QED
        BY <1>4, <1>5, <1>6, <2>1, <3>1, Numbering
  <2>3. memory[ip + (k - 1)] = Image(program)[ip + k]
    BY <1>6, <2>1, <2>2
  <2> QED
    BY <1>5, <2>3
<1>8. ip + size <= Pile(program) /\ size \in Nat
    BY <1>2, <1>3, <1>4, <1>5
<1> QED
    BY <1>1, <1>2, <1>3, <1>5, <1>6, <1>7, <1>8 DEF c, n, size

\* An instruction is decoded as it was assembled: its handler runs, on its
\* operands, and goes on at the line behind it.
LEMMA PlainDecoded ==
    ASSUME TypeOK, InPlace, status = "running", NEW i, Front(i),
           program[i] \in Plain
    PROVE  /\ program[i][1] \in Handlers \ {"const"} /\ Executing(program[i][1])
           /\ \A k \in 2..Len(program[i]) : memory[ip + k - 1] = program[i][k]
           /\ Length(program[i][1]) = Size(program[i], ip)
<1> DEFINE ins == program[i]
           name == ins[1]
           size == Size(ins, ip)
<1>1. /\ program \in Program /\ i \in 1..Len(program)
      /\ ip + size <= Pile(program) /\ Pile(program) + 2 <= MEMSIZE
      /\ Pile(program) \in Nat
      /\ \A k \in 1..size : memory[ip + (k - 1)] = Encode(program, cells(program), i)[k]
      /\ ip \in Nat /\ MEMSIZE \in Nat /\ size \in Nat
    BY LineInMemory, Numbering
<1>2. /\ ~IsConst(ins) /\ ~IsData(ins) /\ Len(ins) \in 1..3
      /\ \A k \in 2..Len(ins) : ins[k] \in AnyRegister
      /\ name \in NoOperand => Len(ins) = 1
      /\ name \in OneGeneral \cup OneAny => Len(ins) = 2
      /\ name \in TwoGeneral \cup TwoAny => Len(ins) = 3
    BY PlainShape
<1>3. size = Len(ins)
    BY <1>2 DEF Size, IsData
<1>4. name \in Handlers \ {"const"} /\ opcodes[name] = opcode[name]
    BY TablesAgree
<1>5. /\ Encode(program, cells(program), i)[1] = opcode[name]
      /\ \A k \in 2..Len(ins) : Encode(program, cells(program), i)[k] = ins[k]
    BY <1>1, EncodePlain
<1>6. memory[ip] = opcodes[name]
  <2>1. 1 \in 1..size /\ ip + (1 - 1) = ip
    BY <1>1, <1>2, <1>3
  <2>2. memory[ip + (1 - 1)] = Encode(program, cells(program), i)[1]
    BY <1>1, <2>1
  <2> QED
    BY <1>4, <1>5, <2>1, <2>2
<1>7. ASSUME NEW k \in 2..Len(ins) PROVE memory[ip + k - 1] = ins[k]
  <2>1. k \in 1..size /\ ip + (k - 1) = ip + k - 1
    BY <1>1, <1>2, <1>3
  <2>2. memory[ip + (k - 1)] = Encode(program, cells(program), i)[k]
    BY <1>1, <2>1
  <2> QED
    BY <1>5, <2>1, <2>2
<1>8. name \in NoOperand \cup OneGeneral \cup OneAny \cup TwoGeneral \cup TwoAny
    BY <1>4, HandlerNames
<1>9. /\ OperandCount(name) = Len(ins) - 1
      /\ Length(name) = Len(ins)
  <2>1. name # "const"
    BY <1>4
  <2>2. /\ name \in OneGeneral \cup OneAny => name \notin NoOperand
        /\ name \in TwoGeneral \cup TwoAny
             => name \notin NoOperand \cup OneGeneral \cup OneAny
    BY DEF NoOperand, OneGeneral, OneAny, TwoGeneral, TwoAny
  <2> HIDE DEF ins, name
  <2>3. CASE name \in NoOperand
    BY <1>2, <2>1, <2>3 DEF OperandCount, Length
  <2>4. CASE name \in OneGeneral \cup OneAny
    BY <1>2, <2>1, <2>2, <2>4 DEF OperandCount, Length
  <2>5. CASE name \in TwoGeneral \cup TwoAny
    BY <1>2, <2>1, <2>2, <2>5 DEF OperandCount, Length
  <2> QED
    BY <1>8, <2>3, <2>4, <2>5
<1>10. \A k \in 2..Len(ins) : ins[k] \in Accepted(name)
  <2>1. CASE name \in OneAny \cup TwoAny \cup {"callscanfs"}
    BY <1>2, <2>1 DEF Accepted
  <2>2. CASE name \notin OneAny \cup TwoAny \cup {"callscanfs"}
    <3>1. Accepted(name) = General
        BY <1>4, <2>2 DEF Accepted
    <3>2. \A k \in 2..Len(ins) : ins[k] \in General
      <4>1. name \in NoOperand \/ name \in OneGeneral \/ name \in TwoGeneral
        BY <1>8, <2>2
      <4> QED
        BY <1>2, <4>1, <2>2 DEF Plain, NoOperand, OneGeneral, OneAny, TwoGeneral, TwoAny
    <3> QED
        BY <3>1, <3>2
  <2> QED
    BY <2>1, <2>2
<1> HIDE DEF ins, name
<1>11. Executing(name)
  <2>1. ip < MEMSIZE /\ ip + OperandCount(name) < MEMSIZE
    BY <1>1, <1>2, <1>3, <1>9
  <2>2. ASSUME NEW k \in 1..OperandCount(name) PROVE memory[ip + k] \in Accepted(name)
    <3>1. k + 1 \in 2..Len(ins) /\ ip + (k + 1) - 1 = ip + k
        BY <1>1, <1>2, <1>9
    <3>2. memory[ip + (k + 1) - 1] = ins[k + 1]
        BY <1>7, <3>1
    <3> QED
        BY <1>10, <3>1, <3>2
  <2> QED
    BY <1>6, <2>1, <2>2 DEF Executing, Fetched, Readable
<1> QED
    BY <1>3, <1>4, <1>7, <1>9, <1>11 DEF ins, name

\* const is decoded as it was assembled.
LEMMA ConstDecoded ==
    ASSUME TypeOK, InPlace, status = "running", NEW i, Front(i), IsConst(program[i])
    PROVE  /\ Executing("const") /\ First = program[i][2]
           /\ readWord(ConstantAt) =
                IF program[i][1] = "const" THEN program[i][3]
                ELSE LabelAddress(program, cells(program), program[i][3])
           /\ Length("const") = Size(program[i], ip)
<1> DEFINE ins == program[i]
           laid == cells(program)
           E == Encode(program, laid, i)
           t == trou(ip)
           size == Size(ins, ip)
           said == IF ins[1] = "const" THEN ins[3] ELSE LabelAddress(program, laid, ins[3])
<1>1. /\ program \in Program /\ Addressed(program) /\ i \in 1..Len(program)
      /\ ip + size <= Pile(program) /\ Pile(program) + 2 <= MEMSIZE
      /\ Pile(program) \in Nat
      /\ \A k \in 1..size : memory[ip + (k - 1)] = E[k]
      /\ ip \in Nat /\ MEMSIZE \in Nat /\ size \in Nat
    BY LineInMemory, Numbering
<1>2. ip = laid[i] /\ laid \in Seq(Nat) /\ i \in DOMAIN program
    BY <1>1, CellsLaid DEF Front, Laid
<1>3. ins \in Instr \cup Constante /\ ins[1] \in {"const", "address"}
        /\ ins[2] \in AnyRegister /\ (ins[1] = "const" => ins[3] \in WordValue)
  <2>1. ins \in Instr \cup Constante
    BY <1>1, <1>2, LinesOf
  <2> QED
    BY <2>1, Kinds, PlainShape DEF IsConst
<1>4. said \in WordValue
    BY <1>1, <1>2, <1>3 DEF Addressed
<1>5. size = 4 + t
    BY <1>3 DEF Size, IsConst
<1>6. t \in 0..1 /\ (t = 0 <=> ip % 2 = 0) /\ (ip + t) % 2 = 0
    BY <1>1, Holes
<1> HIDE DEF laid, said
<1>7. /\ E[1] = opcode["const"] /\ E[2] = ins[2]
      /\ 256 * E[3 + t] + E[4 + t] = said
  <2>1. laid[i] \in Nat /\ ValueOf(program, laid, i) \in WordValue
    BY <1>1, <1>2, <1>4 DEF said, ValueOf
  <2>2. /\ Encode(program, laid, i)[1] = opcode["const"]
        /\ Encode(program, laid, i)[2] = program[i][2]
        /\ 256 * Encode(program, laid, i)[3 + trou(laid[i])]
             + Encode(program, laid, i)[4 + trou(laid[i])] = ValueOf(program, laid, i)
    BY <1>1, <1>2, <2>1, EncodeConst
  <2> QED
    BY <1>2, <2>2 DEF said, ValueOf
<1> HIDE DEF E, t, size
<1>8. /\ memory[ip] = E[1] /\ memory[ip + 1] = E[2]
      /\ memory[ip + 2 + t] = E[3 + t] /\ memory[(ip + 2 + t) + 1] = E[4 + t]
  <2>1. \A k \in 1..(4 + t) : memory[ip + (k - 1)] = E[k]
    BY <1>1, <1>5
  <2>2. ip + (1 - 1) = ip /\ ip + (2 - 1) = ip + 1 /\ ip + ((3 + t) - 1) = ip + 2 + t
          /\ ip + ((4 + t) - 1) = (ip + 2 + t) + 1
    BY <1>1, <1>6
  <2>3. 1 \in 1..(4 + t) /\ 2 \in 1..(4 + t) /\ 3 + t \in 1..(4 + t) /\ 4 + t \in 1..(4 + t)
    BY <1>6
  <2>4. memory[ip + (1 - 1)] = E[1] /\ memory[ip + (2 - 1)] = E[2]
          /\ memory[ip + ((3 + t) - 1)] = E[3 + t]
          /\ memory[ip + ((4 + t) - 1)] = E[4 + t]
    BY <2>1, <2>3
  <2> QED
    BY <2>2, <2>4
<1>9. ConstantAt = ip + 2 + t
    BY <1>1, <1>6 DEF ConstantAt
<1>10. readWord(ConstantAt) = said
    BY <1>7, <1>8, <1>9 DEF readWord
<1>11. Executing("const")
  <2>1. OperandCount("const") = 1 /\ Accepted("const") = AnyRegister
    BY DEF OperandCount, Accepted, NoOperand
  <2>2. memory[ip] = opcodes["const"]
    BY <1>7, <1>8, TablesAgree
  <2>3. ip < MEMSIZE /\ ip + 1 < MEMSIZE
    <3>1. /\ ip \in Nat /\ MEMSIZE \in Nat /\ Pile(program) \in Nat /\ t \in Nat
          /\ ip + (4 + t) <= Pile(program) /\ Pile(program) + 2 <= MEMSIZE
        BY <1>1, <1>5, <1>6
    <3> QED
        BY <3>1
  <2> QED
    BY <1>3, <1>7, <1>8, <2>1, <2>2, <2>3 DEF Executing, Fetched, Readable
<1>12. Length("const") = 4 + t
    BY <1>1, <1>6, <1>9 DEF Length
<1> QED
    BY <1>5, <1>7, <1>8, <1>10, <1>11, <1>12 DEF First, said, laid, size

\* The handler that runs is the one of the line at ip, and takes the cells the
\* assembler gave the line.
Named(ins) == IF IsConst(ins) THEN "const" ELSE ins[1]
\* The line at ip, whatever it is.
LEMMA Decoding ==
    ASSUME TypeOK, InPlace, status = "running", NEW i, Front(i)
    PROVE  /\ Named(program[i]) \in Handlers /\ Executing(Named(program[i]))
           /\ Length(Named(program[i])) = Size(program[i], ip)
           /\ ip + Size(program[i], ip) = cells(program)[i + 1]
           /\ ip + Size(program[i], ip) \in Nat /\ ip + Size(program[i], ip) < 65536
           /\ i \in 1..Len(program) /\ DOMAIN program = 1..Len(program)
           /\ Len(program) \in Nat
<1>1. /\ program \in Program /\ i \in 1..Len(program)
      /\ ip + Size(program[i], ip) = cells(program)[i + 1]
      /\ ip + Size(program[i], ip) <= Pile(program)
      /\ Pile(program) \in Nat /\ Pile(program) + 2 <= MEMSIZE
      /\ Size(program[i], ip) \in Nat
    BY LineInMemory
<1>2. /\ DOMAIN program = 1..Len(program) /\ Len(program) \in Nat
      /\ program[i] \in Instr \cup Constante
    BY <1>1, LinesOf
<1>3. ip + Size(program[i], ip) \in Nat /\ ip + Size(program[i], ip) < 65536
    BY <1>1, Numbering
<1>4. CASE IsConst(program[i])
    BY <1>1, <1>2, <1>3, <1>4, ConstDecoded, TablesAgree DEF Named
<1>5. CASE ~IsConst(program[i])
  <2>1. program[i] \in Plain
    BY <1>2, <1>5, Kinds DEF Front, IsConst, IsData
  <2> QED
    BY <1>1, <1>2, <1>3, <1>5, <2>1, PlainDecoded DEF Named
<1> QED
    BY <1>4, <1>5

\* A handler that is no jump, call or return goes on behind its cells.
LEMMA GoesOn ==
    ASSUME TypeOK, Next, NEW n \in Handlers, Executing(n), ~Halted,
           n \notin {"jmp", "jmpz", "jmpc", "jmpe", "call", "ret"}
    PROVE  ip' = Wrap(ip + Length(n))
<1>1. CASE \E name \in Handlers \ {"push", "pop", "call", "ret"} :
             Writes(name) \/ Stores(name) \/ Prints(name)
  <2>1. PICK name \in Handlers \ {"push", "pop", "call", "ret"} :
            Writes(name) \/ Stores(name) \/ Prints(name)
    BY <1>1
  <2>2. name = n
    BY <2>1, OneExecuting DEF Writes, Stores, Prints
  <2>3. CASE Writes(name)
    BY <2>2, <2>3 DEF Writes, Computing, Advance
  <2>4. CASE Stores(name)
    BY <2>2, <2>4 DEF Stores, Advance
  <2>5. CASE Prints(name)
    <3>1. ip' = Wrap(ip + 2)
        BY <2>5 DEF Prints, Printing, Advance
    <3>2. Length(name) = 2
        BY <2>5 DEF Prints, Length, NoOperand, OneGeneral
    <3> QED
        BY <2>2, <3>1, <3>2
  <2> QED
    BY <2>1, <2>3, <2>4, <2>5
<1>2. CASE Stack
  <2>1. /\ ip \in Nat /\ Wrap(ip + 2) \in Unsigned
        /\ \A r \in AnyRegister : registers[r] \in Nat
        /\ {"push", "pop"} \subseteq Handlers
    <3>1. ip \in Nat /\ ip + 2 \in Int
        BY Addresses
    <3> QED
        BY <3>1, Addresses, Wraps DEF Handlers, opcodes
  <2>2. ~call /\ ~ret
    BY OneExecuting DEF call, ret, Handlers, opcodes
  <2>3. CASE push
    <3>1. n = "push" /\ First \in AnyRegister
        BY <2>1, <2>3, OneExecuting, Operands DEF push, OneAny
    <3>2. ip' = Wrap(ip + 2)
        BY <2>1, <2>3, <3>1, PushSteps DEF push
    <3> QED
        BY <3>1, <3>2 DEF Length, NoOperand, OneAny
  <2>4. CASE pop
    <3>1. n = "pop"
        BY <2>1, <2>4, OneExecuting DEF pop
    <3>2. BusError => Halted
        BY DEF BusError, Halted
    <3>3. ip' = Wrap(ip + 2)
        BY <2>4, <3>2 DEF pop, Computing, Advance
    <3> QED
        BY <3>1, <3>3 DEF Length, NoOperand, OneAny
  <2> QED
    BY <1>2, <2>2, <2>3, <2>4 DEF Stack
<1>3. CASE \E name \in {"jmp", "jmpz", "jmpc", "jmpe"} : Jumps(name)
  <2>1. PICK name \in {"jmp", "jmpz", "jmpc", "jmpe"} : Jumps(name)
    BY <1>3
  <2>2. name \in Handlers /\ Executing(name)
    BY <2>1 DEF Jumps, Handlers, opcodes
  <2> QED
    BY <2>2, OneExecuting
<1> QED
    BY <1>1, <1>2, <1>3, Steps

\* A handler that runs does not make execute return 0.
LEMMA NoFailure ==
    ASSUME TypeOK, Next, NEW n \in Handlers, Executing(n)
    PROVE  status' # "failed"
<1>1. status = "running" /\ ~FetchFault /\ ~Refusal
    BY Frame, Exclusive
<1>2. BusError => status' # "failed"
    BY DEF BusError
<1>3. ASSUME NEW result, NEW k, Computing(result, k) PROVE status' # "failed"
    BY <1>1, <1>3 DEF Computing
<1>4. ASSUME NEW mem, NEW k, Stored(mem, k) PROVE status' # "failed"
    BY <1>1, <1>4 DEF Stored
<1>5. ASSUME NEW text, Printing(text) PROVE status' # "failed"
    BY <1>1, <1>5 DEF Printing
<1>6. Arithmetic => status' # "failed"
    BY <1>2, <1>3 DEF Arithmetic, shiftr, shiftl, not, and, or, xor, add, sub, mul, div,
                      cp, cmp, uless, sless, nop
<1>7. MemoryAccess => status' # "failed"
    BY <1>2, <1>3, <1>4 DEF MemoryAccess, loadw, loadb, storew, storeb, const, Loaded
<1>8. Stack => status' # "failed"
    BY <1>1, <1>2, <1>3 DEF Stack, push, call, pop, ret, Pushed
<1>9. Control => status' # "failed"
    BY <1>1 DEF Control, jmp, jmpz, jmpc, jmpe, Jumping, end
<1>10. callprintfd \/ callprintfu \/ callprintfs => status' # "failed"
    BY <1>2, <1>5 DEF callprintfd, callprintfu, callprintfs
<1>11. callscanfd \/ callscanfu => status' # "failed"
    BY <1>2, <1>3, <1>4 DEF callscanfd, callscanfu, Scanning
<1>12. callscanfs => status' # "failed"
    BY <1>1, <1>2 DEF callscanfs
<1> QED
    BY <1>1, <1>6, <1>7, <1>8, <1>9, <1>10, <1>11, <1>12 DEF Next, InputOutput

\* One step of a program whose jumps work.
JumpsLand ==
    /\ (\E name \in {"jmp", "call", "ret"} : Executing(name))
         => status' # "running" \/ ip' \in Fronts
    /\ (\E name \in {"jmpz", "jmpc", "jmpe"} : Executing(name))
         => ip' = ip + 2 \/ ip' \in Fronts

\* Instructions that go on have an instruction behind them.
Continued ==
    \A i \in DOMAIN program :
        program[i][1] \notin {"jmp", "call", "ret", "end"} /\ ~IsData(program[i])
          => i + 1 \in DOMAIN program /\ ~IsData(program[i + 1])

\* The inductive invariant: the emulator is in step with the lines.
InStep ==
    /\ InPlace /\ Continued /\ status # "failed"
    /\ status = "running" => \E i : Front(i)

\* The fronts are the cells of the instructions.
LEMMA FrontsAre == \A cell : cell \in Fronts <=>
        \E i \in DOMAIN program : cell = cells(program)[i] /\ ~IsData(program[i])
    BY DEF Fronts

\* A step leads from the front of an instruction to the front of another.
LEMMA InStepStep ==
    ASSUME TypeOK, InStep, Next, JumpsLand, CodeKept
    PROVE  InStep'
<1>1. program' = program /\ status = "running"
    BY Frame
<1>2. PICK i : Front(i)
    BY <1>1 DEF InStep
<1>3. InPlace
    BY DEF InStep
<1> DEFINE n == Named(program[i])
           next == cells(program)[i + 1]
<1>4. /\ n \in Handlers /\ Executing(n)
      /\ ip + Length(n) = next /\ next \in Nat /\ next < 65536
      /\ i \in DOMAIN program /\ i \in 1..Len(program)
    BY <1>1, <1>2, <1>3, Decoding
<1> HIDE DEF n, next
<1>5. InPlace'
    BY <1>1, <1>3, CodeCells DEF InPlace
<1>6. Continued' /\ status' # "failed"
    BY <1>1, <1>4, NoFailure DEF InStep, Continued
<1>7. ASSUME status' = "running" PROVE (\E j : Front(j))'
  <2>1. ip' \in Fronts => (\E j : Front(j))'
    BY <1>1, FrontsAre DEF Front
  <2>2. ASSUME n \notin {"jmp", "call", "ret", "end"}, ip' = next
        PROVE  (\E j : Front(j))'
    <3>1. program[i][1] \notin {"jmp", "call", "ret", "end"} /\ ~IsData(program[i])
        BY <1>2, <2>2 DEF n, Named, IsConst, Front
    <3>2. i + 1 \in DOMAIN program /\ ~IsData(program[i + 1])
        BY <1>4, <3>1 DEF InStep, Continued
    <3> QED
        BY <1>1, <2>2, <3>2 DEF Front, next
  <2>3. CASE n \in {"jmp", "call", "ret"}
    BY <1>4, <1>7, <2>1, <2>3 DEF JumpsLand
  <2>4. CASE n \in {"jmpz", "jmpc", "jmpe"}
    <3>1. Length(n) = 2
        BY <2>4 DEF Length, NoOperand, OneGeneral
    <3> QED
        BY <1>4, <2>1, <2>2, <2>4, <3>1 DEF JumpsLand
  <2>5. CASE n = "end"
    <3>1. status' # "running"
      <4>1. end
        BY <1>4, <2>5, Exclusive DEF Next, Arithmetic, MemoryAccess, Stack, Control,
                                     InputOutput
      <4> QED
        BY <4>1 DEF end
    <3> QED
        BY <1>7, <3>1
  <2>6. CASE n \notin {"jmp", "jmpz", "jmpc", "jmpe", "call", "ret", "end"}
    <3>1. ~Halted
        BY <1>7 DEF Halted
    <3>2. ip' = Wrap(ip + Length(n))
        BY <1>4, <2>6, <3>1, GoesOn
    <3> QED
        BY <1>4, <2>2, <2>6, <3>2, Numbering
  <2> QED
    BY <2>3, <2>4, <2>5, <2>6
<1> QED
    BY <1>5, <1>6, <1>7 DEF InStep

\* The file is loaded in front of the first line.
LEMMA InStepFirst ==
    ASSUME Init, ip \in Fronts, Continued
    PROVE  InStep
<1>1. PICK p \in Programs : StartProg(p)
    BY DEF Init
<1>2. p \in Program /\ Addressed(p)
    BY <1>1, CodeAssumption DEF Program
<1>3. /\ program = p
      /\ memory = [a \in 0..(MEMSIZE - 1) |->
                     IF a < Len(Image(p)) THEN Image(p)[a + 1] ELSE 0]
      /\ status = IF Len(Image(p)) <= MEMSIZE THEN "running" ELSE "stopped"
    BY <1>1 DEF StartProg
<1>4. Pile(p) \in Nat /\ Len(Image(p)) = Pile(p) + 2
    BY <1>2, ImageOf
<1>5. InPlace
  <2>1. MEMSIZE \in Nat
    BY EmulatorAssumption
  <2>2. \A a \in 0..(Pile(p) - 1) : a < MEMSIZE => memory[a] = Image(p)[a + 1]
    BY <1>3, <1>4, <2>1
  <2> QED
    BY <1>3, <1>4, <2>2, LinesBelowPile DEF InPlace
<1>6. \E i : Front(i)
    BY FrontsAre DEF Front
<1> QED
    BY <1>3, <1>5, <1>6 DEF InStep

\* In step with the lines, the emulator decodes the one at ip as it was
\* assembled.
LEMMA InStepDecodes ==
    ASSUME TypeOK, InStep
    PROVE  DecodesAsAssembled
<1> SUFFICES ASSUME status = "running"
             PROVE  \E i \in DOMAIN program :
                      /\ ip = cells(program)[i] /\ ~IsData(program[i])
                      /\ IF IsConst(program[i])
                         THEN /\ Executing("const") /\ First = program[i][2]
                              /\ readWord(ConstantAt) =
                                   IF program[i][1] = "const" THEN program[i][3]
                                   ELSE LabelAddress(program, cells(program),
                                                     program[i][3])
                         ELSE /\ Executing(program[i][1])
                              /\ \A k \in 2..Len(program[i]) :
                                   memory[ip + k - 1] = program[i][k]
    BY DEF DecodesAsAssembled, InStep
<1>1. PICK i : Front(i)
    BY DEF InStep
<1>2. /\ InPlace /\ i \in DOMAIN program
      /\ ip = cells(program)[i] /\ ~IsData(program[i])
    BY <1>1 DEF InStep, Front
<1>3. CASE IsConst(program[i])
    BY <1>1, <1>2, <1>3, ConstDecoded
<1>4. CASE ~IsConst(program[i])
  <2>1. program[i] \in Instr \cup Constante
    BY <1>1, <1>2, LineInMemory, LinesOf
  <2>2. program[i] \in Plain
    BY <1>2, <1>4, <2>1, Kinds DEF IsConst, IsData
  <2> QED
    BY <1>1, <1>2, <1>4, <2>2, PlainDecoded
<1> QED
    BY <1>3, <1>4

\* The emulator decodes the lines the assembler wrote, of every program that
\* does not write over its instructions and whose jumps lead to instructions.
THEOREM LinesAreDecoded == Spec /\ CodeIntact /\ JumpDiscipline => []DecodesAsAssembled
<1>1. Init /\ ip \in Fronts /\ Continued => InStep
    BY InStepFirst
<1>2. TypeOK /\ InStep /\ [Next \/ Done]_vars /\ [JumpsLand]_vars /\ [CodeKept]_vars
        => InStep'
  <2> SUFFICES ASSUME TypeOK, InStep, [Next \/ Done]_vars, [JumpsLand]_vars,
                      [CodeKept]_vars
               PROVE  InStep'
    OBVIOUS
  <2>1. CASE UNCHANGED vars
    BY <2>1 DEF vars, InStep, InPlace, Continued, Front
  <2>2. CASE Next /\ JumpsLand /\ CodeKept
    BY <2>2, InStepStep
  <2> QED
    BY <2>1, <2>2 DEF Done
<1>3. TypeOK /\ InStep => DecodesAsAssembled
    BY InStepDecodes
<1>4. JumpDiscipline <=> ip \in Fronts /\ Continued /\ [][JumpsLand]_vars
    BY DEF JumpDiscipline, Continued, JumpsLand
<1>5. CodeIntact <=> [][CodeKept]_vars
    BY DEF CodeIntact
<1> QED
    BY <1>1, <1>2, <1>3, <1>4, <1>5, TypeIsKept, PTL DEF Spec
=============================================================================

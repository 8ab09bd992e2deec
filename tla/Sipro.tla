------------------------------- MODULE Sipro -------------------------------
(***************************************************************************)
(* The SIPRO emulator (asipro/emul/exec.c, memory.c, emul.c): it loads the *)
(* file asipro wrote into its memory and executes one instruction after    *)
(* the other from cell 0, one action per handler of the table pt_fct.      *)
(* What the user types is chosen by the environment.                       *)
(***************************************************************************)
EXTENDS SiproAlu, SiproCode, FiniteSets

CONSTANTS MEMSIZE,   \* cells of the memory: 32768 in the code
          Numbers,   \* the numbers scanf may read
          Lines      \* what getchar may return up to a newline or EOF

ASSUME EmulatorAssumption ==
    /\ MEMSIZE \in Nat \ {0} /\ MEMSIZE % 2 = 0 /\ MEMSIZE <= 2^15
    /\ Numbers \subseteq Int
    /\ Lines \subseteq Seq(Byte \ {0})

VARIABLES program,     \* the lines the file was assembled from
          registers,   \* sp, bp, ax, bx, cx, dx
          ip, fl,
          memory,      \* the cells 0..MEMSIZE-1
          output,      \* what was printed, one element a call
          status       \* "running"; "ended" by end; "failed" when startProg
                       \* returns 0; "stopped" by exit(); "crashed"

vars == <<program, registers, ip, fl, memory, output, status>>

sp == registers[ID_SP]
bp == registers[ID_BP]

\* loadMemoryFromFile; the registers are static, hence 0.
StartProg(p) ==
    /\ program = p
    /\ registers = [r \in AnyRegister |-> 0]
    /\ ip = 0
    /\ fl = NoFlag
    /\ \E file \in {Image(p)} :
       /\ memory = [a \in 0..(MEMSIZE - 1) |->
                      IF a < Len(file) THEN file[a + 1] ELSE 0]
       /\ status = IF Len(file) <= MEMSIZE THEN "running" ELSE "stopped"
    /\ output = <<>>
Init == \E p \in Programs : StartProg(p)

-----------------------------------------------------------------------------
(* Memory.                                                                 *)

IsByteAddress(a) == a < MEMSIZE
IsWordAddress(a) == a < MEMSIZE /\ a % 2 = 0
readWord(a) == 256 * memory[a] + memory[a + 1]
WordUnmasked(a, v) == [memory EXCEPT ![a] = v \div 256, ![a + 1] = v % 256]
WordWritten(a, v) == [memory EXCEPT ![a] = (v \div 256) % 256, ![a + 1] = v % 256]

\* "Bus error !": exit() in readByte, writeByte, readWord or writeWord.
BusError ==
    /\ status' = "stopped"
    /\ UNCHANGED <<program, registers, ip, fl, memory, output>>

-----------------------------------------------------------------------------
(* Decoding.                                                               *)

\* The table opcodes, whose indices are those of pt_fct.
opcodes ==
    [shiftr |-> 16, shiftl |-> 17, and |-> 21, or |-> 22, xor |-> 23, not |-> 26,
     add |-> 32, sub |-> 33, mul |-> 34, div |-> 35, cp |-> 48, loadw |-> 49,
     storew |-> 50, loadb |-> 51, storeb |-> 52, const |-> 53, push |-> 64,
     pop |-> 65, cmp |-> 80, uless |-> 81, sless |-> 82, jmp |-> 96, jmpz |-> 97,
     jmpc |-> 98, jmpe |-> 99, call |-> 101, ret |-> 102, callprintfd |-> 106,
     callprintfu |-> 107, callprintfs |-> 108, callscanfd |-> 109,
     callscanfu |-> 110, callscanfs |-> 111, nop |-> 0, end |-> 255]
Handlers == DOMAIN opcodes

\* The operand bytes a handler reads before anything else, and the registers
\* it takes; callscanfs takes two more of them than the assembler writes.
OperandCount(name) ==
    IF name \in NoOperand THEN 0
    ELSE IF name \in OneGeneral \cup OneAny \cup {"const"} THEN 1 ELSE 2
Accepted(name) ==
    IF name \in OneAny \cup TwoAny \cup {"const", "callscanfs"}
    THEN AnyRegister ELSE General

Readable(name) == ip + OperandCount(name) < MEMSIZE
First == memory[ip + 1]
Second == memory[ip + 2]

Fetched(name) == status = "running" /\ ip < MEMSIZE /\ memory[ip] = opcodes[name]

\* The handler of name runs and does not refuse its operands.
Executing(name) ==
    /\ Fetched(name)
    /\ Readable(name)
    /\ \A k \in 1..OperandCount(name) : memory[ip + k] \in Accepted(name)

\* readByte of the opcode or of an operand leaves the memory.
FetchFault ==
    /\ status = "running"
    /\ \/ ip >= MEMSIZE
       \/ \E name \in Handlers : Fetched(name) /\ ~Readable(name)
    /\ BusError

\* "opcode %u unknown", or "invalid register": execute returns 0.
Refusal ==
    /\ status = "running"
    /\ ip < MEMSIZE
    /\ \/ \A name \in Handlers : memory[ip] # opcodes[name]
       \/ \E name \in Handlers : Fetched(name) /\ Readable(name) /\ ~Executing(name)
    /\ status' = "failed"
    /\ UNCHANGED <<program, registers, ip, fl, memory, output>>

Advance(n) == ip' = Wrap(ip + n)

-----------------------------------------------------------------------------
(* Arithmetic, logic and comparison: SiproAlu tells the result.            *)

Computing(result, n) ==
    /\ registers' = result.regs
    /\ fl' = result.fl
    /\ Advance(n)
    /\ UNCHANGED <<program, memory, output, status>>

shiftr == Executing("shiftr") /\ Computing(shiftr_f(registers, First), 2)
shiftl ==
    /\ Executing("shiftl")
    /\ IF shiftl_stops(registers, First) THEN BusError   \* exit() of setCarry
       ELSE Computing(shiftl_f(registers, First), 2)
not == Executing("not") /\ Computing(not_f(registers, First), 2)
and == Executing("and") /\ Computing(and_f(registers, First, Second), 3)
or == Executing("or") /\ Computing(or_f(registers, First, Second), 3)
xor == Executing("xor") /\ Computing(xor_f(registers, First, Second), 3)
add == Executing("add") /\ Computing(add_f(registers, First, Second), 3)
sub == Executing("sub") /\ Computing(sub_f(registers, First, Second), 3)
mul == Executing("mul") /\ Computing(mul_f(registers, First, Second), 3)
div == Executing("div") /\ Computing(div_f(registers, First, Second), 3)
cp == Executing("cp") /\ Computing(cp_f(registers, First, Second), 3)
cmp == Executing("cmp") /\ Computing(cmp_f(registers, First, Second), 3)
uless == Executing("uless") /\ Computing(uless_f(registers, First, Second), 3)
sless == Executing("sless") /\ Computing(sless_f(registers, First, Second), 3)
nop == Executing("nop") /\ Computing(Result(registers, NoFlag), 1)

Arithmetic == shiftr \/ shiftl \/ not \/ and \/ or \/ xor \/ add \/ sub \/ mul
                \/ div \/ cp \/ cmp \/ uless \/ sless \/ nop

-----------------------------------------------------------------------------
(* Memory accesses.                                                        *)

Loaded(r, v, n) == Computing(Result([registers EXCEPT ![r] = v], NoFlag), n)
Stored(mem, n) ==
    /\ memory' = mem
    /\ fl' = NoFlag
    /\ Advance(n)
    /\ UNCHANGED <<program, registers, output, status>>

loadw ==
    /\ Executing("loadw")
    /\ LET a == registers[Second] IN
       IF IsWordAddress(a) THEN Loaded(First, readWord(a), 3) ELSE BusError
loadb ==
    /\ Executing("loadb")
    /\ LET a == registers[Second] IN
       IF IsByteAddress(a) THEN Loaded(First, memory[a], 3) ELSE BusError
storew ==
    /\ Executing("storew")
    /\ LET a == registers[Second] IN
       IF IsWordAddress(a) THEN Stored(WordWritten(a, registers[First]), 3)
       ELSE BusError
\* The byte written is the one of the register of the address.
storeb ==
    /\ Executing("storeb")
    /\ LET a == registers[Second] IN
       IF IsByteAddress(a) THEN Stored([memory EXCEPT ![a] = a % 256], 3)
       ELSE BusError

\* The value stands at the first even cell behind the register.
ConstantBehind == ip + 2
ConstantAt == IF (ip + 2) % 2 = 0 THEN ip + 2 ELSE ip + 3
const ==
    /\ Executing("const")
    /\ IF IsWordAddress(ConstantAt)
       THEN Loaded(First, readWord(ConstantAt), ConstantAt + 2 - ip)
       ELSE BusError

MemoryAccess == loadw \/ loadb \/ storew \/ storeb \/ const

-----------------------------------------------------------------------------
(* The stack: sp is the address of the last word pushed.                   *)

\* The stack pointer is raised after the write.
Pushed(v, next) ==
    LET a == Wrap(sp + 2) IN
    IF IsWordAddress(a)
    THEN /\ memory' = WordWritten(a, v)
         /\ registers' = [registers EXCEPT ![ID_SP] = a]
         /\ fl' = NoFlag
         /\ ip' = next
         /\ UNCHANGED <<program, output, status>>
    ELSE BusError

push == Executing("push") /\ Pushed(registers[First], Wrap(ip + 2))
CallToItself == Executing("call") /\ Pushed(ip, registers[First])
call == Executing("call") /\ Pushed(Wrap(ip + 2), registers[First])

\* sp is lowered before the word is read, so that "pop sp" gets the word.
PopUnchecked ==
    /\ Executing("pop")
    /\ IF IsWordAddress(sp)
       THEN Computing(Result([registers EXCEPT ![ID_SP] = Wrap(@ - 2),
                                               ![First] = readWord(sp)],
                             NoFlag), 2)
       ELSE BusError
pop ==
    /\ Executing("pop")
    /\ IF sp < bp
       THEN Computing(Result(registers, [NoFlag EXCEPT !.e = TRUE]), 2)
       ELSE IF IsWordAddress(sp)
       THEN Computing(Result([registers EXCEPT ![ID_SP] = Wrap(@ - 2),
                                               ![First] = readWord(sp)],
                             NoFlag), 2)
       ELSE BusError

\* ret does not compare sp with bp and leaves the flags.
ret ==
    /\ Executing("ret")
    /\ IF IsWordAddress(sp)
       THEN /\ registers' = [registers EXCEPT ![ID_SP] = Wrap(@ - 2)]
            /\ ip' = readWord(sp)
            /\ UNCHANGED <<program, fl, memory, output, status>>
       ELSE BusError

Stack == push \/ call \/ pop \/ ret

-----------------------------------------------------------------------------
(* Jumps leave the flags.                                                  *)

Jumping(condition) ==
    /\ ip' = IF condition THEN registers[First] ELSE Wrap(ip + 2)
    /\ UNCHANGED <<program, registers, fl, memory, output, status>>

jmp == Executing("jmp") /\ Jumping(TRUE)
jmpz == Executing("jmpz") /\ Jumping(fl.z)
jmpc == Executing("jmpc") /\ Jumping(fl.c)
jmpe == Executing("jmpe") /\ Jumping(fl.e)

end ==
    /\ Executing("end")
    /\ status' = "ended"
    /\ UNCHANGED <<program, registers, ip, fl, memory, output>>

Control == jmp \/ jmpz \/ jmpc \/ jmpe \/ end

-----------------------------------------------------------------------------
(* Input and output.                                                       *)

Printing(text) ==
    /\ output' = Append(output, text)
    /\ fl' = NoFlag
    /\ Advance(2)
    /\ UNCHANGED <<program, registers, memory, status>>

callprintfd ==
    /\ Executing("callprintfd")
    /\ LET a == registers[First] IN
       IF IsWordAddress(a) THEN Printing(<<"number", registerToLongInt(readWord(a))>>)
       ELSE BusError
callprintfu ==
    /\ Executing("callprintfu")
    /\ LET a == registers[First] IN
       IF IsWordAddress(a) THEN Printing(<<"number", readWord(a)>>)
       ELSE BusError

\* printf gets an address of the host and no bound: a string that does not
\* end inside the memory is read from whatever lies behind it.
callprintfs ==
    /\ Executing("callprintfs")
    /\ LET a == registers[First]
           zeros == {b \in a..(MEMSIZE - 1) : memory[b] = 0}
       IN IF zeros # {}
          THEN LET stop == CHOOSE b \in zeros : \A c \in zeros : b <= c
               IN Printing(<<"text", [k \in 1..(stop - a) |->
                                                  memory[a + k - 1]]>>)
          ELSE \/ Printing(<<"unknown text">>)
               \/ /\ status' = "crashed"
                  /\ UNCHANGED <<program, registers, ip, fl, memory, output>>

\* scanf reads a number of the interval, which goes to the word at an address,
\* or something else.
Scanning(interval) ==
    \/ Computing(Result(registers, [NoFlag EXCEPT !.e = TRUE]), 2)
    \/ /\ Numbers \cap interval # {}
       /\ IF IsWordAddress(registers[First])
          THEN \E number \in Numbers \cap interval :
                  Stored(WordWritten(registers[First],
                                     longIntToRegister(number)), 2)
          ELSE BusError

callscanfd == Executing("callscanfd") /\ Scanning(SIPRO_INTMIN..SIPRO_INTMAX)
\* scanf of %u wraps a negative number, to one that is too large.
callscanfu == Executing("callscanfu") /\ Scanning(Word)

\* At most registers[Second] characters of the line, then a NUL behind them.
callscanfs ==
    /\ Executing("callscanfs")
    /\ \E line \in Lines :
        LET a == registers[First]
            i == IF Len(line) < registers[Second] THEN Len(line)
                 ELSE registers[Second]
            Cell(k) == Wrap(a + k)
        IN IF \A k \in 0..i : IsByteAddress(Cell(k))
           THEN /\ memory' = [b \in DOMAIN memory |->
                                IF b \in a..(a + i - 1) THEN line[b - a + 1]
                                ELSE IF b = a + i THEN 0 ELSE memory[b]]
                /\ fl' = [NoFlag EXCEPT !.z = (i = 0)]
                /\ Advance(3)
                /\ UNCHANGED <<program, registers, output, status>>
           ELSE BusError

InputOutput == callprintfd \/ callprintfu \/ callprintfs
                 \/ callscanfd \/ callscanfu \/ callscanfs

Next == Arithmetic \/ MemoryAccess \/ Stack \/ Control \/ InputOutput
          \/ FetchFault \/ Refusal

\* main returns, whatever the outcome.
Done == status # "running" /\ UNCHANGED vars

Spec == Init /\ [][Next \/ Done]_vars

\* The loop of execute goes on as long as an instruction can be executed.
FairSpec == Spec /\ WF_vars(Next)

-----------------------------------------------------------------------------
(* Properties.                                                             *)

\* The registers are unsigned ints, the cells bytes, and a status is one of
\* those of the emulator.
TypeOK ==
    /\ registers \in [AnyRegister -> Unsigned]
    /\ ip \in Unsigned
    /\ fl \in Flags
    /\ memory \in [0..(MEMSIZE - 1) -> Byte]
    /\ status \in {"running", "ended", "failed", "stopped", "crashed"}

Signed(r) == registerToLongInt(registers[r])
ExactOrError(exact) ==
    /\ fl'.e <=> exact \notin SIPRO_INTMIN..SIPRO_INTMAX
    /\ ~fl'.e => /\ registerToLongInt(registers'[First]) = exact
                 /\ fl'.z <=> exact = 0

\* add and sub are exact or say so: flag e tells that the signed result leaves
\* -32768..32767, else the first register holds it and z tells whether it is 0
\* (the bit by bit sum of add_internal, and the ways of sub around -32768,
\* which has no opposite).  sub of a register from itself is left out.
SumExact ==
    [][/\ Executing("add") => ExactOrError(Signed(First) + Signed(Second))
       /\ Executing("sub") /\ First # Second =>
            /\ ExactOrError(Signed(First) - Signed(Second))
            /\ registers'[Second] = registers[Second]]_vars

\* The carry of add is the one of the unsigned sum of the words its operands
\* hold.
Low(r) == registers[r] % 2^SIPRO_REGISTERBITSIZE
CarryExact ==
    [][Executing("add") => (fl'.c <=> Low(First) + Low(Second) > SIPRO_UINTMAX)]_vars

\* mul is exact or sets e.
ProductExact == [][Executing("mul") => ExactOrError(Signed(First) * Signed(Second))]_vars

\* div truncates towards 0: what remains is smaller than the divisor and has
\* the sign of the dividend.  The only quotient that is not a SIPRO integer,
\* -32768 / -1, comes out as -32768 without a word.
QuotientExact ==
    [][Executing("div") =>
         LET a == Signed(First)
             b == Signed(Second)
             q == registerToLongInt(registers'[First])
             rest == a - q * b
         IN IF b = 0 THEN fl'.e /\ q = a
            ELSE /\ ~fl'.e /\ (fl'.z <=> q = 0)
                 /\ IF a = SIPRO_INTMIN /\ b = -1 THEN q = SIPRO_INTMIN
                    ELSE Abs(rest) < Abs(b) /\ rest * a >= 0]_vars

\* What the emulator decodes at ip is an instruction of the program, with its
\* operands, wherever the handlers, the jumps, the calls and the returns have
\* led: the lengths, the hole in front of the value of const and the addresses
\* the assembler counted are those the emulator counts.
DecodesAsAssembled ==
    LET c == cells(program)
        Decoded(i) ==
            IF IsConst(program[i])
            THEN /\ Executing("const") /\ First = program[i][2]
                 /\ readWord(ConstantAt) =
                      IF program[i][1] = "const" THEN program[i][3]
                      ELSE LabelAddress(program, c, program[i][3])
            ELSE /\ Executing(program[i][1])
                 /\ \A k \in 2..Len(program[i]) : memory[ip + k - 1] = program[i][k]
    IN /\ status # "failed"
       /\ status = "running" =>
            \E i \in DOMAIN program :
                ip = c[i] /\ ~IsData(program[i]) /\ Decoded(i)

\* What a program does for its jumps to work: it begins with an instruction,
\* jumps, calls and returns to instructions alone, and has an instruction
\* behind each one that may go on there.
Fronts ==   \* the cells at which an instruction begins
    LET c == cells(program)
    IN {c[i] : i \in {j \in DOMAIN program : ~IsData(program[j])}}
JumpDiscipline ==
    /\ ip \in Fronts
    /\ \A i \in DOMAIN program :
         program[i][1] \notin {"jmp", "call", "ret", "end"} /\ ~IsData(program[i])
           => i + 1 \in DOMAIN program /\ ~IsData(program[i + 1])
    /\ [][/\ (\E name \in {"jmp", "call", "ret"} : Executing(name))
               => status' # "running" \/ ip' \in Fronts
          /\ (\E name \in {"jmpz", "jmpc", "jmpe"} : Executing(name))
               => ip' = ip + 2 \/ ip' \in Fronts]_vars

\* sp and bp stand at words of the memory, and sp at most one word below bp.
\* They are 0 until the program has set them.
StackShape ==
    /\ sp % 2 = 0 /\ sp < MEMSIZE /\ bp % 2 = 0
    /\ sp = 0 \/ bp = 0 \/ bp <= sp + 2

\* What a program does for the stack to work: it sets sp and bp behind its code
\* before it uses them, moves them by const, add, sub and cp alone, pushes
\* words, does not return from below bp, and writes no cell between them.  That
\* pushes, pops, calls and returns keep the shape is up to the emulator.
UsingStack == \E name \in {"push", "pop", "call", "ret"} : Executing(name)
StackDiscipline ==
    [][/\ UsingStack => sp # 0 /\ bp # 0
       /\ Executing("push") => First \in General /\ registers[First] \in Word
       /\ Executing("pop") => First \in General
       /\ Executing("ret") => bp <= sp
       /\ ~UsingStack =>
            /\ \A cell \in DOMAIN memory :
                 memory'[cell] = memory[cell] \/ cell < bp \/ cell > sp + 1
            /\ \/ sp' = sp /\ bp' = bp
               \/ /\ \E name \in {"const", "add", "sub", "cp"} : Executing(name)
                  /\ StackShape'
                  /\ bp' = bp \/ bp' = 0 \/ Pile(program) <= bp']_vars

\* The instructions are not written over by the pushes, pops, calls and returns
\* of a program that has set its stack behind them and stores nothing into them
\* itself: pop refuses to go below bp.
CodeKept ==
    LET c == cells(program)
    IN \A i \in DOMAIN program :
         IsData(program[i]) \/ \A a \in c[i]..(c[i + 1] - 1) : memory'[a] = memory[a]
CodeIntact == [][CodeKept]_vars

\* A program without a loop ends, and a function that calls itself without end
\* is stopped by the end of the memory.
Halts == <>(status # "running")

-----------------------------------------------------------------------------
(* The stack as a sequence: see SiproStack.                                *)

\* The handler about to run, and its register if it has one.
todo ==
    IF \E name \in Handlers : Executing(name)
    THEN LET name == CHOOSE n \in Handlers : Executing(n)
         IN <<name, IF OperandCount(name) > 0 THEN First ELSE ID_AX>>
    ELSE <<"none", ID_AX>>

\* The words from bp to sp, the last one pushed at the end.
stack == [k \in 1..((sp - bp) \div 2 + 1) |-> readWord(bp + 2 * (k - 1))]

\* The emulator implements the stack its instructions promise.
StackMachine ==
    INSTANCE SiproStack WITH stack <- stack, todo <- todo,
                             general <- [r \in General |-> registers[r]],
                             ip <- ip, error <- fl.e

Implements == StackMachine!Spec

-----------------------------------------------------------------------------
(* What the manual of the SIPRO (asipro/doc/emulproc.pdf) says of some     *)
(* instructions, and the handlers do otherwise.                            *)

\* shiftl puts the bit it loses into the flag c.
ShiftlKeepsLostBit ==
    [][Executing("shiftl") =>
         status' = "running" /\ (fl'.c <=> BITPOS(registers[First], 15) = 1)]_vars
=============================================================================

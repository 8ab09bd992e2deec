# Verification of Algo2AsmRun

Algo2AsmRun translates algorithms written with the LaTeX package `algo` into
SIPRO assembly and executes them: `algo2asm` compiles one `.tex` file to one
`.asm` file, `run` wraps that file in a main program that calls the function with
given arguments and prints the result, `asipro` assembles it, and the emulator
`sipro` executes the image. This directory holds TLA+ models of the compiler, the
assembler and the emulator, of the code the compiler generates and of the three
tools one after the other, the TLC configurations that check them on small
instances, and proofs checked by TLAPS. `PROJECT.json` lists components, runs,
mutants, the source lines every definition models, the findings, the hazards and
the theorems.

## 1. Inventory

| component | state it keeps | operations | interacts with |
|---|---|---|---|
| grammar actions, `algo2asm.y` | parser stack of bison, name of the function, output file | one semantic action per construct; `main` before and after `yyparse` | calls everything below; its text is read by `asipro` |
| symbol table, `stable.c` | linked list, number of the current block, argument counter | search, new entry, free first, raise/lower the block number, count/reset arguments | written by the actions of the grammar |
| labels, `label.c` | last label number | `new_label_number`, `create_label`, `fail_with` | called by every branching construct |
| statement stacks, `stack_stmt_def.h` | a stack of numbers, `number`, `index` for IF, DOWHILE, DOFORI | written in place by the actions | - |
| package stack, `bison_util.c` | list of the names of `\BEGIN` | push, top, search | function rule |
| lexer, `algo2asm.l` | line number | tokens | parser |
| `run.c` | none | command line, copy of the function, main program | reads the `.asm`, writes `*_main.asm` |
| assembler, `analyse.c` | pass, cell, line, table of at most 10000 symbols | one handler per line, two passes over the text | writes the image |
| emulator, `exec.c`, `memory.c`, `emul.c` | 8 registers (`unsigned int`), 32768 cells | one handler per opcode, byte and word accesses, loader | reads the image, the terminal |

Everything is sequential; there are no threads, no messages and no persistent
state but the files passed on. What is hard here is not interleaving but *long
legal sequences*: a compiler whose correctness rests on four hand-kept counters
and lists staying in step over any nesting of constructs, two passes that must
count alike, and two programs (assembler and emulator) that must agree on every
cell. Input comes from outside (source text, lines, the user), and each step may
end the process, in several ways that leave different files behind.

What makes each component correct:

* compiler: the emitted code balances the run-time stack; scopes are freed
  exactly; statement numbers and labels pair up; every label used is defined once;
* assembler: both passes see the same cells; labels stand for the cell of the next
  byte; the image is the encoding of the lines; wrong text is refused;
* generated code: executed behind the main program of `run`, it prints the value of
  the algorithm, with every operator's operands in their order, every argument in its
  parameter and nothing left on the stack; it writes nowhere but in its variables;
* emulator: results and flags are those of the integers; what is decoded is what
  was assembled; push, pop, call and ret are a stack that does not touch the code.

The hazards behind these properties, with their lines, are in `PROJECT.json`.

## 2. Modules

| module | models |
|---|---|
| `Algo2asm` | the compiler: one action per semantic action |
| `Algo2asm_proofs` | theorems: the run-time stack is balanced; blocks, symbol table, variables of FOR |
| `NameScopes` | abstract: what the symbol table promises, scopes that open and close |
| `Algo2asm_refinement_proofs` | theorem: the symbol table implements `NameScopes` |
| `Algo2asm_statement_proofs` | theorems: numbers of the statements, types, storage of variables; no end of a list is followed, of one function |
| `Algo2asm_label_proofs` | theorems: labels unique and resolved |
| `Asipro` | the two-pass assembler: one action per line |
| `Asipro_proofs` | theorems: types, both passes agree; values of the labels, contents of the image |
| `SiproCode` | the bytes the assembler writes for a sequence of instructions |
| `AsiproListing` | composition: the text of a program through `Asipro`, against the image of `SiproCode` |
| `AsiproListing_proofs` | theorem: the text of every program is assembled, and the file is its image |
| `SiproAlu` | what the arithmetic, logic and comparison handlers compute |
| `Sipro` | the emulator: one action per handler, loads what `SiproCode` encodes |
| `SiproStack` | abstract: the stack push, pop, call and ret promise |
| `Sipro_operator_proofs` | lemmas: what the operators of `SiproAlu` and `SiproCode` give |
| `Sipro_proofs` | theorems: types of the emulator, results and flags; shape of the stack, code intact, `SiproStack` implemented, lines decoded |
| `CodeGen` | the instructions the compiler writes for each construct, and the main program `run` writes around them |
| `AlgoSemantics` | abstract: what an algorithm computes |
| `AlgoRun` | composition: an algorithm through `CodeGen` and `SiproCode`, executed by `Sipro`, against `AlgoSemantics` |
| `MC*` | small instances |

Some operators stand directly in front of one they resemble (`PopNothing` before
`PopValue`, `EnterLast` before `Enter`, ...): these are deliberately broken
variants. No specification uses them; `PROJECT.json` ("mutants") says which property
notices when one takes the place of its neighbour.
(`sub_only_opposite` is an exception: `sub_f` uses it where it is right.)

### Algo2asm

The input is any sequence of tokens the grammar can shift, so the next action *is*
the next construct. `ctx` is the parser's stack of open constructs and `pending` the
number of expression values on it; together with `symbol_table`, `num_scope`,
`count_args`, `stmts`, `label` and `stack_packages` it is the state of the process
between two semantic actions. Text is abstracted to what can go wrong with it: the
labels it defines (`defs`, twice: `dups`) and uses (`refs`), and `depth`, the words
the emitted code leaves on the run-time stack: `push` adds one, `pop` removes one,
a call pops the arguments of the callee and pushes `ax`. An operator whose code
branches leaves the same height on both branches, so one number is enough.
`status` separates the ways a compilation ends: `refused` (yyerror, which removes
the output), `aborted` (fail_with, which leaves it), `crashed`, `accepted`.
`nParams` of a new entry is not initialised: the model lets it be 0 (fresh memory)
or the count of the function freed last. The entry's `add` is not either, but both
outcomes of malloc leave 0 there. The loop that leaves a block reads `next` of a
freed entry; the model takes the outcome of the build, where it is still intact.

`NameScopes` is what the compiler wants from `stable.c`: a stack of sets of names,
one for the function and one per open block, in which no name is twice. It knows no
entries, no order and no numbers, only which construct is the innermost. `Algo2asm`
implements it (`ImplementsScopes`): the k-th scope is the set of the names entered with
block number k-1. So `add`, `num_scope`, the order of the list and the frees from its
front must together never lose a name before its scope ends, keep one longer, or hide
one from `search_symbol_table`.

### Asipro

A line is a record: its kind and what its handler writes. `layout` is a history
variable: the cell in front of each line in the first pass. The properties compare
the second pass and the image with it. "wrong" lines (bad register, value, escape)
fail in whichever pass reads them first, the first. A failing `fwrite` is left out.

### AsiproListing

`Asipro` knows lines and cells, `SiproCode` knows instructions: each states what a file
should contain, the one line by line from the cells the assembler counted, the other
from the program the emulator is started with. `AsiproListing` says when a text *lists*
a program: its lines that write are those of the program in their order, a `const` of a
label means the line the label stands in front of, and labels, comments and empty lines
stand anywhere between. `AssemblesPrograms` is then that such a text is never refused,
provided no label stands twice, the table of symbols holds all and the addresses used
are words, and that the file is `Image(p)`. No definition of the code is added; the
states and steps are those of `Asipro`. What the emulator makes of that file is
`DecodesAsAssembled`.

### SiproCode, SiproAlu, Sipro, SiproStack

`Sipro` takes a program, computes its image as the assembler does (`SiproCode`,
from `analyse.c`) and decodes it with the emulator's own table (`opcodes`, from
`exec.c`): that the two agree is checked, not assumed. A handler reads its operand
bytes, refuses registers it does not take, and acts; `FetchFault` and `Refusal` are
the two ways not to get that far. Registers are `unsigned int`s of `UNSIGNEDBITS`
bits, not words: several handlers rely on it, some by mistake. scanf and getchar
return what the environment chooses; when callprintfs leaves the memory the model
prints an unknown text or crashes. Trace mode and the memory dump only print and
are left out. `SiproStack` is the abstract machine: a sequence, and what each of the
four instructions does to it, given the instruction about to run. The refinement
mapping is the words from `bp` to `sp`; where the program places the stack
(const/sub of `bp`, `sp`) the abstract stack may become anything.

### CodeGen, AlgoSemantics, AlgoRun

`Algo2asm` says when a semantic action runs and what it does to the compiler's
tables; `CodeGen` says which lines of assembly it leaves. An algorithm is a tree, and
the operators of `CodeGen` walk it in the order in which bison runs the actions,
threading what the actions share: the text, the names known, the label counter, the
argument counter, the statement numbers. `Main` is what `run.c` writes: the jump to
`:debut`, the function's text, the stack at `:pile`, the arguments pushed in their
order, the call, the pops, the printing. `Assembled` resolves labels as asipro does
(`Asipro` shows that its two passes do it soundly) and hands the lines to
`SiproCode`. `AlgoSemantics` is written from the assignment and the sample programs
and takes nothing from the code generator: variables and parameters belong to a call,
0 is false, a division by zero ends the program with the message. `AlgoRun` extends
`Sipro`: its steps are the emulator's, from the image of one compiled algorithm, and
its properties compare what is printed with `Expected`, the stack at the end with the
stack at the beginning, every write with the storage the assembler has laid out
(`listing`), and every return with the last call that has not returned (`calls`, a
history variable). The two constants of `AlgoSemantics` are the two readings of a
`\DOFORI` (its bound included or not) and the text of the division's message.

## 3. Runs

Passing runs:

| run | instance | shows |
|---|---|---|
| `Algo2asm_scopes` | names f, x, y; 6 open constructs; 2 statements of a kind; no calls | types, `StackBalance`, `StatementNumbers`, `ScopeOrdered`, `BlockScope`, `ForVariableFirst`, `StorageDeclared`, `LabelsResolved`, `NumberedLabelsUnique`, `NothingLeft`, `NoCrash`; `ImplementsScopes` (refinement of `NameScopes`) |
| `Algo2asm_functions` | names f, x; two packages, so several functions; two open argument lists, 3 words, a counter modulo 4, `/` and `!` | `StackBalance`, `DepthAccounted`, `NumberedLabelsUnique` with calls; `NothingLeft`, `ScopeOrdered` across functions |
| `Asipro_passes` | all texts of up to 5 of 11 lines; texts of every program of up to two lines of 9 kinds, and of those of three that begin with one cell and use an address; a table of 2 symbols, words up to 10 | `UnresolvedLast`, `PassesAgree`, `ImageCorrect`; `AssemblesPrograms` |
| `Sipro_instructions` | 11 edge values squared with 11 operations and a register with itself; every instruction with every register, at an even and an odd cell | `SumExact`, `CarryExact`, `ProductExact`, `QuotientExact`; `TypeOK`, `DecodesAsAssembled` |
| `Sipro_stack` | four pushes, pops or calls, four functions, 64 cells; jumps behind the code | `StackDiscipline`, `StackShape`, `CodeIntact`, `Implements` (refinement of `SiproStack`), `Halts` |
| `AlgoRun_programs` | some 300 algorithms, each with its arguments (below) | `PrintsTheValue`, `StackEmptied`, `ReturnsBehindCall`, `WritesInPlace`, `StackDiscipline`, `JumpDiscipline`, `Terminates` |

`StackDiscipline` and `JumpDiscipline` say what a program does, not what the emulator
does: an arbitrary program may point `bp` at its own code or jump into the middle of a
line, and no emulator that leaves this to the program can prevent it. They are the
hypotheses of the theorems on `Sipro` (section 4). That they are fit for their purpose
is what the runs check: `AlgoRun_programs` that the code `algo2asm` and `run` generate
keeps both in every step, `Sipro_stack` that the programs whose stack is checked there
keep `StackDiscipline`. `CodeIntact` is about the cells of
instructions only, because the assembler lays the variables of a compiled program out
amid its code (`@int 0` behind the label of the variable); `WritesInPlace` says of
compiled programs what they write instead, and implies it.

Why the bounds are enough. Six open constructs allow an IF inside a DOFORI inside
the body with a block each, two statements of a kind allow siblings and nesting;
the interesting faults (wrong number, wrong entry freed) need two of a kind, once
nested and once side by side. Two open argument lists with up to three words are
what it takes for the shared counter to be wrong; a counter modulo 4 is then at its
limit, where it just does not wrap. Five lines allow a forward
reference across an odd cell, two labels on one cell and a duplicate. The
programs given to the assembler have what decides about a cell (an instruction of one
and of three bytes, data, a string, constants with and without a label) in every order
at an even and an odd cell, three lines being what it takes for two constants, and as
many labels as the table holds; words up to 10 are enough for their addresses and make
those of longer texts too large. The edge values of the arithmetic are those where a
carry, a sign or an overflow changes.
The algorithms of `AlgoRun_programs` are every operator on edge values (-32768, a
divisor 0), every operator inside every other on either side, every operator with its
left operand waiting on the stack while its right one is a recursive call, every
statement nested in every other, each level with a variable of its own and a `\RETURN`
inside, and `factorial.tex` and `pgcd.tex` of the tests: the code of a construct depends on
nothing outside it but the registers and the stack, so a pair of constructs is enough
for one to spoil the other. 768 cells hold the largest image and its stack.
Sixty-four cells let pushes reach the end of the memory; the recursive function is
the one that does. `UNSIGNEDBITS` is 20 in the runs because TLC's integers have 32
bits; anything above 16 behaves alike (the model uses it in `not_f` and in the wrap
of addresses only). Bounds of the models are `MaxDepth`, `MaxNest`, `MaxCalls`,
`MaxNumber`, `LabelMax` (the code's UINT_MAX) and `MaxLines`; the guard on `nParams`
in `Parameter` stops when the array `desc` is full.

Violation runs, each a disagreement between the code and what the repository says
of it; `PROJECT.json` ("findings") quotes both:

| run | property | what TLC finds |
|---|---|---|
| `Algo2asm_labels` | `LabelsUnique` | a variable set in two sibling blocks is declared twice; asipro refuses the text |
| `Algo2asm_arity` | `CallArity` | in `f(1, f())`, a call of a function of one parameter, the inner call is accepted without an argument of its own: the counter still holds the outer one's |
| `Asipro_syntax` | `SyntaxErrorRefused` | an unrecognised line ends the assembly in success |
| `Sipro_shiftl` | `ShiftlKeepsLostBit` | shiftl stops the emulator when the bit it loses is 1 |
| `AlgoRun_puissance` | `PrintsTheValue` | the sample program `puissance` of 2 and 3 prints 4: the body of a `\DOFORI` is not run for the bound |
| `AlgoRun_fibonacci` | `PrintsTheValue` | the sample program `fibonacci` of 2 prints 0 and not 1: n has one cell, which fibonacci(n-1) has written over when fibonacci(n-2) is called |

Because of `LabelsUnique` the passing runs state uniqueness for the numbered labels
only.

### Deviations

Other places where the code departs from a document or a comment. The models do
what the code does; no run is kept for them, since each is one comparison or one
assignment. Where a property makes an exception because of one, it is named.

* `\END{p}` closes a package of which `p` is only a prefix (`algo2asm.y:297`).
* The name of the function passes as a variable, whose label nothing defines
  (`algo2asm.y:1069`); `LabelsResolved` excepts that label.
* Nothing bounds `nParams` by `MAX_PARAMS` (`algo2asm.y:353`). `desc` has one entry more,
  and the struct four bytes of padding: the thirteenth parameter writes over `next`. The
  model ends where the array is full and does not follow what such a write does.
  The type of the first parameter goes to `desc[0]`, which the comment (`types.h:55`)
  gives to the return type.
* The second function of a file starts with whatever `nParams` the memory of the first
  one held (`stable.c:39`): with `NoCrash` added to `Algo2asm_functions.cfg` TLC shows
  the end of the list followed, so `NoCrash` is checked of one function, whose count
  starts at 0. Two functions need one name, the file's, so the sample
  programs have one each.
* `get_symbol_table` returns a copy of the first entry, not the entry (`stable.c:62`);
  its callers only read it.
* `&&` and `||` are the bitwise `and` and `or` (`algo2asm.y:951`): `1 && 2` is 0.
  `AlgoRun_programs` gives them the 0 and 1 of comparisons only.
* A function whose end is reached without `\RETURN` runs into `:debut`, which places the
  stack anew and calls it again, for ever (`run.c:97`); the algorithms of the runs return
  on every path, and the mutant of `Terminates` shows the loop.
* `run` does not compare the number of its arguments with the number of parameters
  (`run.c:105`): with fewer the function reads below its stack.
* The argument counter wraps at 256 (`stable.c:88`). With `CountModulus = 3` in
  `Algo2asm_functions.cfg`, one less than there, TLC shows the counter at 0 with three
  words on the stack (`DepthAccounted`), so the assumption of the proofs is needed.
* A label behind the last cell has no value after the first pass and gets 0, the
  cell of the first write, in the second (`analyse.c:172`), so that a `const` of it is
  assembled; `ImageCorrect` excepts such constants.
* `not` leaves all the bits of an unsigned int in a register (`exec.c:345`) of a "16
  bits" processor; `TypeOK` of `Sipro` therefore says `Unsigned`.
* `storeb` writes the low byte of the address (`exec.c:707`).
* `sub r,r` leaves the register (`exec.c:487`); `SumExact` excepts it.
* `callscanfs` writes one cell more than its register says (`exec.c:1143`) and reports
  an empty line in `z`, not in `e` (`exec.c:1149`).

Fairness. `Terminates` is checked under weak fairness of `RunNext`, for the reason
given for `Halts` below, and holds of algorithms whose loops end.
Compiler and assembler have safety properties only: the compiler may stop
at any token, and the assembler reads a finite text. `Halts` is checked under
weak fairness of the emulator's `Next`: `execute` is a loop without waiting, so an
instruction that can be executed is. It holds of programs without a loop and of
recursion without end, which the end of the memory stops.

## 4. Proofs

The theorems hold for every set of names, packages and operators, or of lines, and
every value of the bounds, under the assumptions that stand in the modules
(`ConstantsAssumption`, `AsiproAssumption`: open constructs fit `STACK_CAPACITY`). Three
more are stated where they are needed: `MaxDepth < CountModulus` (in the code: fewer
than 256 words on the stack; see Deviations for how it fails) in the theorems of
`Algo2asm_proofs` on the balance of the stack and in `TypesAreKept` of the compiler, and
`UINTMAX =< 65535`, a word of 16 bits, in `TypesAreKept` of the assembler, whose
const writes it as two bytes; and one function in the file (`OneFunction`) for
`NoCrash`, which does not hold of two. For the emulator (`EmulatorAssumption`,
`CodeAssumption`) the memory has an even number of cells, at most 2^15 (the code:
exactly 2^15), an unsigned int has more than 16 bits, and a program consists of lines
asipro accepts whose addresses fit two bytes, as `codeValue` requires.

None of the properties is inductive: each action is right because of what earlier ones
left behind. The invariants say what that is.

**Compiler.** The stack of constructs is the history of what has been entered, and
each invariant relates one hand-kept variable to it.

* `BalanceInv` (`BalanceInvariant`; gives `StackIsBalanced`, `DepthIsAccounted`). That
  nothing is left when a statement ends depends on what was below its expression when
  it began. The invariant adds how expressions nest (an argument list is open only
  directly inside an expression, and an expression that is no argument list starts on
  an empty stack), that `depth = pending + count_args` is at most `MaxDepth`, and that
  arguments are counted only while an argument list is the innermost construct. What
  makes it delicate is that the counter is shared by the open calls and reset by the
  innermost one, and that a call is accepted only if the counter equals `nParams`,
  which is what its code pops.
* `ScopeInv` (`ScopeInvariant`; gives `ScopesAreOrdered`, `ForFreesItsVariable`,
  `TableIsEmptied`, `BlocksFreeTheirVariables`). `CloseBlock` and `EndFor` free the
  *first* entries, whichever they are. The invariant says which construct stands on
  which (`Standing`), that `num_scope` is the number of blocks in it, that entries are
  in the order of their blocks and each name once (`Ordered`), that the variable of an
  open FOR is in front of everything outside it (`Held`, counted in blocks from the
  frame's place), and that the function's entry is last and counts the parameters in
  front of it (`FunctionLast`). `BlockFirst` then shows that the entries of the
  innermost block are exactly the first ones.
* `ScopeInv` also gives `TableIsScopes`: the step simulation of `NameScopes`, one step of
  the compiler at a time. A table is read as its scopes (`ScopesOf`), and a lemma per way
  in which the list changes says what becomes of them: an entry in front joins the
  innermost scope (`ScopesEnter`), a raised number adds an empty one because no entry has
  it yet (`ScopesOpen`), the frees of `CloseBlock` drop the last and leave the others
  (`ScopesClose`, by `BlockFirst`), the free of `EndFor` takes one name from the
  innermost because names are in the table once (`ScopesForget`).
* `Statements` (`StatementsInvariant`; gives `StatementsKeepNumbers`). For every open
  statement the cell of `stmts` its end will read holds its number; which cell that is
  depends on how many statements of the kind are open in front of it, since `index` has
  been raised once for each. A FOR's number is not on its stack until its bound is
  read (`BoundNumber`), and there is room for those to come (`Room`).
* `StorageInv` (`StorageInvariant`; gives `StorageIsDeclared`): every entry that is not
  a function's has its storage in the code, the function's entry carries the file's
  name. It uses `ScopeInv` for the parameters, whose storage is laid out only at the
  end of the list.
* `LabelInv` (`LabelInvariant`; gives `NumberedLabelsAreUnique`, `LabelsAreResolved`):
  no label with a number not yet given out is in the code, open statements of a kind
  have different numbers (`Distinct`), the labels they have not reached are not defined
  (`FreshFrame`), those they jump back to are (`BackedFrame`), and every label used is
  defined or owed by an open statement (`Owed`) or the function's own name.
* `CrashInv` (`CrashInvariant`; gives `OneFunctionDoesNotCrash`): between the function's
  name and its end the function's `nParams` is at most the number of entries in front
  of its own, and those it counts belong to no block (`Parameters`), so that no block
  and no FOR frees one of them before the loops over the parameters have followed them.
  With the lower bound of `FunctionLast` it is exact. It starts from `stale = 0`: that
  is why a second function breaks it.

**Assembler.** `StepKinds` sorts the actions into five: a line that writes, one that
enters a label, one that does neither, one that ends the assembly, a line of the second
pass.

* `LayoutInv` (`LayoutInvariant`; gives `PassesAgreeAlways`): `layout` starts each line
  where the one before it ended, by the size that kind of line has at that cell
  (`Size`); in the second pass the cell is that of the line. It is needed because the
  padding of a const and of data depends on the cell, so the passes agree on a line
  only if they agreed on all before it.
* `TableInv` (`TableInvariant`; gives `UnresolvedStayLast`): every label read has its
  entry and every entry its label, and the value of an entry is the start of the first
  line behind the label that writes, if there is one. The loop of `outputBytes` gives
  values from the end of the table and stops at the first symbol that has one, so the
  order of the table and the values must be proved together.
* `ImageInv` (gives `ImageIsCorrect`): what was written stays, and the line just read
  wrote the encoding with the values `TableInv` speaks of.

* `ListingInv` (`ListingInvariant`; gives `TextsAreAssembled`): of a text that lists a
  program no line read so far has failed. A label is not refused because its entry is
  not there yet and the table, whose entries are labels read before, has room
  (`LabelAccepted`, by counting). A `const` is not refused in the second pass because
  its label has the value of the line it stands for, by `TableInv` (`ConstAccepted`).
  `ImageInv` then speaks of the whole text when the assembler is done, and the rest is
  that two ways to lay out one image agree: the i-th line of the program is at the cell
  the assembler counted for it (`Placed`, by induction over the lines; what is between
  two of them has no size, and a line has the size `SiproCode` gives it, padding and
  hole included), labels stand for the addresses of the program (`AddressAgrees`), every
  line has the same bytes (`EncodingAgrees`), and every cell belongs to one line
  (`FileIsImage`). It needs no assumption but those of the modules; what it supposes of
  a text stands in the property. With `LinesAreDecoded` it says of what was written in a
  text that the emulator decodes it.

**Emulator.** The theorems hold for every program, every size of the memory and every
width of the registers.

* `TypeIsKept`: `Steps` sorts the actions by what they change (registers, memory, ip,
  output), so that one argument serves all handlers of a kind. That a register stays an
  `unsigned int` needs the range of every result, among them the bit by bit operations
  and the wrap of addresses.
* `SumsAreExact`, `CarriesAreExact`, `ProductsAreExact`, `QuotientsAreExact`: for all
  operands, where TLC has 11 edge values squared. `add_internal` adds bit by bit with
  sixteen carries; the sum of the first k bits of both operands is the sum of what was
  written and the carry, by induction on k. (An induction over a *set* of numbers, those
  for which the sum is right, can be proved, one over an operator cannot.)
* `CellsLaid`, `ImageOf`: each line begins behind the one before it and the image holds
  its bytes there, by the same kind of induction over the lines.
* `ShapeIsKept`: `StackShape` is inductive for programs that keep `StackDiscipline`. `sp`
  may stand one word below `bp` (the empty stack) and no lower, because pop and ret need
  `bp <= sp`, pop by its own test, ret by the discipline; that is what makes a push
  after any number of pops land at `bp` or behind it.
* `CodeIsKept`: with it, `Behind` (`bp` is behind the label pile once it is set, and pile
  inside the memory) shows that the words pushed are outside the cells of the
  instructions. What the program stores itself is its own affair (`SparesCode`).
* `StackIsImplemented`: the step simulation of `SiproStack`. The stack of the abstract
  machine is the words from `bp` to `sp` (`Words`); one lemma each says that a word
  written behind them is appended (`WordsPushed`), that they lose the last one when `sp`
  falls (`WordsPopped`) and that writes elsewhere leave them (`WordsKept`). A push that
  finds the memory full is the abstract `Full`, a pop of nothing `PopEmpty`.
* `LinesAreDecoded`: `InStep` says that `ip` stands in front of an instruction and that
  the instructions loaded are still there. Decoding the line at `ip` gives the handler of
  its name with the cells the assembler counted for it (`PlainDecoded`, `ConstDecoded`,
  whose hole depends on the parity of `ip` in both programs), so that the handler goes on
  exactly in front of the next line; jumps land where `JumpDiscipline` says. From this
  also follows that no instruction is refused in any state (`NoFailure`).

**Model-checked only.** Liveness under fairness (`Halts`, `Terminates`) is outside what
TLAPS can prove. So are the properties of `AlgoRun` (`PrintsTheValue`, `StackEmptied`,
`ReturnsBehindCall`, `WritesInPlace`) and that compiled programs keep the two disciplines:
the code generator and the meaning of an algorithm are recursive operators on trees,
and what a recursion over data gives for every tree needs an induction over an operator.
The properties of the violation runs are refuted, not proved.

## 5. Not modelled

* the lexer: a generated automaton; its tokens are the environment's choices;
* the command line of `run.c` and its copy of the function's text, four bytes at a time,
  which drops up to three bytes at the end: the text ends with a comment;
* `pop`, `clear` and `destroy` of the package stack, which nothing calls, and the string
  helpers of `bison_util.c`, which keep no state;
* failures of fopen, fprintf, fwrite and malloc, truncation by snprintf, the
  formatting of numbers, messages and traces;
* build files, documents, samples.

## 6. Plan

Done: `Algo2asm`, its runs, and theorems for all its invariants, its action property and
its refinement of `NameScopes`; `Asipro` with theorems for all its invariants;
`AsiproListing` with the theorem that connects it to `SiproCode`; `SiproCode`,
`SiproAlu`, `Sipro` and `SiproStack` with theorems for all their invariants,
for `CodeIntact` and for the refinement; `CodeGen`, `AlgoSemantics` and `AlgoRun`, whose
runs also check the hypotheses of the theorems on `Sipro`.
Left: theorems that need no induction over trees about single constructs of `CodeGen`
(that the code of a construct keeps to the stack discipline if that of its parts does).

------------------------------ MODULE AlgoRun ------------------------------
(***************************************************************************)
(* The tools one after the other: algo2asm translates an algorithm, run    *)
(* writes the main program around it, asipro assembles both (CodeGen,      *)
(* SiproCode) and the emulator executes the image (Sipro), one instruction *)
(* a step.  What is printed is compared with what the algorithm computes   *)
(* (AlgoSemantics).                                                        *)
(***************************************************************************)
EXTENDS Sipro, CodeGen, AlgoSemantics

CONSTANTS Algorithms,   \* the algorithms
          Arguments     \* Arguments[a]: the arguments run is given

Compiled(a, args) == Assembled(Main(a, args))

\* The compiler and the assembler accept them.
ASSUME AlgorithmsAssumption ==
    /\ \A a \in Algorithms :
          /\ ~Translation(a).refused
          /\ \A args \in Arguments[a] : Assembles(Main(a, args))
    /\ UNION {{Compiled(a, args) : args \in Arguments[a]} : a \in Algorithms}
         \subseteq Programs

VARIABLES command,   \* what run was given: the algorithm and its arguments
          listing,   \* where the assembler has put the storage of variables
                     \* and the stack
          calls      \* history: the cells behind the calls that have not
                     \* returned, innermost first

runVars == <<vars, command, listing, calls>>

\* The storage of a variable is the only @int of the program but the stack's.
Listing(p) ==
    LET c == cells(p)
        Variable(i) == c[i] + trou(c[i])
        Places(name) == {i \in DOMAIN p : p[i][1] = name}
    IN [variables |-> UNION {{Variable(i), Variable(i) + 1} : i \in Places("int")},
        pile |-> Pile(p)]

RunInit ==
    \E a \in Algorithms : \E args \in Arguments[a] : \E p \in {Compiled(a, args)} :
        /\ command = [algo |-> a, args |-> args]
        /\ listing = Listing(p)
        /\ calls = <<>>
        /\ StartProg(p)

\* A call is two bytes long.  A ret without a call takes nothing from calls, and
\* a stack placed anew has no calls to return from.
Called ==
    CASE Executing("call") -> <<ip + 2>> \o calls
      [] Executing("ret") /\ calls # <<>> -> Tail(calls)
      [] Executing("const") /\ First = ID_BP -> <<>>
      [] OTHER -> calls

RunNext == Next /\ calls' = Called /\ UNCHANGED <<command, listing>>
RunDone == Done /\ UNCHANGED <<command, listing, calls>>

RunSpec == RunInit /\ [][RunNext \/ RunDone]_runVars

\* The emulator goes on as long as an instruction can be executed.
FairRunSpec == RunSpec /\ WF_runVars(RunNext)

-----------------------------------------------------------------------------
(* Properties.                                                             *)

\* A program that has stopped has reached "end", and has printed what the
\* algorithm computes and nothing else: the code of every operator takes its
\* operands in their order, the branches and loops go where they should, the
\* callee finds its arguments, and the caller its operands.
PrintsTheValue ==
    /\ status # "running" =>
         status = "ended" /\ output = <<Expected(command.algo, command.args)>>
    /\ status = "running" => Len(output) <= 1

\* The program of run ends with the stack as it was in front of the call,
\* unless a division by zero ended it: nothing is left by any path through the
\* function, and nothing was taken from below.
StackEmptied ==
    status = "ended" /\ output[1][1] = "number" =>
        bp = listing.pile /\ sp = bp - 2

\* ret goes on behind its own call, the last that has not returned, never at an
\* operand or an argument, in whichever statement and however deep in the
\* recursion it stands.
ReturnsBehindCall ==
    [][Executing("ret") =>
         /\ status' = "running"
         /\ calls # <<>> /\ ip' = Head(calls)]_runVars

\* The program writes into the storage of its variables, which stands amid its
\* code, and on the stack, never over its instructions or its message.
WritesInPlace ==
    [][memory' # memory =>
         \A cell \in 0..(listing.pile - 1) \ listing.variables :
             memory'[cell] = memory[cell]]_runVars

\* An algorithm whose paths all reach \RETURN and whose loops end is executed
\* to its end.
Terminates == <>(status # "running")
=============================================================================

----------------------------- MODULE SiproStack -----------------------------
(***************************************************************************)
(* What push, pop, call and ret of the SIPRO promise to a program, without *)
(* memory or addresses: a stack is a sequence of words.                    *)
(***************************************************************************)
EXTENDS Sequences, SequencesExt

VARIABLES todo,      \* the instruction about to run and its first register
          stack,     \* the words pushed, the last one at the end
          general,   \* the general registers
          ip,
          error      \* the flag e

vars == <<todo, stack, general, ip, error>>

Register == todo[2]

\* Before the program has placed its stack, anything may stand there.
Init == ~error

Push ==
    /\ todo[1] = "push"
    /\ Register \in DOMAIN general
    /\ stack' = Append(stack, general[Register])
    /\ ip' = ip + 2
    /\ ~error'
    /\ UNCHANGED general

Pop ==
    /\ todo[1] = "pop"
    /\ stack # <<>>
    /\ stack' = Front(stack)
    /\ general' = [general EXCEPT ![Register] = Last(stack)]
    /\ ip' = ip + 2
    /\ ~error'

\* Nothing to pop: only the flag e says so.
PopEmpty ==
    /\ todo[1] = "pop"
    /\ stack = <<>>
    /\ error'
    /\ ip' = ip + 2
    /\ UNCHANGED <<stack, general>>

Call ==
    /\ todo[1] = "call"
    /\ stack' = Append(stack, ip + 2)
    /\ ip' = general[Register]
    /\ ~error'
    /\ UNCHANGED general

Return ==
    /\ todo[1] = "ret"
    /\ stack # <<>>
    /\ stack' = Front(stack)
    /\ ip' = Last(stack)
    /\ UNCHANGED <<general, error>>

\* The program places the stack: const, add or sub of bp or sp.
Place ==
    /\ todo[1] \in {"const", "sub", "add", "cp"}
    /\ Register \notin DOMAIN general
    /\ UNCHANGED general

\* There is no room left for a word: the machine stops.
Full ==
    /\ todo[1] \in {"push", "call"}
    /\ todo'[1] = "none"
    /\ UNCHANGED <<stack, general, ip, error>>

\* No other instruction touches the stack.
Other ==
    /\ todo[1] \notin {"push", "pop", "call", "ret"}
    /\ UNCHANGED stack

Next == Push \/ Pop \/ PopEmpty \/ Call \/ Return \/ Full \/ Place \/ Other

Spec == Init /\ [][Next]_vars
=============================================================================

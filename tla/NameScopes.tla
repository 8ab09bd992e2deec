----------------------------- MODULE NameScopes -----------------------------
(***************************************************************************)
(* What the symbol table promises to the compiler, without list, entries   *)
(* and numbers: names belong to scopes, which open and close like          *)
(* brackets, and no name is in two of them.  The first scope holds the     *)
(* function's name and its parameters, each block has one of its own, and  *)
(* the variable of a FOR belongs to the block around the loop until the    *)
(* loop ends.                                                              *)
(***************************************************************************)
EXTENDS Naturals, Sequences

CONSTANTS Names, FileName

VARIABLES construct,   \* the innermost construct, <<kind, name>>
          scopes       \* the names of the open scopes, the innermost last

Kind == construct[1]
Innermost == scopes[Len(scopes)]
Known(x) == \E k \in DOMAIN scopes : x \in scopes[k]
InnermostBecomes(S) == scopes' = [scopes EXCEPT ![Len(scopes)] = S]

Init == scopes = <<{}>>

\* A block opens: the function's, or one inside a statement.
Open ==
    /\ Kind \in {"params", "if", "thenEnd", "while", "forbound"}
    /\ scopes' = Append(scopes, {})

\* A block is left, with all its names.
Close ==
    /\ Kind = "block"
    /\ Len(scopes) > 1
    /\ scopes' = SubSeq(scopes, 1, Len(scopes) - 1)

\* A name no open scope has: the function's, a parameter, the variable of a
\* \SET, or the one of a \DOFORI of the block.
Declare(x) ==
    /\ \/ Kind = "begun" /\ x = FileName
       \/ Kind = "set" /\ x = construct[2]
       \/ Kind \in {"params", "block"}
    /\ ~Known(x)
    /\ InnermostBecomes(Innermost \cup {x})

\* The loop ends and its variable is forgotten, no other name.
EndLoop ==
    /\ Kind = "for"
    /\ construct[2] \in Innermost
    /\ InnermostBecomes(Innermost \ {construct[2]})

\* After the body the parameters are forgotten, and at \END the function.
EndFunction ==
    /\ Kind \in {"body", "end"}
    /\ Len(scopes) = 1
    /\ \/ InnermostBecomes({})
       \/ Kind = "body" /\ InnermostBecomes({FileName})

Next == Open \/ Close \/ (\E x \in Names : Declare(x)) \/ EndLoop \/ EndFunction

Spec == Init /\ [][Next]_scopes
=============================================================================

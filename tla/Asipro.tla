------------------------------- MODULE Asipro -------------------------------
(***************************************************************************)
(* The two-pass assembler asipro (asipro/asm/analyse.c).  The same loop    *)
(* over the lines runs twice: the first pass only counts cells and enters  *)
(* the labels, the second writes the image.  One action is one line.       *)
(*                                                                         *)
(* A line is abstracted to its first character and to what its handler     *)
(* writes: a record with a field t, see Line.                              *)
(***************************************************************************)
EXTENDS Integers, Sequences, FiniteSets

CONSTANTS
    Symbols,        \* names of labels
    Lines,          \* the lines a source text is made of
    MaxLines,       \* bound: lines of a source text
    MAXSYMBOLES,    \* size of symboleTable
    UINTMAX         \* SIPRO_UINTMAX: largest value of a word

Octet == 0..255

\* "label": :sym.  "const": const reg,sym.  "number": const reg,value.
\* "bytes": any other instruction; its bytes do not depend on its place.
\* "data": @int or @string, written at an even cell.  "skip": empty or comment.
\* "unknown": no handler for the first character.  "wrong": a line whose
\* handler returns 0 (register, operand, value, escape).
Line ==
    [t : {"label"}, sym : Symbols]
    \cup [t : {"const"}, reg : Octet, sym : Symbols]
    \cup [t : {"number"}, reg : Octet, val : 0..UINTMAX]
    \cup [t : {"bytes", "data"}, bytes : Seq(Octet) \ {<<>>}]
    \cup [t : {"skip", "unknown", "wrong"}]

ASSUME AsiproAssumption ==
    /\ \A l \in Lines :
         \/ l \in [t : {"label"}, sym : Symbols]
         \/ l \in [t : {"const"}, reg : Octet, sym : Symbols]
         \/ l \in [t : {"number"}, reg : Octet, val : 0..UINTMAX]
         \/ /\ l.t \in {"bytes", "data"} /\ DOMAIN l = {"t", "bytes"}
            /\ l.bytes \in Seq(Octet) /\ l.bytes # <<>>
         \/ l \in [t : {"skip", "unknown", "wrong"}]
    /\ MaxLines \in Nat
    /\ MAXSYMBOLES \in Nat
    /\ UINTMAX \in Nat

\* LONG_MAX in the code: no cell has that number.
SYMBOLE_NOTDEFINED == -1

VARIABLES
    source,         \* the lines of the input file
    symbolePasse,   \* 1 or 2
    nligne,         \* number of the current line
    ncellule,       \* number of cells written so far, or counted
    symboleTable,   \* the symbols in the order they were entered
    output,         \* the bytes of the output file
    status,         \* "running", or how assemblage returned
    layout          \* history variable: layout[i] is ncellule in front of
                    \* line i in the first pass

vars == <<source, symbolePasse, nligne, ncellule, symboleTable, output, status,
          layout>>

Statuses == {"running", "done", "failed", "crashed"}
Symbole == [nom : Symbols, valeur : Nat \cup {SYMBOLE_NOTDEFINED}]

-----------------------------------------------------------------------------
Reading == status = "running" /\ nligne =< Len(source)
Current == source[nligne]

Odd(c) == c % 2 = 1

Defined(s) == \E i \in DOMAIN symboleTable : symboleTable[i].nom = s
findSymbole(s) ==
    symboleTable[CHOOSE i \in DOMAIN symboleTable : symboleTable[i].nom = s]

codeValue(v) == <<v \div 256, v % 256>>

\* outputBytes gives the cell c to the symbols at the end of the table that
\* have no value yet.
Unresolved(i) ==
    \A j \in i..Len(symboleTable) : symboleTable[j].valeur = SYMBOLE_NOTDEFINED
Resolve(c) ==
    [i \in DOMAIN symboleTable |->
        IF Unresolved(i) THEN [symboleTable[i] EXCEPT !.valeur = c]
                         ELSE symboleTable[i]]

NextLine ==
    /\ nligne' = nligne + 1
    /\ layout' = IF symbolePasse = 1 THEN Append(layout, ncellule') ELSE layout
    /\ UNCHANGED <<source, symbolePasse, status>>

ResolveBeforePadding(pad) == Resolve(ncellule)
ResolveBehindPadding(pad) == Resolve(ncellule + Len(pad))

\* Writes bytes after pad zeros; only the second pass touches the file.
Write(pad, bytes) ==
    /\ symboleTable' = ResolveBehindPadding(pad)
    /\ output' = IF symbolePasse = 2 THEN output \o pad \o bytes ELSE output
    /\ ncellule' = ncellule + Len(pad) + Len(bytes)
    /\ NextLine

Fail ==
    /\ status' = "failed"
    /\ UNCHANGED <<source, symbolePasse, nligne, ncellule, symboleTable, output,
                   layout>>

PaddingWhenWriting ==
    IF Odd(ncellule) /\ symbolePasse = 2 THEN <<0>> ELSE <<>>

\* traiteConstante: @int and @string start at an even cell.
Padding == IF Odd(ncellule) THEN <<0>> ELSE <<>>
Data ==
    /\ Reading /\ Current.t = "data"
    /\ Write(Padding, Current.bytes)

\* An instruction whose bytes are the same wherever it stands.
Instruction ==
    /\ Reading /\ Current.t = "bytes"
    /\ Write(<<>>, Current.bytes)

\* addSymbole refuses a name already entered and a full table.
RefusedWhenFull(s) == Len(symboleTable) = MAXSYMBOLES
RefusedOneEarly(s) == Len(symboleTable) + 1 = MAXSYMBOLES \/ Defined(s)
Refused(s) == Len(symboleTable) = MAXSYMBOLES \/ Defined(s)

\* Nothing to do in the second pass.
Label ==
    /\ Reading /\ Current.t = "label"
    /\ CASE symbolePasse = 2 ->
              UNCHANGED <<symboleTable, ncellule, output>> /\ NextLine
         [] symbolePasse = 1 /\ Refused(Current.sym) -> Fail
         [] OTHER ->
              /\ symboleTable' =
                   Append(symboleTable, [nom |-> Current.sym,
                                         valeur |-> SYMBOLE_NOTDEFINED])
              /\ UNCHANGED <<ncellule, output>>
              /\ NextLine

\* const_f with a label: opcode, register, a hole that aligns the operand, the
\* label's value.  The first pass takes 0 for a label without a value, the
\* second refuses it; the message for a label not in the table reads through
\* an uninitialised pointer.
ConstBytes(r, v) ==
    <<53, r>> \o (IF Odd(ncellule) THEN <<0>> ELSE <<>>) \o codeValue(v)
Const ==
    /\ Reading /\ Current.t = "const"
    /\ LET s == Current.sym
           known == Defined(s) /\ findSymbole(s).valeur # SYMBOLE_NOTDEFINED
           v == IF known THEN findSymbole(s).valeur ELSE 0
       IN CASE ~known /\ symbolePasse = 2 ->
                 \/ Fail
                 \/ /\ ~Defined(s)
                    /\ status' = "crashed"
                    /\ UNCHANGED <<source, symbolePasse, nligne, ncellule,
                                   symboleTable, output, layout>>
            [] (known \/ symbolePasse = 1) /\ v > UINTMAX -> Fail
            [] OTHER -> Write(<<>>, ConstBytes(Current.reg, v))

\* const_f with a value.
Number ==
    /\ Reading /\ Current.t = "number"
    /\ Write(<<>>, ConstBytes(Current.reg, Current.val))

\* A comment or an empty line.
Skip ==
    /\ Reading /\ Current.t = "skip"
    /\ UNCHANGED <<ncellule, symboleTable, output>>
    /\ NextLine

\* A line a handler refuses: analyse returns 0.
Wrong == Reading /\ Current.t = "wrong" /\ Fail

PassReturnsToLineZero ==
    IF symbolePasse = 1
    THEN /\ symbolePasse' = 2
         /\ nligne' = 0
         /\ ncellule' = 0
         /\ UNCHANGED <<source, symboleTable, output, status, layout>>
    ELSE /\ status' = "done"
         /\ UNCHANGED <<source, symbolePasse, nligne, ncellule, symboleTable,
                        output, layout>>

\* analyse returns 1 and assemblage goes on to the second pass or to its end.
PassReturns ==
    IF symbolePasse = 1
    THEN /\ symbolePasse' = 2
         /\ nligne' = 1
         /\ ncellule' = 0
         /\ UNCHANGED <<source, symboleTable, output, status, layout>>
    ELSE /\ status' = "done"
         /\ UNCHANGED <<source, symbolePasse, nligne, ncellule, symboleTable,
                        output, layout>>

\* A line with an unknown first character: the message is written and analyse
\* returns EXIT_FAILURE, which is 1.
Unknown == Reading /\ Current.t = "unknown" /\ PassReturns

EndOfFile == status = "running" /\ nligne > Len(source) /\ PassReturns

StartOn(text) ==
    /\ source = text
    /\ symbolePasse = 1
    /\ nligne = 1
    /\ ncellule = 0
    /\ symboleTable = <<>>
    /\ output = <<>>
    /\ status = "running"
    /\ layout = <<0>>

Init == \E text \in UNION {[1..n -> Lines] : n \in 0..MaxLines} : StartOn(text)

Ended == status # "running" /\ UNCHANGED vars

Next == Data \/ Instruction \/ Label \/ Const \/ Number \/ Skip \/ Wrong \/ Unknown
        \/ EndOfFile \/ Ended

Spec == Init /\ [][Next]_vars

-----------------------------------------------------------------------------
(* Properties. *)

TypeOK ==
    /\ source \in Seq(Lines)
    /\ symbolePasse \in {1, 2}
    /\ nligne \in Nat \ {0}
    /\ ncellule \in Nat
    /\ symboleTable \in Seq(Symbole)
    /\ output \in Seq(Octet)
    /\ status \in Statuses
    /\ layout \in Seq(Nat)

\* The loop of outputBytes stops at the first symbol that has a value: those
\* without one are the last entered, and no name is entered twice.
UnresolvedLast ==
    \A i, j \in DOMAIN symboleTable :
        i < j => /\ symboleTable[i].nom # symboleTable[j].nom
                 /\ symboleTable[i].valeur = SYMBOLE_NOTDEFINED =>
                      symboleTable[j].valeur = SYMBOLE_NOTDEFINED

\* The second pass puts every line at the cell the first pass counted for it,
\* and the file holds exactly the cells counted: the values given to labels in
\* the first pass stay right although const has another length in front of an
\* odd cell and its operand was not known.
PassesAgree ==
    symbolePasse = 2 =>
        /\ nligne =< Len(layout)
        /\ ncellule = layout[nligne]
        /\ Len(output) = ncellule

Writes(i) == source[i].t \in {"bytes", "data", "const", "number"}

\* The lines the first pass read (all of them, or those in front of a line it
\* did not recognise).
LinesRead == 1..(Len(layout) - 1)

\* Where line i puts its first byte.
Start(i) == IF source[i].t = "data" /\ Odd(layout[i]) THEN layout[i] + 1
                                                      ELSE layout[i]

\* The cell a label stands for: the first byte of the next line that writes.
Address(s) ==
    LET i == CHOOSE i \in LinesRead : source[i] = [t |-> "label", sym |-> s]
        After == {j \in LinesRead : j > i /\ Writes(j)}
    IN IF After = {} THEN SYMBOLE_NOTDEFINED
       ELSE Start(CHOOSE j \in After : \A k \in After : j =< k)

\* What line i is in the image, given the address every label stands for.
Encoding(i) ==
    CASE source[i].t = "bytes" -> source[i].bytes
      [] source[i].t = "data" ->
           (IF Odd(layout[i]) THEN <<0>> ELSE <<>>) \o source[i].bytes
      [] source[i].t = "const" ->
           <<53, source[i].reg>> \o (IF Odd(layout[i]) THEN <<0>> ELSE <<>>)
             \o codeValue(Address(source[i].sym))
      [] source[i].t = "number" ->
           <<53, source[i].reg>> \o (IF Odd(layout[i]) THEN <<0>> ELSE <<>>)
             \o codeValue(source[i].val)
      [] OTHER -> <<>>

\* Every line written so far is the encoding of that line with the labels
\* replaced by the cells they stand for, forward references included.
ImageCorrect ==
    symbolePasse = 2 =>
        \A i \in 1..(nligne - 1) :
            (source[i].t = "const" =>
                Address(source[i].sym) # SYMBOLE_NOTDEFINED) =>
            SubSeq(output, layout[i] + 1, layout[i + 1]) = Encoding(i)

-----------------------------------------------------------------------------
(* What the sources say and the code does not do. *)

\* "Syntax error: line %u not recognized": such a text is not assembled.
SyntaxErrorRefused ==
    status = "done" => \A i \in DOMAIN source : source[i].t # "unknown"
=============================================================================

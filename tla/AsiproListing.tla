--------------------------- MODULE AsiproListing ----------------------------
(***************************************************************************)
(* The assembler given the text of a program: that the passes of Asipro    *)
(* over a text write what SiproCode says is the image of the program the   *)
(* text lists, which is what the emulator is started with.                 *)
(***************************************************************************)
EXTENDS Asipro, SiproCode

\* The text of a line.  Names of labels are free: s may stand for line k if a
\* label s is in front of that line and behind the line before it.
NamesLine(text, at, s, k) ==
    \E j \in DOMAIN text :
        /\ text[j] = [t |-> "label", sym |-> s]
        /\ j < at[k]
        /\ k > 1 => at[k - 1] < j
Denotes(text, at, i, ins) ==
    LET line == text[at[i]]
    IN CASE ins[1] = "const" ->
              line = [t |-> "number", reg |-> ins[2], val |-> ins[3]]
         [] ins[1] = "address" ->
              /\ line.t = "const" /\ line.reg = ins[2]
              /\ ins[3] \in DOMAIN at /\ NamesLine(text, at, line.sym, ins[3])
         [] ins[1] = "int" -> line = [t |-> "data", bytes |-> Bytes(ins[2])]
         [] ins[1] = "string" -> line = [t |-> "data", bytes |-> ins[2] \o <<0>>]
         [] OTHER ->
              line = [t |-> "bytes", bytes |-> <<opcode[ins[1]]>> \o Tail(ins)]

\* at[i] is where the text has line i of the program; the last line is the
\* "@int 0" of the stack.  Labels, comments and empty lines stand between.
Between(text) == {j \in DOMAIN text : text[j].t \in {"label", "skip"}}
ListsAt(text, p, at) ==
    /\ \A i, j \in DOMAIN at : i < j => at[i] < at[j]
    /\ \A j \in DOMAIN text : j \in Between(text) \/ \E i \in DOMAIN at : at[i] = j
    /\ \A i \in DOMAIN p : Denotes(text, at, i, p[i])
    /\ text[at[Len(p) + 1]] = [t |-> "data", bytes |-> <<0, 0>>]
Lists(text, p) ==
    \E at \in [1..(Len(p) + 1) -> DOMAIN text \ Between(text)] : ListsAt(text, p, at)

\* The text has an "@int 0", as every text of a program has; said apart from
\* Lists because it speaks of the text alone.
HasStack(text) == \E j \in DOMAIN text : text[j] = [t |-> "data", bytes |-> <<0, 0>>]

\* No label stands twice, and the table of symbols holds all.
LabelLines(text) == {j \in DOMAIN text : text[j].t = "label"}
LabelsFit(text) ==
    /\ \A i, j \in LabelLines(text) : text[i].sym = text[j].sym => i = j
    /\ Cardinality(LabelLines(text)) <= MAXSYMBOLES

\* The addresses the program uses are words.
AddressesFit(p) ==
    \A i \in DOMAIN p :
        p[i][1] = "address" => LabelAddress(p, cells(p), p[i][3]) <= UINTMAX

-----------------------------------------------------------------------------
\* The text of a program is never refused, whatever labels and comments stand
\* in it and wherever a label is used, and the file is the image of the program:
\* const finds the value of every label in the second pass, that value is the
\* cell LabelAddress counts, and the cells of both passes are those of cells(p).
AssemblesPrograms ==
    status # "running" /\ HasStack(source) /\ LabelsFit(source) =>
        \A p \in Programs : Lists(source, p) /\ AddressesFit(p)
                              => status = "done" /\ output = Image(p)
=============================================================================
